-------------------------- MODULE JsonReaderProofs --------------------------
(***************************************************************************)
(* Proofs about the JSON reader, for every text, every depth limit, every  *)
(* scratch for keys, every width of int64_t and every set of names.        *)
(*                                                                         *)
(* The recursive functions of JsonText and JsonGrammar are all of one      *)
(* shape, read position by position with a rank that falls: such a         *)
(* function exists (Recursion), and has its values where they belong       *)
(* (RecursiveTyped).  With that the scans are proved to end inside the     *)
(* text; UTF-8, escapes, strings and integers to be those of the grammar;  *)
(* and decoding to give the code points that the grammar says.             *)
(*                                                                         *)
(* ReaderInv then follows the scanner: it says where the member that is    *)
(* being read lies between the calls and the cursor.  ScannedInv adds what *)
(* the scan has found of it, so that the conversions, which read the same  *)
(* bytes again, give what the text says.                                   *)
(***************************************************************************)
EXTENDS JsonReader, SequenceTheorems, WellFoundedInduction, TLAPS

-----------------------------------------------------------------------------
\* What holds of an element when it holds of all of a smaller rank holds of all.
LEMMA RankInduction ==
  ASSUME NEW D, NEW rank \in [D -> Nat], NEW P,
         \A d \in D : (\A e \in D : rank[e] < rank[d] => e \in P) => d \in P
  PROVE  D \subseteq P
<1> DEFINE Less == {pair \in Nat \X Nat : pair[1] < pair[2]}
           Ranks == {rank[d] : d \in D \ P}
<1>1. IsWellFoundedOn(Less, Nat)
  <2>1. OpToRel(<, Nat) = Less
    BY DEF OpToRel
  <2> QED  BY <2>1, NatLessThanWellFounded
<1>2. SUFFICES ASSUME Ranks # {} PROVE FALSE
  OBVIOUS
<1> HIDE DEF Less
<1>3. Ranks \subseteq Nat
  OBVIOUS
<1>4. PICK least \in Ranks : \A n \in Ranks : <<n, least>> \notin Less
  BY <1>1, <1>2, <1>3, WFMin
<1>5. PICK d \in D \ P : rank[d] = least
  BY <1>4
<1>6. ASSUME NEW e \in D, rank[e] < rank[d] PROVE e \in P
  <2>1. <<rank[e], least>> \in Less
    BY <1>3, <1>4, <1>5, <1>6 DEF Less
  <2>2. rank[e] \notin Ranks
    BY <1>4, <2>1
  <2> QED  BY <2>2
<1> QED  BY <1>5, <1>6

\* A recursive definition has a solution when each value is either given by
\* `stop` or combined from one of a smaller rank, that at `to`.
Recursive(D, R, Goes, to, stop, combine, rank, bound) ==
  /\ bound \in Nat /\ rank \in [D -> 0..bound]
  /\ Goes \subseteq D /\ to \in [Goes -> D]
  /\ \A d \in Goes : rank[to[d]] < rank[d]
  /\ stop \in [D -> R] /\ combine \in [Goes -> [R -> R]]

LEMMA Recursion ==
  ASSUME NEW D, NEW R, NEW Goes, NEW to, NEW stop, NEW combine, NEW rank, NEW bound,
         Recursive(D, R, Goes, to, stop, combine, rank, bound)
  PROVE  \E f \in [D -> R] :
           \A d \in D : f[d] = IF d \in Goes THEN combine[d][f[to[d]]] ELSE stop[d]
<1> USE DEF Recursive
<1> DEFINE Next_(f) == [d \in D |-> IF d \in Goes THEN combine[d][f[to[d]]] ELSE stop[d]]
           Settled(n, f) == \A d \in D : rank[d] < n => f[d] = Next_(f)[d]
           P == {n \in Nat : \E f \in [D -> R] : Settled(n, f)}
           identity == [n \in Nat |-> n]
<1>1. ASSUME NEW n \in Nat, \A m \in Nat : m < n => m \in P PROVE n \in P
  <2>1. CASE n = 0
    <3>1. Settled(0, stop)
      OBVIOUS
    <3> HIDE DEF Settled
    <3> QED  BY <2>1, <3>1
  <2>2. CASE n # 0
    <3>1. n - 1 \in P
      BY <1>1, <2>2
    <3>2. PICK f \in [D -> R] : Settled(n - 1, f)
      BY <3>1
    <3> DEFINE g == Next_(f)
    <3>3. g \in [D -> R]
      OBVIOUS
    <3>4. ASSUME NEW d \in D, rank[d] < n PROVE g[d] = Next_(g)[d]
      <4>1. CASE d \in Goes
        <5>1. rank[to[d]] < n - 1 /\ to[d] \in D
          BY <3>4, <4>1
        <5>2. f[to[d]] = g[to[d]]
          BY <3>2, <5>1
        <5> HIDE DEF g
        <5>3. Next_(g)[d] = combine[d][g[to[d]]]
          BY <4>1
        <5>4. g[d] = combine[d][f[to[d]]]
          BY <4>1 DEF g
        <5> QED  BY <5>2, <5>3, <5>4
      <4>2. CASE d \notin Goes
        BY <4>2
      <4> QED  BY <4>1, <4>2
    <3>5. Settled(n, g)
      BY <3>4
    <3> HIDE DEF g, Settled
    <3> QED  BY <3>3, <3>5
  <2> QED  BY <2>1, <2>2
<1>2. Nat \subseteq P
  <2> HIDE DEF P
  <2>1. identity \in [Nat -> Nat]
    OBVIOUS
  <2>2. ASSUME NEW n \in Nat, \A m \in Nat : identity[m] < identity[n] => m \in P
        PROVE  n \in P
    BY <1>1, <2>2
  <2> HIDE DEF identity
  <2> QED  BY ONLY <2>1, <2>2, RankInduction
<1>3. PICK f \in [D -> R] : Settled(bound + 1, f)
  BY <1>2
<1>4. \A d \in D : f[d] = Next_(f)[d]
  BY <1>3
<1> QED  BY <1>4

\* Then all its values are of the kind that it combines.
LEMMA RecursiveTyped ==
  ASSUME NEW D, NEW R, NEW Goes, NEW to, NEW stop, NEW combine, NEW rank, NEW bound,
         Recursive(D, R, Goes, to, stop, combine, rank, bound),
         NEW f, \A d \in D \ Goes : f[d] = stop[d],
         \A d \in Goes : f[to[d]] \in R => f[d] = combine[d][f[to[d]]]
  PROVE  \A d \in D : f[d] \in R
<1> DEFINE P == {d \in D : f[d] \in R}
<1>1. ASSUME NEW d \in D, \A e \in D : rank[e] < rank[d] => e \in P PROVE d \in P
  <2>1. CASE d \in Goes
    <3>1. to[d] \in P
      BY <1>1, <2>1 DEF Recursive
    <3> QED  BY <2>1, <3>1 DEF Recursive
  <2>2. CASE d \notin Goes
    BY <2>2 DEF Recursive
  <2> QED  BY <2>1, <2>2
<1>2. rank \in [D -> Nat]
  BY DEF Recursive
<1>3. D \subseteq P
  <2> HIDE DEF P
  <2> QED  BY ONLY <1>1, <1>2, RankInduction
<1> QED  BY <1>3

-----------------------------------------------------------------------------
LEMMA NaturalsAreIntegers ==
  ASSUME NEW s \in Seq(Nat) PROVE s \in Seq(Int)
<1>1. s = [k \in 1 .. Len(s) |-> s[k]] /\ Len(s) \in Nat
  OBVIOUS
<1>2. \A k \in 1 .. Len(s) : s[k] \in Int
  OBVIOUS
<1> QED  BY <1>1, <1>2

\* The first position that is asked for, up to the one behind the text.
LEMMA FirstFrom ==
  ASSUME NEW i \in Int, NEW end \in Int, NEW S, S \subseteq i..end, S # {}
  PROVE  Min(S) \in S /\ \A j \in S : Min(S) <= j
<1> DEFINE rank == [j \in S |-> j - i]
           P == {j \in S : \E k \in S : \A l \in S : k <= l}
<1>1. rank \in [S -> Nat]
  OBVIOUS
<1>2. ASSUME NEW j \in S, \A k \in S : rank[k] < rank[j] => k \in P PROVE j \in P
  <2>1. CASE \E k \in S : k < j
    BY <1>2, <2>1
  <2>2. CASE \A k \in S : ~(k < j)
    BY <2>2
  <2> QED  BY <2>1, <2>2
<1>3. S \subseteq P
  <2> HIDE DEF P, rank
  <2> QED  BY <1>1, <1>2, RankInduction
<1>4. \E k \in S : \A l \in S : k <= l
  BY <1>3
<1> QED  BY <1>4 DEF Min

LEMMA WhitespaceEnd ==
  ASSUME NEW s \in Seq(Int), NEW i \in 1 .. Len(s) + 1
  PROVE  SkipWhitespace(s, i) \in i .. Len(s) + 1
<1> DEFINE S == {j \in i .. Len(s) + 1 : At(s, j) \notin Space}
<1>1. Len(s) + 1 \in S
  BY DEF At, Space
<1>2. Min(S) \in S
  <2> HIDE DEF S
  <2>1. S \subseteq i .. Len(s) + 1
    BY DEF S
  <2>2. i \in Int /\ Len(s) + 1 \in Int
    OBVIOUS
  <2>3. S # {}
    BY <1>1
  <2> QED  BY <2>1, <2>2, <2>3, FirstFrom
<1> QED  BY <1>2 DEF SkipWhitespace

LEMMA DigitsEndInside ==
  ASSUME NEW s \in Seq(Int), NEW i \in 1 .. Len(s) + 1
  PROVE  /\ DigitsEnd(s, i) \in i .. Len(s) + 1
         /\ At(s, i) \in Digit => DigitsEnd(s, i) > i
<1> DEFINE S == {j \in i .. Len(s) + 1 : At(s, j) \notin Digit}
<1>1. Len(s) + 1 \in S
  BY DEF At, Digit
<1>2. Min(S) \in S
  <2> HIDE DEF S
  <2>1. S \subseteq i .. Len(s) + 1
    BY DEF S
  <2>2. i \in Int /\ Len(s) + 1 \in Int
    OBVIOUS
  <2>3. S # {}
    BY <1>1
  <2> QED  BY <2>1, <2>2, <2>3, FirstFrom
<1> QED  BY <1>2 DEF DigitsEnd

\* A byte that is there is at a position of the text.
LEMMA ByteInside ==
  ASSUME NEW s \in Seq(Int), NEW i \in Int, At(s, i) # -1
  PROVE  i \in 1 .. Len(s) /\ At(s, i) = s[i]
  BY DEF At

LEMMA NumberInside ==
  ASSUME NEW s \in Seq(Int), NEW i \in 1 .. Len(s)
  PROVE  ScanNumber(s, i) \in {0} \cup (i + 1 .. Len(s) + 1)
<1> DEFINE int   == IF At(s, i) = Minus THEN i + 1 ELSE i
           frac  == IF At(s, int) = Zero THEN int + 1 ELSE DigitsEnd(s, int)
           exp   == IF At(s, frac) = 46 THEN DigitsEnd(s, frac + 1) ELSE frac
           power == IF At(s, exp + 1) \in {43, Minus} THEN exp + 2 ELSE exp + 1
<1>1. int \in {i, i + 1} /\ int \in 1 .. Len(s) + 1
  OBVIOUS
<1>2. CASE At(s, int) \notin Digit
  BY <1>2 DEF ScanNumber
<1>3. CASE At(s, int) \in Digit
  <2>1. int \in 1 .. Len(s)
    <3> HIDE DEF int
    <3> QED  BY <1>1, <1>3, ByteInside DEF Digit
  <2>2. frac \in int + 1 .. Len(s) + 1
    <3> HIDE DEF int
    <3> QED  BY <1>1, <1>3, <2>1, DigitsEndInside
  <2>3. exp \in frac .. Len(s) + 1
    <3> HIDE DEF frac
    <3>1. CASE At(s, frac) = 46
      <4>1. frac \in Int
        BY <2>1, <2>2
      <4>2. frac + 1 \in 1 .. Len(s) + 1
        BY <3>1, <4>1, ByteInside
      <4> QED  BY <3>1, <4>1, <4>2, DigitsEndInside
    <3>2. CASE At(s, frac) # 46
      BY <2>1, <2>2, <3>2
    <3> QED  BY <3>1, <3>2
  <2>4. At(s, power) \in Digit => DigitsEnd(s, power) \in power .. Len(s) + 1
    <3> HIDE DEF exp
    <3>1. power \in Int
      BY <2>1, <2>2, <2>3
    <3> HIDE DEF power
    <3>2. ASSUME At(s, power) \in Digit PROVE power \in 1 .. Len(s)
      BY <3>1, <3>2, ByteInside DEF Digit
    <3> QED  BY <3>1, <3>2, DigitsEndInside
  <2>5. power \in Int /\ power >= exp
    BY <2>1, <2>2, <2>3
  <2>6. ScanNumber(s, i) \in {0, exp, DigitsEnd(s, power)}
        /\ (ScanNumber(s, i) # 0 /\ ScanNumber(s, i) # exp => At(s, power) \in Digit)
    BY DEF ScanNumber
  <2>7. exp \in i + 1 .. Len(s) + 1
    <3> HIDE DEF int, frac, exp
    <3> QED  BY <1>1, <2>1, <2>2, <2>3
  <2>8. ScanNumber(s, i) \notin {0, exp} => ScanNumber(s, i) \in exp .. Len(s) + 1
    <3> HIDE DEF exp, power
    <3> QED  BY <2>4, <2>5, <2>6, <2>7
  <2> HIDE DEF exp
  <2> QED  BY <2>7, <2>8
<1> QED  BY <1>2, <1>3

-----------------------------------------------------------------------------
\* An escape and a character are at most as wide as a surrogate pair; a UTF-8
\* sequence lies inside the text.
LEMMA UnitWidths ==
  ASSUME NEW s, NEW i
  PROVE  /\ ValidUtf8Sequence(s, i) \in 0..4
         /\ UnitWidth(s, i) \in 0..12
<1>1. ValidUtf8Sequence(s, i) \in 0..4
  BY DEF ValidUtf8Sequence
<1>2. EscapeWidth(s, i) \in 0..12
  BY DEF EscapeWidth
<1> QED  BY <1>1, <1>2 DEF UnitWidth

LEMMA SequenceInside ==
  ASSUME NEW s \in Seq(Int), NEW i \in 1 .. Len(s), ValidUtf8Sequence(s, i) # 0
  PROVE  i + ValidUtf8Sequence(s, i) <= Len(s) + 1
<1>1. ASSUME NEW j \in Int, NEW n \in 1..3, Continues(s, j, n)
      PROVE  j + n - 1 <= Len(s)
  <2>1. At(s, j + n - 1) \in 128..191
    BY <1>1 DEF Continues
  <2>2. j + n - 1 \in Int
    BY <1>1
  <2> QED  BY <2>1, <2>2 DEF At
<1> DEFINE w == ValidUtf8Sequence(s, i)
<1>2. \/ w = 1
      \/ w = 2 /\ Continues(s, i + 1, 1)
      \/ w = 3 /\ (Continues(s, i + 2, 1) \/ Continues(s, i + 1, 2))
      \/ w = 4 /\ (Continues(s, i + 2, 2) \/ Continues(s, i + 1, 3))
  BY DEF ValidUtf8Sequence
<1> HIDE DEF w
<1>3. w # 2 \/ i + 1 <= Len(s)
  BY <1>1, <1>2
<1>4. w # 3 \/ i + 2 <= Len(s)
  BY <1>1, <1>2
<1>5. w # 4 \/ i + 3 <= Len(s)
  BY <1>1, <1>2
<1>6. w \in {1, 2, 3, 4} /\ i + w <= Len(s) + 1
  BY <1>2, <1>3, <1>4, <1>5
<1> QED  BY <1>6 DEF w

\* The scan of a string is what its recursive definition says, and ends inside
\* the text.
LEMMA StringScan ==
  ASSUME NEW s \in Seq(Int)
  PROVE  \E scan :
           /\ \A j \in 1 .. Len(s) + 12 :
                /\ scan[j] = IF j > Len(s) THEN 0
                             ELSE IF s[j] = Quote THEN j + 1
                             ELSE IF UnitWidth(s, j) = 0 THEN 0 ELSE scan[j + UnitWidth(s, j)]
                /\ scan[j] \in {0} \cup (j + 1 .. Len(s) + 1)
                /\ scan[j] # 0 => s[scan[j] - 1] = Quote
           /\ \A i : ScanString(s, i) = IF At(s, i) = Quote THEN scan[i + 1] ELSE 0
<1> DEFINE D == 1 .. Len(s) + 12
           Goes == {j \in D : j <= Len(s) /\ s[j] # Quote /\ UnitWidth(s, j) # 0}
           to == [j \in Goes |-> j + UnitWidth(s, j)]
           stop == [j \in D |-> IF j <= Len(s) /\ s[j] = Quote THEN j + 1 ELSE 0]
           rank == [j \in D |-> Len(s) + 12 - j]
           combine == [j \in Goes |-> [r \in Nat |-> r]]
           Solves(f) == f = [j \in D |-> IF j > Len(s) THEN 0
                                          ELSE IF s[j] = Quote THEN j + 1
                                          ELSE IF UnitWidth(s, j) = 0 THEN 0
                                          ELSE f[j + UnitWidth(s, j)]]
           scan == CHOOSE f : Solves(f)
<1>1. ASSUME NEW j \in Goes
      PROVE  to[j] \in D /\ to[j] > j /\ to[j] = j + UnitWidth(s, j)
  <2>1. PICK width \in 1..12 : width = UnitWidth(s, j)
    <3>1. UnitWidth(s, j) \in 0..12
      BY UnitWidths
    <3> QED  BY <3>1
  <2>2. j \in 1 .. Len(s)
    OBVIOUS
  <2>3. to[j] = j + UnitWidth(s, j)
    OBVIOUS
  <2> HIDE DEF to, Goes
  <2> QED  BY <2>1, <2>2, <2>3, SMTT(20)
<1>2. to \in [Goes -> D] /\ rank \in [D -> 0 .. Len(s) + 12] /\ Len(s) + 12 \in Nat
      /\ Goes \in SUBSET D /\ \A j \in Goes : rank[to[j]] < rank[j]
  <2>1. rank \in [D -> 0 .. Len(s) + 12] /\ Len(s) + 12 \in Nat /\ Goes \in SUBSET D
    OBVIOUS
  <2>2. to = [j \in Goes |-> to[j]]
    OBVIOUS
  <2> HIDE DEF to, Goes
  <2> QED  BY <1>1, <2>1, <2>2
<1>3. ASSUME NEW f, NEW j \in D
      PROVE  (IF j > Len(s) THEN 0 ELSE IF s[j] = Quote THEN j + 1
              ELSE IF UnitWidth(s, j) = 0 THEN 0 ELSE f[j + UnitWidth(s, j)])
             = IF j \in Goes THEN f[to[j]] ELSE stop[j]
  OBVIOUS
<1>4. \E f : Solves(f)
  <2>1. stop \in [D -> Nat] /\ combine \in [Goes -> [Nat -> Nat]]
    OBVIOUS
  <2>2. \E f \in [D -> Nat] :
          \A j \in D : f[j] = IF j \in Goes THEN combine[j][f[to[j]]] ELSE stop[j]
    <3> DEFINE bound == Len(s) + 12
    <3> HIDE DEF D, rank, Goes, to, stop, combine
    <3>1. Recursive(D, Nat, Goes, to, stop, combine, rank, bound)
      BY <1>2, <2>1 DEF Recursive
    <3> HIDE DEF bound
    <3> QED  BY ONLY <3>1, Recursion
  <2>3. PICK f \in [D -> Nat] :
          \A j \in D : f[j] = IF j \in Goes THEN combine[j][f[to[j]]] ELSE stop[j]
    BY <2>2
  <2> HIDE DEF D, Goes, to, stop
  <2>4. ASSUME NEW j \in D PROVE f[j] = IF j \in Goes THEN f[to[j]] ELSE stop[j]
    BY <1>1, <2>3
  <2>5. Solves(f)
    BY <1>3, <2>4
  <2> HIDE DEF Solves
  <2> QED  BY <2>5
<1>5. Solves(scan)
  <2> HIDE DEF Solves
  <2> QED  BY <1>4
<1>6. ASSUME NEW j \in D PROVE scan[j] = IF j \in Goes THEN scan[to[j]] ELSE stop[j]
  <2> HIDE DEF scan, D, Goes, to, stop
  <2> QED  BY <1>3, <1>5
<1> DEFINE Ends(j) == /\ scan[j] \in {0} \cup (j + 1 .. Len(s) + 1)
                      /\ scan[j] # 0 => s[scan[j] - 1] = Quote
           P == {j \in D : Ends(j)}
<1>7. ASSUME NEW j \in D, \A e \in D : rank[e] < rank[j] => e \in P PROVE j \in P
  <2> HIDE DEF scan
  <2>1. CASE j \in Goes
    <3>1. to[j] \in D /\ to[j] > j /\ to[j] \in P
      <4> HIDE DEF Goes, to, P, rank
      <4> QED  BY <1>1, <1>2, <1>7, <2>1
    <3>2. scan[j] = scan[to[j]]
      <4> HIDE DEF Goes, to, stop
      <4> QED  BY <1>6, <2>1
    <3>3. /\ scan[to[j]] \in {0} \cup (to[j] + 1 .. Len(s) + 1)
          /\ scan[to[j]] # 0 => s[scan[to[j]] - 1] = Quote
      <4>1. Ends(to[j])
        <5> HIDE DEF D, Goes, to, Ends
        <5> QED  BY <3>1
      <4> QED  BY <4>1
    <3>4. to[j] + 1 \in Nat /\ to[j] + 1 >= j + 1
      <4> HIDE DEF Goes, to
      <4> QED  BY <3>1
    <3>5. scan[j] \in {0} \cup (j + 1 .. Len(s) + 1)
      <4> HIDE DEF Goes, to
      <4> QED  BY <3>2, <3>3, <3>4
    <3> HIDE DEF Goes, to
    <3> QED  BY <3>2, <3>3, <3>5
  <2>2. CASE j \notin Goes
    <3>1. scan[j] = stop[j]
      <4> HIDE DEF Goes, to, stop
      <4> QED  BY <1>6, <2>2
    <3>2. stop[j] = 0 \/ (j <= Len(s) /\ s[j] = Quote /\ stop[j] = j + 1)
      OBVIOUS
    <3>3. (j + 1) - 1 = j /\ j \in Nat
      OBVIOUS
    <3> HIDE DEF Goes, stop
    <3> QED  BY <3>1, <3>2, <3>3
  <2> QED  BY <2>1, <2>2
<1>8. D \subseteq P
  <2>1. rank \in [D -> Nat]
    OBVIOUS
  <2> HIDE DEF D, P, rank
  <2> QED  BY ONLY <1>7, <2>1, RankInduction
<1>9. ASSUME NEW j \in D
      PROVE  scan[j] = IF j > Len(s) THEN 0
                       ELSE IF s[j] = Quote THEN j + 1
                       ELSE IF UnitWidth(s, j) = 0 THEN 0 ELSE scan[j + UnitWidth(s, j)]
  <2> HIDE DEF scan, D
  <2> QED  BY <1>5
<1>10. \A i : ScanString(s, i) = IF At(s, i) = Quote THEN scan[i + 1] ELSE 0
  BY DEF ScanString
<1>11. \A j \in D : /\ scan[j] \in {0} \cup (j + 1 .. Len(s) + 1)
                    /\ scan[j] # 0 => s[scan[j] - 1] = Quote
  <2>1. \A j \in D : Ends(j)
    <3> HIDE DEF D, Ends
    <3> QED  BY <1>8
  <2> QED  BY <2>1
<1> HIDE DEF scan
<1> QED  BY <1>9, <1>10, <1>11

\* A string ends behind its second quote, inside the text.
LEMMA StringInside ==
  ASSUME NEW s \in Seq(Int), NEW i \in 1 .. Len(s) + 1
  PROVE  ScanString(s, i) \in {0} \cup (i + 2 .. Len(s) + 1)
<1>1. PICK scan :
        /\ \A j \in 1 .. Len(s) + 12 : scan[j] \in {0} \cup (j + 1 .. Len(s) + 1)
        /\ \A j : ScanString(s, j) = IF At(s, j) = Quote THEN scan[j + 1] ELSE 0
  BY StringScan
<1>2. CASE At(s, i) = Quote
  <2>1. i + 1 \in 1 .. Len(s) + 12 /\ (i + 1) + 1 = i + 2
    OBVIOUS
  <2>2. scan[i + 1] \in {0} \cup ((i + 1) + 1 .. Len(s) + 1)
    BY <1>1, <2>1
  <2>3. ScanString(s, i) = scan[i + 1]
    BY <1>1, <1>2
  <2> QED  BY <2>1, <2>2, <2>3
<1>3. CASE At(s, i) # Quote
  BY <1>1, <1>3
<1> QED  BY <1>2, <1>3

LEMMA WordInside ==
  ASSUME NEW s \in Seq(Int), NEW i \in 1 .. Len(s), NEW l \in Seq(Int), Len(l) # 0
  PROVE  ConsumeLiteral(s, i, l) \in {0} \cup (i + 1 .. Len(s) + 1)
<1> DEFINE end == Min({i + Len(l) - 1, Len(s)})
<1>1. end \in {i + Len(l) - 1, Len(s)} /\ end <= Len(s) /\ end >= i
  <2>1. {i + Len(l) - 1, Len(s)} \subseteq i .. Len(s) + Len(l)
    OBVIOUS
  <2>2. i \in Int /\ Len(s) + Len(l) \in Int
    OBVIOUS
  <2>3. \A S : S \subseteq i .. Len(s) + Len(l) /\ S # {} =>
               Min(S) \in S /\ \A j \in S : Min(S) <= j
    BY <2>2, FirstFrom
  <2>4. end \in {i + Len(l) - 1, Len(s)} /\ \A j \in {i + Len(l) - 1, Len(s)} : end <= j
    BY <2>1, <2>3
  <2> HIDE DEF end
  <2> QED  BY <2>4
<1>2. SubSeq(s, i, end) = l => end - i + 1 = Len(l)
  <2>1. Len(SubSeq(s, i, end)) = end - i + 1
    <3> HIDE DEF end
    <3> QED  BY <1>1
  <2> QED  BY <2>1
<1>3. ConsumeLiteral(s, i, l) = IF SubSeq(s, i, end) = l THEN i + Len(l) ELSE 0
  BY DEF ConsumeLiteral
<1> HIDE DEF end
<1> QED  BY <1>1, <1>2, <1>3

LEMMA LiteralInside ==
  ASSUME NEW s \in Seq(Int), NEW i \in 1 .. Len(s),
         NEW l \in {Literal.true, Literal.false, Literal.null}
  PROVE  ConsumeLiteral(s, i, l) \in {0} \cup (i + 1 .. Len(s) + 1)
<1>1. ConsumeLiteral(s, i, Literal.true) \in {0} \cup (i + 1 .. Len(s) + 1)
  <2>1. Literal.true \in Seq(Int) /\ Len(Literal.true) # 0
    BY DEF Literal
  <2> QED  BY <2>1, WordInside
<1>2. ConsumeLiteral(s, i, Literal.false) \in {0} \cup (i + 1 .. Len(s) + 1)
  <2>1. Literal.false \in Seq(Int) /\ Len(Literal.false) # 0
    BY DEF Literal
  <2> QED  BY <2>1, WordInside
<1>3. ConsumeLiteral(s, i, Literal.null) \in {0} \cup (i + 1 .. Len(s) + 1)
  <2>1. Literal.null \in Seq(Int) /\ Len(Literal.null) # 0
    BY DEF Literal
  <2> QED  BY <2>1, WordInside
<1> QED  BY <1>1, <1>2, <1>3

-----------------------------------------------------------------------------
\* The bytes of the pieces, one behind the other.
LEMMA FlattenedBytes ==
  ASSUME NEW seqs \in Seq(Seq(Nat))
  PROVE  FlattenSeq(seqs) \in Seq(Nat)
<1>1. CASE Len(seqs) = 0
  <2>1. FlattenSeq(seqs) = seqs
    BY <1>1 DEF FlattenSeq
  <2>2. seqs = <<>>
    BY <1>1
  <2> QED  BY <2>1, <2>2
<1>2. CASE Len(seqs) # 0
  <2> DEFINE D == 1 .. Len(seqs)
             R == Seq(Nat)
             Goes == {i \in D : i # 1}
             to == [i \in Goes |-> i - 1]
             stop == [i \in D |-> seqs[i]]
             combine == [i \in Goes |-> [r \in R |-> r \o seqs[i]]]
             rank == [i \in D |-> i]
             bound == Len(seqs)
             Solves(f) == f = [i \in D |-> IF i = 1 THEN seqs[i] ELSE f[i - 1] \o seqs[i]]
             flatten == CHOOSE f : Solves(f)
  <2>1. Recursive(D, R, Goes, to, stop, combine, rank, bound)
    <3>1. bound \in Nat /\ rank \in [D -> 0..bound] /\ Goes \subseteq D /\ to \in [Goes -> D]
      OBVIOUS
    <3>2. \A d \in Goes : rank[to[d]] < rank[d]
      OBVIOUS
    <3>3. stop \in [D -> R] /\ combine \in [Goes -> [R -> R]]
      OBVIOUS
    <3> HIDE DEF D, R, Goes, to, stop, combine, rank, bound
    <3> QED  BY <3>1, <3>2, <3>3 DEF Recursive
  <2>2. \E f : Solves(f)
    <3>1. \E f \in [D -> R] :
            \A d \in D : f[d] = IF d \in Goes THEN combine[d][f[to[d]]] ELSE stop[d]
      <4> HIDE DEF D, R, Goes, to, stop, combine, rank, bound
      <4> QED  BY ONLY <2>1, Recursion
    <3>2. PICK f \in [D -> R] :
            \A d \in D : f[d] = IF d \in Goes THEN combine[d][f[to[d]]] ELSE stop[d]
      BY <3>1
    <3>3. ASSUME NEW i \in D PROVE f[i] = IF i = 1 THEN seqs[i] ELSE f[i - 1] \o seqs[i]
      <4>1. CASE i = 1
        BY <3>2, <4>1
      <4>2. CASE i # 1
        <5>1. i \in Goes /\ to[i] = i - 1 /\ i - 1 \in D
          BY <4>2
        <5>2. f[i - 1] \in R
          <6> HIDE DEF R
          <6> QED  BY <3>2, <5>1
        <5>3. combine[i][f[i - 1]] = f[i - 1] \o seqs[i]
          BY <5>1, <5>2
        <5> HIDE DEF combine, to, Goes
        <5> QED  BY <3>2, <4>2, <5>1, <5>3
      <4> QED  BY <4>1, <4>2
    <3>4. Solves(f)
      BY <3>3
    <3> HIDE DEF Solves
    <3> QED  BY <3>4
  <2>3. Solves(flatten)
    <3> HIDE DEF Solves
    <3> QED  BY <2>2
  <2>4. ASSUME NEW d \in D PROVE flatten[d] \in R
    <3> HIDE DEF flatten
    <3>1. \A i \in D \ Goes : flatten[i] = stop[i]
      BY <2>3
    <3>2. \A i \in Goes : flatten[to[i]] \in R => flatten[i] = combine[i][flatten[to[i]]]
      BY <2>3
    <3> HIDE DEF D, R, Goes, to, stop, combine, rank, bound
    <3> QED  BY ONLY <2>1, <3>1, <3>2, <2>4, RecursiveTyped
  <2>5. FlattenSeq(seqs) = flatten[Len(seqs)]
    BY <1>2 DEF FlattenSeq
  <2>6. Len(seqs) \in D
    BY <1>2
  <2> HIDE DEF flatten
  <2> QED  BY <2>4, <2>5, <2>6
<1> QED  BY <1>1, <1>2

\* What a writer gives: the bytes it wrote, or a refusal.
Written == {Done(bytes) : bytes \in Seq(Nat)} \cup {Refused("SERIALIZE")}

LEMMA WrittenFields ==
  /\ \A bytes \in Seq(Nat) : Done(bytes) \in Written
  /\ Refused("SERIALIZE") \in Written
  /\ \A r \in Written : r.status \in {"OK", "SERIALIZE"}
                        /\ (r.status = "OK" => r.value \in Seq(Nat))
  BY DEF Written, Done, Refused

LEMMA WrittenByteTyped ==
  ASSUME NEW v \in Seq(Nat), NEW i \in 1 .. Len(v), ValidUtf8Sequence(v, i) # 0
  PROVE  WrittenByte(v, i) \in Seq(Nat)
<1>1. SubSeq(v, i, i + ValidUtf8Sequence(v, i) - 1) \in Seq(Nat)
  <2>1. PICK w \in 1..4 : w = ValidUtf8Sequence(v, i)
    <3>1. ValidUtf8Sequence(v, i) \in 0..4
      BY UnitWidths
    <3> QED  BY <3>1
  <2>2. i + w <= Len(v) + 1
    BY <2>1, SequenceInside
  <2>3. SubSeq(v, i, i + w - 1) \in Seq(Nat)
    BY <2>2
  <2> QED  BY <2>1, <2>3
<1>2. \A e \in DOMAIN Escape : e \in Nat
  BY DEF Escape, Quote, Backslash
<1>3. \A b \in Nat : HexDigit(b \div 16) \in Nat /\ HexDigit(b % 16) \in Nat
  <2>1. \A b \in Nat : b \div 16 \in Nat /\ b % 16 \in Nat
    OBVIOUS
  <2>2. \A d \in Nat : HexDigit(d) \in Nat
    BY DEF HexDigit
  <2> QED  BY <2>1, <2>2
<1>4. (\E e \in DOMAIN Escape : Escape[e] = v[i] /\ v[i] # 47) =>
        (CHOOSE e \in DOMAIN Escape : Escape[e] = v[i]) \in Nat
  BY <1>2
<1>5. v[i] \in Nat /\ Backslash \in Nat
  BY DEF Backslash
<1> DEFINE raw == SubSeq(v, i, i + ValidUtf8Sequence(v, i) - 1)
           short == \E e \in DOMAIN Escape : Escape[e] = v[i] /\ v[i] # 47
           letter == CHOOSE e \in DOMAIN Escape : Escape[e] = v[i]
           high == HexDigit(v[i] \div 16)
           low == HexDigit(v[i] % 16)
<1>6. WrittenByte(v, i) \in
        {<<47>>, <<Backslash, 117, 48, 48, high, low>>, raw}
          \cup (IF short THEN {<<Backslash, letter>>} ELSE {})
  BY DEF WrittenByte
<1>7. high \in Nat /\ low \in Nat
  BY <1>3, <1>5
<1>8. short => letter \in Nat
  BY <1>4
<1>9. raw \in Seq(Nat)
  BY <1>1
<1> HIDE DEF raw, short, letter, high, low
<1>10. <<47>> \in Seq(Nat)
  OBVIOUS
<1>11. <<Backslash, 117, 48, 48, high, low>> \in Seq(Nat)
  BY <1>5, <1>7
<1>12. short => <<Backslash, letter>> \in Seq(Nat)
  BY <1>5, <1>8
<1> QED  BY <1>6, <1>9, <1>10, <1>11, <1>12

LEMMA WrittenString ==
  ASSUME NEW v \in Seq(Nat)
  PROVE  WriteString(v) \in Written
<1> DEFINE D == 1 .. Len(v) + 4
           R == Written
           U == [i \in 1 .. Len(v) |-> ValidUtf8Sequence(v, i)]
           Goes == {i \in 1 .. Len(v) : ValidUtf8Sequence(v, i) # 0}
           to == [i \in Goes |-> i + ValidUtf8Sequence(v, i)]
           stop == [i \in D |-> IF i > Len(v) THEN Done(<<Quote>>) ELSE Refused("SERIALIZE")]
           combine == [i \in Goes |-> [r \in R |->
                         IF r.status # "OK" THEN r ELSE Done(WrittenByte(v, i) \o r.value)]]
           rank == [i \in D |-> Len(v) + 4 - i]
           bound == Len(v) + 4
           Body(f, i) ==
             IF i > Len(v) THEN Done(<<Quote>>)
             ELSE LET rest == f[i + ValidUtf8Sequence(v, i)]
                  IN  IF ValidUtf8Sequence(v, i) = 0 THEN Refused("SERIALIZE")
                      ELSE IF rest.status # "OK" THEN rest
                      ELSE Done(WrittenByte(v, i) \o rest.value)
           Solves(f) == f = [i \in D |-> Body(f, i)]
           write == CHOOSE f : Solves(f)
<1>1. ASSUME NEW i \in Goes
      PROVE  /\ to[i] = i + ValidUtf8Sequence(v, i)
             /\ to[i] \in D /\ to[i] > i /\ to[i] \in Int
  <2>1. PICK w \in 1..4 : w = ValidUtf8Sequence(v, i)
    <3>1. ValidUtf8Sequence(v, i) \in 0..4
      BY UnitWidths
    <3> QED  BY <3>1
  <2>2. i \in 1 .. Len(v) /\ to[i] = i + w
    BY <2>1
  <2>3. PICK n \in Nat : n = Len(v)
    OBVIOUS
  <2>4. i + w \in 1 .. n + 4 /\ i + w > i /\ i + w \in Int
    BY <2>1, <2>2, <2>3
  <2>5. i + w \in D
    BY <2>3, <2>4
  <2> HIDE DEF to, Goes, D
  <2> QED  BY <2>1, <2>2, <2>4, <2>5
<1>2. Recursive(D, R, Goes, to, stop, combine, rank, bound)
  <2>1. bound \in Nat /\ rank \in [D -> 0..bound] /\ Goes \subseteq D
    OBVIOUS
  <2>2. to \in [Goes -> D] /\ \A d \in Goes : rank[to[d]] < rank[d]
    <3>1. to = [i \in Goes |-> to[i]]
      OBVIOUS
    <3>2. \A i \in Goes : i \in 1 .. Len(v)
      OBVIOUS
    <3> HIDE DEF to, Goes
    <3> QED  BY <1>1, <3>1, <3>2
  <2>3. stop \in [D -> R]
    <3>1. <<Quote>> \in Seq(Nat)
      BY DEF Quote
    <3>2. Done(<<Quote>>) \in R /\ Refused("SERIALIZE") \in R
      <4> HIDE DEF Done, Refused
      <4> QED  BY <3>1, WrittenFields
    <3> QED  BY <3>2
  <2>4. combine \in [Goes -> [R -> R]]
    <3>1. ASSUME NEW i \in Goes, NEW r \in R
          PROVE  (IF r.status # "OK" THEN r ELSE Done(WrittenByte(v, i) \o r.value)) \in R
      <4>1. WrittenByte(v, i) \in Seq(Nat)
        BY WrittenByteTyped
      <4>2. r.status = "OK" => r.value \in Seq(Nat)
        BY WrittenFields
      <4>3. r.status = "OK" => WrittenByte(v, i) \o r.value \in Seq(Nat)
        BY <4>1, <4>2
      <4> QED  BY <4>3, WrittenFields
    <3> HIDE DEF R, Goes
    <3> QED  BY <3>1
  <2> HIDE DEF D, R, Goes, to, stop, combine, rank, bound
  <2> QED  BY <2>1, <2>2, <2>3, <2>4 DEF Recursive
<1>3. ASSUME NEW f, NEW i \in D
      PROVE  /\ i \notin Goes => Body(f, i) = stop[i]
             /\ i \in Goes /\ f[to[i]] \in R => Body(f, i) = combine[i][f[to[i]]]
  <2> HIDE DEF R
  <2> QED  OBVIOUS
<1>4. \E f : Solves(f)
  <2>1. \E f \in [D -> R] :
          \A d \in D : f[d] = IF d \in Goes THEN combine[d][f[to[d]]] ELSE stop[d]
    <3> HIDE DEF D, R, Goes, to, stop, combine, rank, bound
    <3> QED  BY ONLY <1>2, Recursion
  <2>2. PICK f \in [D -> R] :
          \A d \in D : f[d] = IF d \in Goes THEN combine[d][f[to[d]]] ELSE stop[d]
    BY <2>1
  <2>3. Solves(f)
    <3>1. f = [d \in D |-> f[d]]
      BY <2>2
    <3>2. \A d \in Goes : f[to[d]] \in R
      <4> HIDE DEF D, R, Goes, to
      <4> QED  BY <1>1, <2>2
    <3> HIDE DEF D, R, Goes, to, stop, combine, Body
    <3> QED  BY <1>3, <2>2, <3>1, <3>2, SMTT(20)
  <2> HIDE DEF Solves
  <2> QED  BY <2>3
<1>5. Solves(write)
  <2> HIDE DEF Solves
  <2> QED  BY <1>4
<1>6. ASSUME NEW d \in D PROVE write[d] \in R
  <2>1. \A i \in D \ Goes : write[i] = stop[i]
    <3> HIDE DEF write, D, R, Goes, to, stop, combine, Body
    <3> QED  BY <1>3, <1>5
  <2>2. \A i \in Goes : write[to[i]] \in R => write[i] = combine[i][write[to[i]]]
    <3>1. Goes \subseteq D
      OBVIOUS
    <3> HIDE DEF write, D, R, Goes, to, stop, combine, Body
    <3> QED  BY <1>3, <1>5, <3>1
  <2> HIDE DEF write, D, R, Goes, to, stop, combine, rank, bound
  <2> QED  BY ONLY <1>2, <2>1, <2>2, <1>6, RecursiveTyped
<1>7. write[1] \in Written
  <2>1. 1 \in D
    OBVIOUS
  <2> HIDE DEF write
  <2> QED  BY <1>6, <2>1
<1>8. WriteString(v) = IF write[1].status = "OK" THEN Done(<<Quote>> \o write[1].value)
                       ELSE write[1]
  BY DEF WriteString
<1> HIDE DEF write
<1>9. write[1].status = "OK" => <<Quote>> \o write[1].value \in Seq(Nat)
  BY <1>7, WrittenFields DEF Quote
<1> QED  BY <1>7, <1>8, <1>9, WrittenFields

LEMMA WrittenInteger ==
  ASSUME NEW v \in (-Int64Max - 1) .. Int64Max
  PROVE  WriteI64(v) \in Written
<1> USE JsonTextAssumption
<1> DEFINE D == 0 .. Int64Max + 1
           R == Seq(Nat)
           Goes == {n \in D : ~(n < 10)}
           to == [n \in Goes |-> n \div 10]
           stop == [n \in D |-> <<48 + n>>]
           combine == [n \in Goes |-> [r \in R |-> r \o <<48 + (n % 10)>>]]
           rank == [n \in D |-> n]
           bound == Int64Max + 1
           Body(f, n) == IF n < 10 THEN <<48 + n>> ELSE f[n \div 10] \o <<48 + (n % 10)>>
           Solves(f) == f = [n \in D |-> Body(f, n)]
           digits == CHOOSE f : Solves(f)
<1>1. ASSUME NEW n \in Goes
      PROVE  to[n] = n \div 10 /\ to[n] \in D /\ to[n] < n /\ <<48 + (n % 10)>> \in Seq(Nat)
  <2>1. n \in Nat /\ n >= 10 /\ n <= Int64Max + 1
    OBVIOUS
  <2>2. n \div 10 \in Nat /\ n \div 10 < n /\ n % 10 \in 0..9
    BY <2>1
  <2> QED  BY <2>1, <2>2
<1>2. Recursive(D, R, Goes, to, stop, combine, rank, bound)
  <2>1. bound \in Nat /\ rank \in [D -> 0..bound] /\ Goes \subseteq D
    OBVIOUS
  <2>2. to \in [Goes -> D] /\ \A d \in Goes : rank[to[d]] < rank[d]
    <3>1. to = [n \in Goes |-> to[n]]
      OBVIOUS
    <3>2. Goes \subseteq D
      OBVIOUS
    <3> HIDE DEF to, Goes, D
    <3> QED  BY <1>1, <3>1, <3>2
  <2>3. stop \in [D -> R]
    OBVIOUS
  <2>4. combine \in [Goes -> [R -> R]]
    <3>1. ASSUME NEW n \in Goes, NEW r \in R PROVE r \o <<48 + (n % 10)>> \in R
      <4> HIDE DEF Goes
      <4> QED  BY <1>1
    <3> HIDE DEF R, Goes
    <3> QED  BY <3>1
  <2> HIDE DEF D, R, Goes, to, stop, combine, rank, bound
  <2> QED  BY <2>1, <2>2, <2>3, <2>4 DEF Recursive
<1>3. ASSUME NEW f, NEW n \in D
      PROVE  /\ n \notin Goes => Body(f, n) = stop[n]
             /\ n \in Goes /\ f[to[n]] \in R => Body(f, n) = combine[n][f[to[n]]]
  <2> HIDE DEF R
  <2> QED  OBVIOUS
<1>4. \E f : Solves(f)
  <2>1. \E f \in [D -> R] :
          \A d \in D : f[d] = IF d \in Goes THEN combine[d][f[to[d]]] ELSE stop[d]
    <3> HIDE DEF D, R, Goes, to, stop, combine, rank, bound
    <3> QED  BY ONLY <1>2, Recursion
  <2>2. PICK f \in [D -> R] :
          \A d \in D : f[d] = IF d \in Goes THEN combine[d][f[to[d]]] ELSE stop[d]
    BY <2>1
  <2>3. Solves(f)
    <3>1. f = [d \in D |-> f[d]]
      BY <2>2
    <3>2. \A d \in Goes : f[to[d]] \in R
      <4> HIDE DEF D, R, Goes, to
      <4> QED  BY <1>1, <2>2
    <3> HIDE DEF D, R, Goes, to, stop, combine, Body
    <3> QED  BY <1>3, <2>2, <3>1, <3>2
  <2> HIDE DEF Solves
  <2> QED  BY <2>3
<1>5. Solves(digits)
  <2> HIDE DEF Solves
  <2> QED  BY <1>4
<1>6. ASSUME NEW d \in D PROVE digits[d] \in R
  <2>1. \A i \in D \ Goes : digits[i] = stop[i]
    <3> HIDE DEF digits, D, R, Goes, to, stop, combine, Body
    <3> QED  BY <1>3, <1>5
  <2>2. \A i \in Goes : digits[to[i]] \in R => digits[i] = combine[i][digits[to[i]]]
    <3>1. Goes \subseteq D
      OBVIOUS
    <3> HIDE DEF digits, D, R, Goes, to, stop, combine, Body
    <3> QED  BY <1>3, <1>5, <3>1
  <2> HIDE DEF digits, D, R, Goes, to, stop, combine, rank, bound
  <2> QED  BY ONLY <1>2, <2>1, <2>2, <1>6, RecursiveTyped
<1>7. WriteI64(v) = Done(IF v < 0 THEN <<Minus>> \o digits[-v] ELSE digits[v])
  BY DEF WriteI64
<1>8. IF v < 0 THEN -v \in D ELSE v \in D
  OBVIOUS
<1> HIDE DEF digits, D
<1>9. (IF v < 0 THEN <<Minus>> \o digits[-v] ELSE digits[v]) \in Seq(Nat)
  BY <1>6, <1>8 DEF Minus
<1> QED  BY <1>7, <1>9, WrittenFields

LEMMA WrittenBoolean ==
  ASSUME NEW v \in BOOLEAN
  PROVE  WriteBool(v) \in Written
<1>1. Literal.true \in Seq(Nat) /\ Literal.false \in Seq(Nat)
  BY DEF Literal
<1> QED  BY <1>1, WrittenFields DEF WriteBool

-----------------------------------------------------------------------------
\* An integer is refused or in the range of int64_t: no digit that is added takes
\* the magnitude over its limit, and so none wraps.
IntegerResult ==
  {Done(x) : x \in (-Int64Max - 1) .. Int64Max} \cup {Refused("SCHEMA"), Refused("OVERFLOW")}

Sign(raw) == IF At(raw, 1) = Minus THEN 1 ELSE 0

\* The number that the bytes behind the sign denote in base ten, position by
\* position; as many as there are, without a width.
Decimals(raw) ==
  LET value[i \in Sign(raw) .. Len(raw)] ==
        IF i = Sign(raw) THEN 0 ELSE 10 * value[i - 1] + (raw[i] - 48)
  IN  value

HasDigits(raw, i) == \A k \in Sign(raw) + 1 .. i : raw[k] \in Digit

IntegerValue(raw) ==
  IF Sign(raw) = 1 THEN -Decimals(raw)[Len(raw)] ELSE Decimals(raw)[Len(raw)]

LEMMA SignInside ==
  ASSUME NEW raw \in Seq(Int)
  PROVE  Sign(raw) \in {0, 1} /\ Sign(raw) <= Len(raw)
  BY DEF Sign, At, Minus

LEMMA DecimalSteps ==
  ASSUME NEW raw \in Seq(Int)
  PROVE  /\ Decimals(raw)[Sign(raw)] = 0
         /\ \A i \in Sign(raw) + 1 .. Len(raw) :
              Decimals(raw)[i] = 10 * Decimals(raw)[i - 1] + (raw[i] - 48)
<1> DEFINE D == Sign(raw) .. Len(raw)
           Goes == {i \in D : i # Sign(raw)}
           to == [i \in Goes |-> i - 1]
           stop == [i \in D |-> 0]
           combine == [i \in Goes |-> [r \in Int |-> 10 * r + (raw[i] - 48)]]
           rank == [i \in D |-> i]
           bound == Len(raw)
           Solves(f) == f = [i \in D |->
             IF i = Sign(raw) THEN 0 ELSE 10 * f[i - 1] + (raw[i] - 48)]
<1>1. Recursive(D, Int, Goes, to, stop, combine, rank, bound)
  <2>1. bound \in Nat /\ rank \in [D -> 0..bound] /\ Goes \subseteq D /\ to \in [Goes -> D]
    BY SignInside
  <2>2. \A d \in Goes : rank[to[d]] < rank[d]
    BY SignInside
  <2>3. stop \in [D -> Int] /\ combine \in [Goes -> [Int -> Int]]
    BY SignInside
  <2> HIDE DEF D, Goes, to, stop, combine, rank, bound
  <2> QED  BY <2>1, <2>2, <2>3 DEF Recursive
<1>2. \E f : Solves(f)
  <2>1. \E f \in [D -> Int] :
          \A d \in D : f[d] = IF d \in Goes THEN combine[d][f[to[d]]] ELSE stop[d]
    <3> HIDE DEF D, Goes, to, stop, combine, rank, bound
    <3> QED  BY ONLY <1>1, Recursion
  <2>2. PICK f \in [D -> Int] :
          \A d \in D : f[d] = IF d \in Goes THEN combine[d][f[to[d]]] ELSE stop[d]
    BY <2>1
  <2>3. ASSUME NEW i \in D
        PROVE  f[i] = IF i = Sign(raw) THEN 0 ELSE 10 * f[i - 1] + (raw[i] - 48)
    <3>1. CASE i = Sign(raw)
      BY <2>2, <3>1
    <3>2. CASE i # Sign(raw)
      <4>1. i \in Goes /\ to[i] = i - 1 /\ i - 1 \in D
        BY <3>2, SignInside
      <4>2. f[i - 1] \in Int
        BY <2>2, <4>1
      <4>3. combine[i][f[i - 1]] = 10 * f[i - 1] + (raw[i] - 48)
        BY <4>1, <4>2
      <4> HIDE DEF combine, to, Goes
      <4> QED  BY <2>2, <3>2, <4>1, <4>3
    <3> QED  BY <3>1, <3>2
  <2>4. Solves(f)
    BY <2>2, <2>3
  <2> HIDE DEF Solves
  <2> QED  BY <2>4
<1>3. Decimals(raw) = CHOOSE f : Solves(f)
  BY DEF Decimals
<1>4. Solves(Decimals(raw))
  <2> HIDE DEF Solves
  <2> QED  BY <1>2, <1>3
<1>5. ASSUME NEW i \in D
      PROVE  Decimals(raw)[i] = IF i = Sign(raw) THEN 0
                                ELSE 10 * Decimals(raw)[i - 1] + (raw[i] - 48)
  BY <1>4
<1>6. Sign(raw) \in D /\ \A i \in Sign(raw) + 1 .. Len(raw) : i \in D /\ i # Sign(raw)
  BY SignInside
<1> HIDE DEF D
<1> QED  BY <1>5, <1>6

LEMMA DigitAppended ==
  ASSUME NEW value \in Nat, NEW digit \in 0..9
  PROVE  10 * value + digit \in Nat
  OBVIOUS

\* The value of digits is a natural number.
LEMMA DecimalGrows ==
  ASSUME NEW raw \in Seq(Int), NEW i \in Sign(raw) .. Len(raw), HasDigits(raw, i)
  PROVE  Decimals(raw)[i] \in Nat
<1> DEFINE D == Sign(raw) .. Len(raw)
           rank == [j \in D |-> j]
           P == {j \in D : HasDigits(raw, j) => Decimals(raw)[j] \in Nat}
<1>1. ASSUME NEW j \in D, \A e \in D : rank[e] < rank[j] => e \in P PROVE j \in P
  <2>1. CASE j = Sign(raw)
    BY <2>1, DecimalSteps
  <2>2. CASE j # Sign(raw) /\ HasDigits(raw, j)
    <3>1. j - 1 \in P /\ j \in Sign(raw) + 1 .. Len(raw)
      BY <1>1, <2>2, SignInside
    <3>2. HasDigits(raw, j - 1) /\ raw[j] \in Digit
      BY <2>2, <3>1, SignInside DEF HasDigits
    <3>3. Decimals(raw)[j - 1] \in Nat
      BY <3>1, <3>2
    <3>4. Decimals(raw)[j] = 10 * Decimals(raw)[j - 1] + (raw[j] - 48)
      BY <3>1, DecimalSteps
    <3>5. PICK digit \in 0..9 : digit = raw[j] - 48
      BY <3>2 DEF Digit
    <3>6. PICK value \in Nat : value = Decimals(raw)[j - 1]
      BY <3>3
    <3>7. Decimals(raw)[j] = 10 * value + digit
      BY <3>4, <3>5, <3>6
    <3> QED  BY <3>7, DigitAppended
  <2>3. CASE ~HasDigits(raw, j)
    BY <2>3
  <2> QED  BY <2>1, <2>2, <2>3
<1>2. D \subseteq P
  <2>1. rank \in [D -> Nat]
    BY SignInside
  <2> HIDE DEF D, P, rank
  <2> QED  BY ONLY <1>1, <2>1, RankInduction
<1> QED  BY <1>2

\* What sdkcc_v1_json_value_to_i64 gives for the bytes of a number.
ExactInteger(raw, result) ==
  IF HasDigits(raw, Len(raw))
  THEN result = IF IntegerValue(raw) \in (-Int64Max - 1) .. Int64Max
                THEN Done(IntegerValue(raw)) ELSE Refused("OVERFLOW")
  ELSE result \in {Refused("SCHEMA"), Refused("OVERFLOW")}

LEMMA AddsDigit ==
  ASSUME NEW limit \in {Int64Max, Int64Max + 1}, NEW value \in Nat, NEW digit \in 0..9
  PROVE  /\ value > (limit - digit) \div 10 <=> value * 10 + digit > limit
         /\ ~(value > (limit - digit) \div 10) =>
              (value * 10 + digit) % (2 * (Int64Max + 1)) = value * 10 + digit
<1> USE JsonTextAssumption
<1>1. value > (limit - digit) \div 10 <=> value * 10 + digit > limit
  <2> DEFINE room == (limit - digit) \div 10
  <2>1. limit - digit \in Nat
    OBVIOUS
  <2>2. room \in Nat /\ room * 10 <= limit - digit /\ limit - digit < room * 10 + 10
    BY <2>1
  <2> HIDE DEF room
  <2>3. value > room <=> value * 10 + digit > limit
    BY <2>1, <2>2
  <2> QED  BY <2>3 DEF room
<1>2. \A x \in Nat, m \in Nat : x < m => x % m = x
  OBVIOUS
<1>3. ASSUME ~(value * 10 + digit > limit)
      PROVE  (value * 10 + digit) % (2 * (Int64Max + 1)) = value * 10 + digit
  <2>1. value * 10 + digit < 2 * (Int64Max + 1)
    BY <1>3
  <2> QED  BY <1>2, <2>1
<1> QED  BY <1>1, <1>3

LEMMA IntegerConverted ==
  ASSUME NEW kind, NEW raw \in Seq(Int)
  PROVE  /\ ToI64(kind, raw) \in IntegerResult
         /\ kind = "number" => ExactInteger(raw, ToI64(kind, raw))
<1> USE JsonTextAssumption
<1> DEFINE negative == At(raw, 1) = Minus
           sign == IF negative THEN 1 ELSE 0
           limit == IF negative THEN Int64Max + 1 ELSE Int64Max
           D == sign .. Len(raw)
           R == {Done(m) : m \in 0..limit} \cup {Refused("SCHEMA"), Refused("OVERFLOW")}
           Goes == {i \in D : i # sign}
           Added(before, i) ==
             LET digit == raw[i] - 48
             IN  IF before.status # "OK" THEN before
                 ELSE IF raw[i] \notin Digit THEN Refused("SCHEMA")
                 ELSE IF before.value > (limit - digit) \div 10 THEN Refused("OVERFLOW")
                 ELSE Done((before.value * 10 + digit) % (2 * (Int64Max + 1)))
           to == [i \in Goes |-> i - 1]
           stop == [i \in D |-> Done(0)]
           combine == [i \in Goes |-> [r \in R |-> Added(r, i)]]
           rank == [i \in D |-> i]
           bound == Len(raw)
           Body(f, i) == IF i = sign THEN Done(0) ELSE Added(f[i - 1], i)
           Solves(f) == f = [i \in D |-> Body(f, i)]
           add == CHOOSE f : Solves(f)
<1>1. sign \in {0, 1} /\ sign <= Len(raw) /\ limit \in {Int64Max, Int64Max + 1}
  BY DEF At, Minus
<1>2. \A r \in R : \/ r.status = "OK" /\ r.value \in 0..limit
                   \/ r \in {Refused("SCHEMA"), Refused("OVERFLOW")} /\ r.status # "OK"
  BY DEF Done, Refused
<1>3. /\ Refused("SCHEMA") \in R /\ Refused("OVERFLOW") \in R
      /\ \A m \in 0..limit : Done(m) \in R
  <2> HIDE DEF limit
  <2> QED  OBVIOUS
<1> HIDE DEF sign, limit, negative, R
<1>4. ASSUME NEW i \in Goes
      PROVE  to[i] = i - 1 /\ to[i] \in D /\ to[i] < i /\ to[i] \in Int /\ i \in 1 .. Len(raw)
  BY <1>1
<1>5. ASSUME NEW i \in 1 .. Len(raw), NEW r \in R
      PROVE  Added(r, i) \in R
  <2>1. CASE r.status # "OK" \/ raw[i] \notin Digit
    BY <1>3, <2>1
  <2>2. CASE r.status = "OK" /\ raw[i] \in Digit
    <3>1. PICK digit \in 0..9 : digit = raw[i] - 48
      BY <2>2 DEF Digit
    <3>2. r.value \in 0..limit
      BY <1>2, <2>2
    <3>3. CASE r.value > (limit - digit) \div 10
      BY <1>3, <2>2, <3>1, <3>3
    <3>4. CASE ~(r.value > (limit - digit) \div 10)
      <4>1. (r.value * 10 + digit) % (2 * (Int64Max + 1)) \in 0..limit
        <5>1. PICK value \in 0..limit : value = r.value
          BY <3>2
        <5>2. value \in Nat /\ limit \in Nat
          BY <1>1, JsonTextAssumption
        <5>3. /\ ~(value * 10 + digit > limit)
              /\ (value * 10 + digit) % (2 * (Int64Max + 1)) = value * 10 + digit
          BY <1>1, <3>4, <5>1, <5>2, AddsDigit
        <5>4. value * 10 + digit \in 0..limit
          BY <5>2, <5>3
        <5> QED  BY <5>1, <5>3, <5>4
      <4>2. Done((r.value * 10 + digit) % (2 * (Int64Max + 1))) \in R
        BY <1>3, <4>1
      <4> QED  BY <2>2, <3>1, <3>4, <4>2
    <3> QED  BY <3>3, <3>4
  <2> QED  BY <2>1, <2>2
<1>6. Recursive(D, R, Goes, to, stop, combine, rank, bound)
  <2>1. bound \in Nat /\ rank \in [D -> 0..bound] /\ Goes \subseteq D
    BY <1>1
  <2>2. to \in [Goes -> D] /\ \A d \in Goes : rank[to[d]] < rank[d]
    <3>1. to = [i \in Goes |-> to[i]]
      OBVIOUS
    <3>2. Goes \subseteq D
      OBVIOUS
    <3> HIDE DEF to, Goes, D
    <3> QED  BY <1>4, <3>1, <3>2
  <2>3. stop \in [D -> R]
    <3>1. Done(0) \in R
      BY <1>1, <1>3
    <3> QED  BY <3>1
  <2>4. combine \in [Goes -> [R -> R]]
    <3> HIDE DEF Goes, Added
    <3> QED  BY <1>4, <1>5
  <2> HIDE DEF D, R, Goes, to, stop, combine, rank, bound
  <2> QED  BY <2>1, <2>2, <2>3, <2>4 DEF Recursive
<1>7. ASSUME NEW f, NEW i \in D
      PROVE  /\ i \notin Goes => Body(f, i) = stop[i]
             /\ i \in Goes /\ f[to[i]] \in R => Body(f, i) = combine[i][f[to[i]]]
  <2> HIDE DEF Added
  <2> QED  OBVIOUS
<1> HIDE DEF Added, Body
<1>8. \E f : Solves(f)
  <2>1. \E f \in [D -> R] :
          \A d \in D : f[d] = IF d \in Goes THEN combine[d][f[to[d]]] ELSE stop[d]
    <3> HIDE DEF D, R, Goes, to, stop, combine, rank, bound
    <3> QED  BY ONLY <1>6, Recursion
  <2>2. PICK f \in [D -> R] :
          \A d \in D : f[d] = IF d \in Goes THEN combine[d][f[to[d]]] ELSE stop[d]
    BY <2>1
  <2>3. Solves(f)
    <3>1. f = [d \in D |-> f[d]]
      BY <2>2
    <3>2. \A d \in Goes : f[to[d]] \in R
      <4> HIDE DEF D, R, Goes, to
      <4> QED  BY <1>4, <2>2
    <3> HIDE DEF D, R, Goes, to, stop, combine
    <3> QED  BY <1>7, <2>2, <3>1, <3>2
  <2> HIDE DEF Solves
  <2> QED  BY <2>3
<1>9. Solves(add)
  <2> HIDE DEF Solves
  <2> QED  BY <1>8
<1>10. ASSUME NEW d \in D PROVE add[d] \in R
  <2>1. \A i \in D \ Goes : add[i] = stop[i]
    <3> HIDE DEF add, D, R, Goes, to, stop, combine
    <3> QED  BY <1>7, <1>9
  <2>2. \A i \in Goes : add[to[i]] \in R => add[i] = combine[i][add[to[i]]]
    <3>1. Goes \subseteq D
      OBVIOUS
    <3> HIDE DEF add, D, R, Goes, to, stop, combine
    <3> QED  BY <1>7, <1>9, <3>1
  <2> HIDE DEF add, D, R, Goes, to, stop, combine, rank, bound
  <2> QED  BY ONLY <1>6, <2>1, <2>2, <1>10, RecursiveTyped
<1>11. Len(raw) \in D
  BY <1>1
<1>12. ToI64(kind, raw) =
         IF kind # "number" THEN Refused("SCHEMA")
         ELSE IF add[Len(raw)].status = "OK" /\ negative THEN Done(-add[Len(raw)].value)
              ELSE add[Len(raw)]
  BY DEF ToI64, Added, Body, negative, sign, limit
<1> HIDE DEF add, D
<1>13. PICK result \in R : result = add[Len(raw)]
  BY <1>10, <1>11
<1>14. Refused("SCHEMA") \in IntegerResult /\ Refused("OVERFLOW") \in IntegerResult
       /\ \A x \in (-Int64Max - 1) .. Int64Max : Done(x) \in IntegerResult
  BY DEF IntegerResult
<1>15. ToI64(kind, raw) \in IntegerResult
  <2>1. CASE result.status = "OK" /\ negative
    <3>1. -result.value \in (-Int64Max - 1) .. Int64Max
      BY <1>2, <2>1 DEF limit
    <3> QED  BY <1>12, <1>13, <1>14, <2>1, <3>1
  <2>2. CASE result.status = "OK" /\ ~negative
    <3>1. PICK m \in 0..limit : result = Done(m)
      BY <2>2 DEF R, Refused
    <3>2. m \in (-Int64Max - 1) .. Int64Max
      BY <2>2 DEF limit
    <3> QED  BY <1>12, <1>13, <1>14, <2>2, <3>1, <3>2
  <2>3. CASE result.status # "OK"
    <3>1. result \in {Refused("SCHEMA"), Refused("OVERFLOW")}
      BY <1>2, <2>3
    <3> QED  BY <1>12, <1>13, <1>14, <2>3, <3>1
  <2> QED  BY <2>1, <2>2, <2>3
\* The magnitude is the value so far, or an overflow once that passes the limit, or
\* a refusal once a byte is no digit.
<1> DEFINE d == Decimals(raw)
           Right(i) == IF HasDigits(raw, i)
                       THEN add[i] = IF d[i] <= limit THEN Done(d[i]) ELSE Refused("OVERFLOW")
                       ELSE add[i] \in {Refused("SCHEMA"), Refused("OVERFLOW")}
           Q == {i \in sign .. Len(raw) : Right(i)}
<1>16. sign = Sign(raw)
  BY DEF sign, negative, Sign
<1>17. /\ add[sign] = Done(0)
       /\ \A i \in sign + 1 .. Len(raw) : add[i] = Added(add[i - 1], i)
  <2>1. \A i \in D : add[i] = Body(add, i)
    BY <1>9
  <2> QED  BY <1>1, <2>1 DEF D, Body
<1>18. ASSUME NEW i \in sign + 1 .. Len(raw), i - 1 \in Q PROVE Right(i)
  <2> HIDE DEF d
  <2>1. Right(i - 1) /\ i \in 1 .. Len(raw) /\ i - 1 \in Sign(raw) .. Len(raw)
    BY <1>1, <1>16, <1>18
  <2>2. d[i] = 10 * d[i - 1] + (raw[i] - 48)
    BY <1>16, DecimalSteps DEF d
  <2>3. HasDigits(raw, i) <=> HasDigits(raw, i - 1) /\ raw[i] \in Digit
    BY <1>1, <1>16 DEF HasDigits
  <2>4. HasDigits(raw, i - 1) => d[i - 1] \in Nat
    BY <2>1, DecimalGrows DEF d
  <2>5. Refused("SCHEMA").status # "OK" /\ Refused("OVERFLOW").status # "OK"
    BY DEF Refused
  <2>6. add[i] = Added(add[i - 1], i)
    BY <1>17
  <2>7. limit \in Nat
    BY <1>1, JsonTextAssumption
  <2>8. CASE ~HasDigits(raw, i - 1)
    <3>1. add[i] = add[i - 1]
      BY <2>1, <2>5, <2>6, <2>8 DEF Added
    <3> QED  BY <2>1, <2>3, <2>8, <3>1
  <2>9. CASE HasDigits(raw, i - 1) /\ d[i - 1] > limit
    <3>1. add[i - 1] = Refused("OVERFLOW")
      BY <2>1, <2>4, <2>7, <2>9
    <3>2. add[i] = Refused("OVERFLOW")
      BY <2>5, <2>6, <3>1 DEF Added
    <3>3. ASSUME raw[i] \in Digit PROVE d[i] > limit
      <4>1. PICK digit \in 0..9 : digit = raw[i] - 48
        BY <3>3 DEF Digit
      <4>2. PICK value \in Nat : value = d[i - 1]
        BY <2>4, <2>9
      <4>3. d[i] = 10 * value + digit /\ value > limit
        BY <2>2, <2>9, <4>1, <4>2
      <4> QED  BY <2>7, <4>3
    <3>4. ASSUME raw[i] \in Digit PROVE ~(d[i] <= limit)
      <4>1. d[i] \in Int
        <5>1. PICK digit \in 0..9 : digit = raw[i] - 48
          BY <3>4 DEF Digit
        <5>2. PICK value \in Nat : value = d[i - 1]
          BY <2>4, <2>9
        <5> QED  BY <2>2, <5>1, <5>2
      <4> QED  BY <2>7, <3>3, <3>4, <4>1
    <3> QED  BY <2>3, <2>9, <3>2, <3>4
  <2>10. CASE HasDigits(raw, i - 1) /\ ~(d[i - 1] > limit)
    <3>1. PICK value \in 0..limit : value = d[i - 1]
      BY <2>4, <2>7, <2>10
    <3>2. add[i - 1] = Done(value)
      BY <2>1, <2>7, <2>10, <3>1
    <3>3. add[i - 1].status = "OK" /\ add[i - 1].value = value
      BY <3>2 DEF Done
    <3>4. CASE raw[i] \notin Digit
      <4>1. add[i] = Refused("SCHEMA")
        BY <2>6, <3>3, <3>4 DEF Added
      <4> QED  BY <2>3, <3>4, <4>1
    <3>5. CASE raw[i] \in Digit
      <4>1. PICK digit \in 0..9 : digit = raw[i] - 48
        BY <3>5 DEF Digit
      <4>2. d[i] = value * 10 + digit /\ value \in Nat
        BY <2>2, <2>7, <3>1, <4>1
      <4>3. /\ value > (limit - digit) \div 10 <=> value * 10 + digit > limit
            /\ ~(value > (limit - digit) \div 10) =>
                 (value * 10 + digit) % (2 * (Int64Max + 1)) = value * 10 + digit
        BY <1>1, <4>2, AddsDigit
      <4>4. add[i] = IF value > (limit - digit) \div 10 THEN Refused("OVERFLOW")
                     ELSE Done((value * 10 + digit) % (2 * (Int64Max + 1)))
        BY <2>6, <3>3, <3>5, <4>1 DEF Added
      <4>5. d[i] <= limit <=> ~(value * 10 + digit > limit)
        BY <2>7, <4>2
      <4>6. add[i] = IF d[i] <= limit THEN Done(d[i]) ELSE Refused("OVERFLOW")
        BY <4>2, <4>3, <4>4, <4>5
      <4> QED  BY <2>3, <2>10, <3>5, <4>6
    <3> QED  BY <3>4, <3>5
  <2> QED  BY <2>4, <2>7, <2>8, <2>9, <2>10
<1>19. Right(Len(raw))
  <2> DEFINE place == [i \in sign .. Len(raw) |-> i]
  <2>1. Right(sign)
    <3>1. d[sign] = 0 /\ HasDigits(raw, sign)
      BY <1>1, <1>16, DecimalSteps DEF HasDigits
    <3>2. 0 <= limit
      BY <1>1, JsonTextAssumption
    <3> HIDE DEF d
    <3> QED  BY <1>17, <3>1, <3>2
  <2>2. ASSUME NEW i \in sign .. Len(raw), \A e \in sign .. Len(raw) : place[e] < place[i] => e \in Q
        PROVE  i \in Q
    <3>1. CASE i = sign
      BY <2>1, <3>1
    <3>2. CASE i # sign
      <4>1. i \in sign + 1 .. Len(raw) /\ i - 1 \in sign .. Len(raw) /\ place[i - 1] < place[i]
        BY <1>1, <3>2
      <4>2. i - 1 \in Q
        BY <2>2, <4>1
      <4> HIDE DEF d
      <4> QED  BY <1>18, <4>1, <4>2
    <3> QED  BY <3>1, <3>2
  <2>3. place \in [sign .. Len(raw) -> Nat]
    BY <1>1
  <2>4. sign .. Len(raw) \subseteq Q
    <3> DEFINE Places == sign .. Len(raw)
    <3>1. \A i \in Places : (\A e \in Places : place[e] < place[i] => e \in Q) => i \in Q
      BY <2>2
    <3>2. place \in [Places -> Nat]
      BY <2>3
    <3> HIDE DEF Places, Q, place
    <3>3. Places \subseteq Q
      BY ONLY <3>1, <3>2, RankInduction
    <3> QED  BY <3>3 DEF Places
  <2> QED  BY <1>1, <2>4
<1>20. ASSUME kind = "number" PROVE ExactInteger(raw, ToI64(kind, raw))
  <2>1. CASE ~HasDigits(raw, Len(raw))
    <3>1. add[Len(raw)] \in {Refused("SCHEMA"), Refused("OVERFLOW")}
      BY <1>19, <2>1
    <3>2. add[Len(raw)].status # "OK"
      BY <3>1 DEF Refused
    <3>3. ToI64(kind, raw) = add[Len(raw)]
      BY <1>12, <1>20, <3>2
    <3> QED  BY <2>1, <3>1, <3>3 DEF ExactInteger
  <2>2. CASE HasDigits(raw, Len(raw))
    <3> DEFINE value == d[Len(raw)]
    <3>1. value \in Nat
      BY <1>1, <1>16, <2>2, DecimalGrows
    <3>2. add[Len(raw)] = IF value <= limit THEN Done(value) ELSE Refused("OVERFLOW")
      BY <1>19, <2>2
    <3>3. IntegerValue(raw) = IF negative THEN -value ELSE value
      BY DEF IntegerValue, Sign, negative
    <3> HIDE DEF value
    <3>4. IntegerValue(raw) \in (-Int64Max - 1) .. Int64Max <=> value <= limit
      BY <3>1, <3>3, JsonTextAssumption DEF limit
    <3>5. CASE value <= limit
      <4>1. add[Len(raw)].status = "OK" /\ add[Len(raw)].value = value
            /\ add[Len(raw)] = Done(value)
        BY <3>2, <3>5 DEF Done
      <4>2. ToI64(kind, raw) = Done(IntegerValue(raw))
        BY <1>12, <1>20, <3>3, <4>1
      <4> QED  BY <2>2, <3>4, <3>5, <4>2 DEF ExactInteger
    <3>6. CASE ~(value <= limit)
      <4>1. add[Len(raw)] = Refused("OVERFLOW")
        BY <3>2, <3>6
      <4>2. add[Len(raw)].status # "OK"
        BY <4>1 DEF Refused
      <4>3. ToI64(kind, raw) = Refused("OVERFLOW")
        BY <1>12, <1>20, <4>1, <4>2
      <4> QED  BY <2>2, <3>4, <3>6, <4>3 DEF ExactInteger
    <3> QED  BY <3>5, <3>6
  <2> QED  BY <2>1, <2>2
<1> QED  BY <1>15, <1>20

-----------------------------------------------------------------------------
\* UTF-8: what each number of bytes can encode.

Two(a, b)         == (a - 192) * 64 + (b - 128)
Three(a, b, c)    == ((a - 224) * 64 + (b - 128)) * 64 + (c - 128)
Four(a, b, c, d)  == (((a - 240) * 64 + (b - 128)) * 64 + (c - 128)) * 64 + (d - 128)
Following(b) == 128 <= b /\ b <= 191

LEMMA FirstByte ==
  ASSUME NEW b \in Nat
  PROVE  /\ Grammar!Announced(b) \in 0..4
         /\ Grammar!Announced(b) = 1 <=> b <= 127
         /\ Grammar!Announced(b) = 2 <=> 192 <= b /\ b <= 223
         /\ Grammar!Announced(b) = 3 <=> 224 <= b /\ b <= 239
         /\ Grammar!Announced(b) = 4 <=> 240 <= b /\ b <= 247
         /\ b <= 127 => b % 128 = b
         /\ 192 <= b /\ b <= 223 => b % 32 = b - 192
         /\ 224 <= b /\ b <= 239 => b % 16 = b - 224
         /\ 240 <= b /\ b <= 247 => b % 8 = b - 240
         /\ b \div 64 = 2 <=> Following(b)
         /\ Following(b) => b % 64 = b - 128
<1>1. /\ b \div 32 = 6 <=> 192 <= b /\ b <= 223
      /\ b \div 16 = 14 <=> 224 <= b /\ b <= 239
      /\ b \div 8 = 30 <=> 240 <= b /\ b <= 247
      /\ b \div 64 = 2 <=> 128 <= b /\ b <= 191
  OBVIOUS
<1>2. /\ b <= 127 => b % 128 = b
      /\ 192 <= b /\ b <= 223 => b % 32 = b - 192
      /\ 224 <= b /\ b <= 239 => b % 16 = b - 224
      /\ 240 <= b /\ b <= 247 => b % 8 = b - 240
      /\ 128 <= b /\ b <= 191 => b % 64 = b - 128
  OBVIOUS
<1>3. /\ Grammar!Announced(b) \in 0..4
      /\ Grammar!Announced(b) = 1 <=> b <= 127
      /\ Grammar!Announced(b) = 2 <=> 192 <= b /\ b <= 223
      /\ Grammar!Announced(b) = 3 <=> 224 <= b /\ b <= 239
      /\ Grammar!Announced(b) = 4 <=> 240 <= b /\ b <= 247
  BY <1>1 DEF Grammar!Announced
<1> QED  BY <1>1, <1>2, <1>3 DEF Following

LEMMA Payload ==
  ASSUME NEW u \in Seq(Nat), NEW n \in 1..4, Len(u) = n
  PROVE  \E p \in [1..n -> Int] :
           /\ p[1] = u[1] % Grammar!Mark[n]
           /\ \A k \in 2..n : p[k] = p[k - 1] * 64 + (u[k] % 64)
           /\ Grammar!CodePoint(u) =
                IF /\ n = Grammar!Announced(u[1])
                   /\ \A k \in 2 .. n : u[k] \div 64 = 2
                   /\ p[n] \in Grammar!Least[n] .. Grammar!Greatest
                   /\ p[n] \notin Grammar!High \cup Grammar!Low
                THEN p[n] ELSE -1
<1> DEFINE D == 1..n
           R == Int
           Goes == {k \in D : k # 1}
           to == [k \in Goes |-> k - 1]
           stop == [k \in D |-> u[1] % Grammar!Mark[n]]
           combine == [k \in Goes |-> [r \in R |-> r * 64 + (u[k] % 64)]]
           rank == [k \in D |-> k]
           bound == n
           Solves(f) == f = [k \in D |-> IF k = 1 THEN u[1] % Grammar!Mark[n]
                                        ELSE f[k - 1] * 64 + (u[k] % 64)]
           payload == CHOOSE f : Solves(f)
<1>1. Recursive(D, R, Goes, to, stop, combine, rank, bound)
  <2>1. bound \in Nat /\ rank \in [D -> 0..bound] /\ Goes \subseteq D
    OBVIOUS
  <2>2. to \in [Goes -> D] /\ \A d \in Goes : rank[to[d]] < rank[d]
    OBVIOUS
  <2>3. stop \in [D -> R]
    <3>1. Grammar!Mark[n] \in {128, 32, 16, 8}
      BY DEF Grammar!Mark
    <3>2. u[1] \in Nat
      OBVIOUS
    <3>3. u[1] % Grammar!Mark[n] \in Int
      BY <3>1, <3>2
    <3> QED  BY <3>3
  <2>4. combine \in [Goes -> [R -> R]]
    <3>1. ASSUME NEW k \in Goes PROVE u[k] % 64 \in Int
      <4>1. u[k] \in Nat
        OBVIOUS
      <4> QED  BY <4>1
    <3> QED  BY <3>1
  <2> HIDE DEF D, R, Goes, to, stop, combine, rank, bound
  <2> QED  BY <2>1, <2>2, <2>3, <2>4 DEF Recursive
<1>2. PICK f \in [D -> R] :
        \A d \in D : f[d] = IF d \in Goes THEN combine[d][f[to[d]]] ELSE stop[d]
  <2> HIDE DEF D, R, Goes, to, stop, combine, rank, bound
  <2> QED  BY ONLY <1>1, Recursion
<1>3. ASSUME NEW k \in D
      PROVE  f[k] = IF k = 1 THEN u[1] % Grammar!Mark[n] ELSE f[k - 1] * 64 + (u[k] % 64)
  <2>1. CASE k = 1
    BY <1>2, <2>1
  <2>2. CASE k # 1
    <3>1. k \in Goes /\ to[k] = k - 1 /\ k - 1 \in D /\ f[k - 1] \in R
      BY <1>2, <2>2
    <3>2. combine[k][f[k - 1]] = f[k - 1] * 64 + (u[k] % 64)
      BY <3>1
    <3> HIDE DEF combine, to, Goes
    <3> QED  BY <1>2, <2>2, <3>1, <3>2
  <2> QED  BY <2>1, <2>2
<1>4. Solves(f)
  BY <1>2, <1>3
<1>5. Solves(payload)
  <2> HIDE DEF Solves
  <2> QED  BY <1>4
<1>6. /\ \A k \in D : payload[k] = IF k = 1 THEN u[1] % Grammar!Mark[n]
                                 ELSE payload[k - 1] * 64 + (u[k] % 64)
      /\ payload = [k \in D |-> payload[k]]
  BY <1>5
<1>7. Grammar!CodePoint(u) =
        IF /\ n = Grammar!Announced(u[1])
           /\ \A k \in 2 .. n : u[k] \div 64 = 2
           /\ payload[n] \in Grammar!Least[n] .. Grammar!Greatest
           /\ payload[n] \notin Grammar!High \cup Grammar!Low
        THEN payload[n] ELSE -1
  BY DEF Grammar!CodePoint
<1> HIDE DEF payload
<1>8. payload \in [1..n -> Int]
  <2>1. ASSUME NEW d \in D \ Goes PROVE payload[d] = stop[d]
    BY <1>6
  <2>2. ASSUME NEW d \in Goes, payload[to[d]] \in R
        PROVE  payload[d] = combine[d][payload[to[d]]]
    <3>1. to[d] = d - 1 /\ d \in D /\ d # 1
      OBVIOUS
    <3>2. combine[d][payload[d - 1]] = payload[d - 1] * 64 + (u[d] % 64)
      BY <2>2, <3>1
    <3> HIDE DEF combine, Goes, to
    <3> QED  BY <1>6, <3>1, <3>2
  <2>3. \A d \in D : payload[d] \in R
    <3> HIDE DEF D, R, Goes, to, stop, combine, rank, bound
    <3> QED  BY ONLY <1>1, <2>1, <2>2, RecursiveTyped
  <2> QED  BY <1>6, <2>3
<1>9. payload[1] = u[1] % Grammar!Mark[n]
  <2>1. 1 \in D
    OBVIOUS
  <2> HIDE DEF D
  <2> QED  BY <1>6, <2>1
<1>10. ASSUME NEW k \in 2..n PROVE payload[k] = payload[k - 1] * 64 + (u[k] % 64)
  <2>1. k \in D /\ k # 1
    OBVIOUS
  <2> HIDE DEF D
  <2> QED  BY <1>6, <2>1
<1> QED  BY <1>7, <1>8, <1>9, <1>10

\* The bytes that are one character, by their number.
OneByte(a)           == a <= 127
TwoBytes(a, b)       == 194 <= a /\ a <= 223 /\ Following(b)
ThreeBytes(a, b, c)  == /\ 224 <= a /\ a <= 239 /\ Following(b) /\ Following(c)
                        /\ (a = 224 => b >= 160) /\ (a = 237 => b < 160)
FourBytes(a, b, c, d) == /\ 240 <= a /\ a <= 244
                         /\ Following(b) /\ Following(c) /\ Following(d)
                         /\ (a = 240 => b >= 144) /\ (a = 244 => b < 144)

\* Where the code points end, and those that no character has.
LEMMA Limits ==
  ASSUME NEW v \in Nat
  PROVE  /\ v \in Grammar!High \cup Grammar!Low <=> 55296 <= v /\ v <= 57343
         /\ v <= Grammar!Greatest <=> v <= 1114111
         /\ Grammar!Greatest \in Nat
  BY SMT DEF Grammar!High, Grammar!Low, Grammar!Greatest

LEMMA TwoValue ==
  ASSUME NEW a \in Nat, 192 <= a, a <= 223, NEW b \in Nat, Following(b)
  PROVE  /\ Two(a, b) \in Nat
         /\ Two(a, b) >= 128 <=> a >= 194
         /\ Two(a, b) <= Grammar!Greatest /\ Two(a, b) \notin Grammar!High \cup Grammar!Low
<1>1. /\ Two(a, b) \in Nat /\ Two(a, b) <= 2047
      /\ Two(a, b) >= 128 <=> a >= 194
  BY DEF Two, Following
<1> QED  BY <1>1, Limits

LEMMA ThreeValue ==
  ASSUME NEW a \in Nat, 224 <= a, a <= 239, NEW b \in Nat, Following(b),
         NEW c \in Nat, Following(c)
  PROVE  /\ Three(a, b, c) \in Nat
         /\ Three(a, b, c) >= 2048 <=> (a = 224 => b >= 160)
         /\ Three(a, b, c) \in Grammar!High \cup Grammar!Low <=> (a = 237 /\ b >= 160)
         /\ Three(a, b, c) <= Grammar!Greatest
<1>1. /\ Three(a, b, c) \in Nat /\ Three(a, b, c) <= 65535
      /\ Three(a, b, c) >= 2048 <=> (a = 224 => b >= 160)
      /\ 55296 <= Three(a, b, c) /\ Three(a, b, c) <= 57343 <=> (a = 237 /\ b >= 160)
  BY DEF Three, Following
<1> QED  BY <1>1, Limits

LEMMA FourValue ==
  ASSUME NEW a \in Nat, 240 <= a, a <= 247, NEW b \in Nat, Following(b),
         NEW c \in Nat, Following(c), NEW d \in Nat, Following(d)
  PROVE  /\ Four(a, b, c, d) \in Nat
         /\ Four(a, b, c, d) >= 65536 <=> (a = 240 => b >= 144)
         /\ Four(a, b, c, d) <= Grammar!Greatest <=> (a <= 244 /\ (a = 244 => b < 144))
         /\ Four(a, b, c, d) >= 65536 => Four(a, b, c, d) \notin Grammar!High \cup Grammar!Low
<1>1. /\ Four(a, b, c, d) \in Nat
      /\ Four(a, b, c, d) >= 65536 <=> (a = 240 => b >= 144)
      /\ Four(a, b, c, d) <= 1114111 <=> (a <= 244 /\ (a = 244 => b < 144))
  BY SMT DEF Four, Following
<1> QED  BY <1>1, Limits

\* The conditions of CodePoint on a payload.
Allowed(value, least) ==
  least <= value /\ value <= Grammar!Greatest /\ value \notin Grammar!High \cup Grammar!Low

LEMMA InRange ==
  ASSUME NEW lo \in Int, NEW hi \in Int, NEW v \in Int
  PROVE  v \in lo..hi <=> lo <= v /\ v <= hi
  OBVIOUS

\* What CodePoint computes for a, b, c, d, of which the first n are there.
Decodes(n, a, b, c, d, p, q, r, s, code) ==
  /\ p = a % Grammar!Mark[n]
  /\ n >= 2 => q = p * 64 + (b % 64)
  /\ n >= 3 => r = q * 64 + (c % 64)
  /\ n >= 4 => s = r * 64 + (d % 64)
  /\ LET value == IF n = 1 THEN p ELSE IF n = 2 THEN q ELSE IF n = 3 THEN r ELSE s
     IN  code = IF /\ n = Grammar!Announced(a)
                   /\ n >= 2 => b \div 64 = 2
                   /\ n >= 3 => c \div 64 = 2
                   /\ n >= 4 => d \div 64 = 2
                   /\ Allowed(value, Grammar!Least[n])
                THEN value ELSE -1

LEMMA Scalars ==
  ASSUME NEW n \in 1..4, NEW u \in Seq(Nat), Len(u) = n
  PROVE  /\ u[1] \in Nat /\ (n >= 2 => u[2] \in Nat) /\ (n >= 3 => u[3] \in Nat)
         /\ (n >= 4 => u[4] \in Nat)
         /\ \E p \in Int, q \in Int, r \in Int, s \in Int :
              Decodes(n, u[1], u[2], u[3], u[4], p, q, r, s, Grammar!CodePoint(u))
<1>1. \A k \in 1..n : u[k] \in Nat
  OBVIOUS
<1>2. PICK p \in [1..n -> Int] :
        /\ p[1] = u[1] % Grammar!Mark[n]
        /\ \A k \in 2..n : p[k] = p[k - 1] * 64 + (u[k] % 64)
        /\ Grammar!CodePoint(u) =
             IF /\ n = Grammar!Announced(u[1])
                /\ \A k \in 2 .. n : u[k] \div 64 = 2
                /\ p[n] \in Grammar!Least[n] .. Grammar!Greatest
                /\ p[n] \notin Grammar!High \cup Grammar!Low
             THEN p[n] ELSE -1
  BY ZenonT(30), Payload
<1>3. /\ 1 \in 1..n /\ (n >= 2 => 2 \in 2..n) /\ (n >= 3 => 3 \in 2..n) /\ (n >= 4 => 4 \in 2..n)
      /\ 2 - 1 = 1 /\ 3 - 1 = 2 /\ 4 - 1 = 3
      /\ \A k \in 2..n : (k = 2 /\ n >= 2) \/ (k = 3 /\ n >= 3) \/ (k = 4 /\ n >= 4)
      /\ \A k \in 2..n : k \in 1..n
  OBVIOUS
<1>4. /\ u[1] \in Nat /\ (n >= 2 => u[2] \in Nat) /\ (n >= 3 => u[3] \in Nat)
      /\ (n >= 4 => u[4] \in Nat)
  BY <1>1, <1>3
<1>5. (\A k \in 2 .. n : u[k] \div 64 = 2) <=>
         /\ n >= 2 => u[2] \div 64 = 2
         /\ n >= 3 => u[3] \div 64 = 2
         /\ n >= 4 => u[4] \div 64 = 2
  BY <1>3
<1>6. p[n] \in Int
  BY <1>2
<1>7. Grammar!Least[n] \in Int /\ Grammar!Greatest \in Int
  BY SMT DEF Grammar!Least, Grammar!Greatest
<1>8. (/\ p[n] \in Grammar!Least[n] .. Grammar!Greatest
       /\ p[n] \notin Grammar!High \cup Grammar!Low) <=> Allowed(p[n], Grammar!Least[n])
  BY <1>6, <1>7, InRange DEF Allowed
<1> DEFINE q == IF n >= 2 THEN p[2] ELSE 0
           r == IF n >= 3 THEN p[3] ELSE 0
           s == IF n >= 4 THEN p[4] ELSE 0
           value == IF n = 1 THEN p[1] ELSE IF n = 2 THEN q ELSE IF n = 3 THEN r ELSE s
<1>9. /\ p[1] \in Int /\ q \in Int /\ r \in Int /\ s \in Int
  <2>1. \A k \in 1..n : p[k] \in Int
    BY <1>2
  <2>2. p[1] \in Int
    BY <1>3, <2>1
  <2>3. n >= 2 => p[2] \in Int
    BY <1>3, <2>1
  <2>4. n >= 3 => p[3] \in Int
    BY <1>3, <2>1
  <2>5. n >= 4 => p[4] \in Int
    BY <1>3, <2>1
  <2> QED  BY <2>2, <2>3, <2>4, <2>5
<1>10. value = p[n]
  <2>1. n = 1 \/ n = 2 \/ n = 3 \/ n = 4
    OBVIOUS
  <2> QED  BY <2>1
<1>11. /\ n >= 2 => q = p[1] * 64 + (u[2] % 64)
       /\ n >= 3 => r = q * 64 + (u[3] % 64)
       /\ n >= 4 => s = r * 64 + (u[4] % 64)
  <2>1. n >= 2 => p[2] = p[1] * 64 + (u[2] % 64)
    BY <1>2, <1>3
  <2>2. n >= 3 => p[3] = p[2] * 64 + (u[3] % 64)
    BY <1>2, <1>3
  <2>3. n >= 4 => p[4] = p[3] * 64 + (u[4] % 64)
    BY <1>2, <1>3
  <2>4. (n >= 3 => n >= 2) /\ (n >= 4 => n >= 3)
    OBVIOUS
  <2> QED  BY <2>1, <2>2, <2>3, <2>4
<1>12. Grammar!CodePoint(u) =
         IF /\ n = Grammar!Announced(u[1])
            /\ n >= 2 => u[2] \div 64 = 2
            /\ n >= 3 => u[3] \div 64 = 2
            /\ n >= 4 => u[4] \div 64 = 2
            /\ Allowed(value, Grammar!Least[n])
         THEN value ELSE -1
  <2> HIDE DEF value
  <2> QED  BY <1>2, <1>5, <1>8, <1>10
<1>13. p[1] = u[1] % Grammar!Mark[n]
  BY <1>2
<1> HIDE DEF q, r, s
<1>14. Decodes(n, u[1], u[2], u[3], u[4], p[1], q, r, s, Grammar!CodePoint(u))
  BY <1>11, <1>12, <1>13 DEF Decodes
<1> QED  BY <1>4, <1>9, <1>14

LEMMA CodePoints ==
  ASSUME NEW n \in Nat \ {0}, NEW u \in Seq(Nat), Len(u) = n
  PROVE  Grammar!CodePoint(u) =
           IF n = 1 /\ OneByte(u[1]) THEN u[1]
           ELSE IF n = 2 /\ TwoBytes(u[1], u[2]) THEN Two(u[1], u[2])
           ELSE IF n = 3 /\ ThreeBytes(u[1], u[2], u[3]) THEN Three(u[1], u[2], u[3])
           ELSE IF n = 4 /\ FourBytes(u[1], u[2], u[3], u[4]) THEN Four(u[1], u[2], u[3], u[4])
           ELSE -1
<1> DEFINE a == u[1]
           b == u[2]
           c == u[3]
           d == u[4]
<1>1. a \in Nat
  OBVIOUS
<1>2. CASE n > 4
  <2>1. n # Grammar!Announced(a)
    <3>1. Grammar!Announced(a) \in 0..4
      BY <1>1, FirstByte
    <3> HIDE DEF a
    <3> QED  BY <1>2, <3>1
  <2>2. Grammar!CodePoint(u) = -1
    BY <2>1 DEF Grammar!CodePoint
  <2> QED  BY <1>2, <2>2
<1>3. ASSUME n \in 1..4
      PROVE  /\ (n >= 2 => b \in Nat) /\ (n >= 3 => c \in Nat) /\ (n >= 4 => d \in Nat)
             /\ \E p \in Int, q \in Int, r \in Int, s \in Int :
                  Decodes(n, a, b, c, d, p, q, r, s, Grammar!CodePoint(u))
  BY <1>3, Scalars
<1> DEFINE code == Grammar!CodePoint(u)
<1> HIDE DEF a, b, c, d, code
<1>4. CASE n = 1
  <2>1. Grammar!Mark[1] = 128 /\ Grammar!Least[1] = 0
    BY DEF Grammar!Mark, Grammar!Least
  <2>5. PICK p \in Int, q \in Int, r \in Int, s \in Int : Decodes(1, a, b, c, d, p, q, r, s, code)
    BY <1>3, <1>4 DEF code
  <2>2. code = IF 1 = Grammar!Announced(a) /\ Allowed(a % 128, 0) THEN a % 128 ELSE -1
    BY <2>1, <2>5 DEF Decodes
  <2>3. CASE a <= 127
    <3>1. Allowed(a, 0)
      <4>1. a <= Grammar!Greatest /\ a \notin Grammar!High \cup Grammar!Low
        BY <1>1, <2>3, Limits
      <4> QED  BY <1>1, <4>1 DEF Allowed
    <3>2. code = a
      BY <1>1, <2>2, <2>3, <3>1, FirstByte
    <3> QED  BY <1>4, <2>3, <3>2 DEF code, OneByte, a
  <2>4. CASE ~(a <= 127)
    <3>1. code = -1
      BY <1>1, <2>2, <2>4, FirstByte
    <3> QED  BY <1>4, <2>4, <3>1 DEF code, OneByte, a
  <2> QED  BY <2>3, <2>4
<1>5. CASE n = 2
  <2>1. Grammar!Mark[2] = 32 /\ Grammar!Least[2] = 128
    BY DEF Grammar!Mark, Grammar!Least
  <2>5. PICK p \in Int, q \in Int, r \in Int, s \in Int : Decodes(2, a, b, c, d, p, q, r, s, code)
    BY <1>3, <1>5 DEF code
  <2>6. /\ b \in Nat
    BY <1>3, <1>5
  <2>2. /\ b \in Nat
        /\ code = LET value == (a % 32) * 64 + (b % 64)
                  IN  IF 2 = Grammar!Announced(a) /\ b \div 64 = 2 /\ Allowed(value, 128)
                      THEN value ELSE -1
    BY <2>1, <2>5, <2>6 DEF Decodes
  <2>3. CASE 192 <= a /\ a <= 223 /\ Following(b)
    <3>1. (a % 32) * 64 + (b % 64) = Two(a, b)
      BY <1>1, <2>2, <2>3, FirstByte DEF Two
    <3>2. Allowed(Two(a, b), 128) <=> 194 <= a
      BY <1>1, <2>2, <2>3, TwoValue DEF Allowed
    <3>3. code = IF 194 <= a THEN Two(a, b) ELSE -1
      BY <1>1, <2>2, <2>3, <3>1, <3>2, FirstByte
    <3> QED  BY <1>5, <2>3, <3>3 DEF code, TwoBytes, a, b
  <2>4. CASE ~(192 <= a /\ a <= 223 /\ Following(b))
    <3>1. code = -1
      BY <1>1, <2>2, <2>4, FirstByte
    <3>2. ~TwoBytes(a, b)
      BY <1>1, <2>4 DEF TwoBytes
    <3> QED  BY <1>5, <3>1, <3>2 DEF code, a, b
  <2> QED  BY <2>3, <2>4
<1>6. CASE n = 3
  <2>1. Grammar!Mark[3] = 16 /\ Grammar!Least[3] = 2048
    BY DEF Grammar!Mark, Grammar!Least
  <2>5. PICK p \in Int, q \in Int, r \in Int, s \in Int : Decodes(3, a, b, c, d, p, q, r, s, code)
    BY <1>3, <1>6 DEF code
  <2>6. /\ b \in Nat /\ c \in Nat
    BY <1>3, <1>6
  <2>2. /\ b \in Nat /\ c \in Nat
        /\ code = LET value == ((a % 16) * 64 + (b % 64)) * 64 + (c % 64)
                  IN  IF /\ 3 = Grammar!Announced(a) /\ b \div 64 = 2 /\ c \div 64 = 2
                         /\ Allowed(value, 2048)
                      THEN value ELSE -1
    BY <2>1, <2>5, <2>6 DEF Decodes
  <2>3. CASE 224 <= a /\ a <= 239 /\ Following(b) /\ Following(c)
    <3>1. ((a % 16) * 64 + (b % 64)) * 64 + (c % 64) = Three(a, b, c)
      BY <1>1, <2>2, <2>3, FirstByte DEF Three
    <3>2. Allowed(Three(a, b, c), 2048) <=> (a = 224 => b >= 160) /\ (a = 237 => b < 160)
      BY <1>1, <2>2, <2>3, ThreeValue DEF Allowed
    <3>3. code = IF (a = 224 => b >= 160) /\ (a = 237 => b < 160) THEN Three(a, b, c) ELSE -1
      BY <1>1, <2>2, <2>3, <3>1, <3>2, FirstByte
    <3> QED  BY <1>6, <2>3, <3>3 DEF code, ThreeBytes, a, b, c
  <2>4. CASE ~(224 <= a /\ a <= 239 /\ Following(b) /\ Following(c))
    <3>1. code = -1
      BY <1>1, <2>2, <2>4, FirstByte
    <3>2. ~ThreeBytes(a, b, c)
      BY <2>4 DEF ThreeBytes
    <3> QED  BY <1>6, <3>1, <3>2 DEF code, a, b, c
  <2> QED  BY <2>3, <2>4
<1>7. CASE n = 4
  <2>1. Grammar!Mark[4] = 8 /\ Grammar!Least[4] = 65536
    BY DEF Grammar!Mark, Grammar!Least
  <2>5. PICK p \in Int, q \in Int, r \in Int, s \in Int : Decodes(4, a, b, c, d, p, q, r, s, code)
    BY <1>3, <1>7 DEF code
  <2>6. /\ b \in Nat /\ c \in Nat /\ d \in Nat
    BY <1>3, <1>7
  <2>2. /\ b \in Nat /\ c \in Nat /\ d \in Nat
        /\ code = LET value == (((a % 8) * 64 + (b % 64)) * 64 + (c % 64)) * 64 + (d % 64)
                  IN  IF /\ 4 = Grammar!Announced(a)
                         /\ b \div 64 = 2 /\ c \div 64 = 2 /\ d \div 64 = 2
                         /\ Allowed(value, 65536)
                      THEN value ELSE -1
    BY <2>1, <2>5, <2>6 DEF Decodes
  <2>3. CASE 240 <= a /\ a <= 247 /\ Following(b) /\ Following(c) /\ Following(d)
    <3>1. (((a % 8) * 64 + (b % 64)) * 64 + (c % 64)) * 64 + (d % 64) = Four(a, b, c, d)
      <4>1. /\ a % 8 = a - 240 /\ b % 64 = b - 128 /\ c % 64 = c - 128 /\ d % 64 = d - 128
        BY <1>1, <2>2, <2>3, FirstByte
      <4> QED  BY ONLY <4>1 DEF Four
    <3>2. Allowed(Four(a, b, c, d), 65536) <=>
            a <= 244 /\ (a = 240 => b >= 144) /\ (a = 244 => b < 144)
      BY <1>1, <2>2, <2>3, FourValue DEF Allowed
    <3>3. code = IF a <= 244 /\ (a = 240 => b >= 144) /\ (a = 244 => b < 144)
                 THEN Four(a, b, c, d) ELSE -1
      BY <1>1, <2>2, <2>3, <3>1, <3>2, FirstByte
    <3> QED  BY <1>7, <2>3, <3>3 DEF code, FourBytes, a, b, c, d
  <2>4. CASE ~(240 <= a /\ a <= 247 /\ Following(b) /\ Following(c) /\ Following(d))
    <3>1. code = -1
      BY <1>1, <2>2, <2>4, FirstByte
    <3>2. ~FourBytes(a, b, c, d)
      BY <1>1, <2>4 DEF FourBytes
    <3> QED  BY <1>7, <3>1, <3>2 DEF code, a, b, c, d
  <2> QED  BY <2>3, <2>4
<1>8. n > 4 \/ n = 1 \/ n = 2 \/ n = 3 \/ n = 4
  OBVIOUS
<1> QED  BY <1>2, <1>4, <1>5, <1>6, <1>7, <1>8

\* The first n of these bytes are one character.
Character(n, a, b, c, d) ==
  \/ n = 1 /\ OneByte(a)
  \/ n = 2 /\ TwoBytes(a, b)
  \/ n = 3 /\ ThreeBytes(a, b, c)
  \/ n = 4 /\ FourBytes(a, b, c, d)

\* The number of bytes of the character that starts with a, b, c, d.
Width(a, b, c, d) ==
  IF OneByte(a) THEN 1 ELSE IF TwoBytes(a, b) THEN 2
  ELSE IF ThreeBytes(a, b, c) THEN 3 ELSE IF FourBytes(a, b, c, d) THEN 4 ELSE 0

LEMMA SequenceWidth ==
  ASSUME NEW s \in Seq(Nat), NEW i \in 1 .. Len(s)
  PROVE  ValidUtf8Sequence(s, i) = Width(s[i], At(s, i + 1), At(s, i + 2), At(s, i + 3))
<1> DEFINE a == s[i]
           b == At(s, i + 1)
           c == At(s, i + 2)
           d == At(s, i + 3)
           F(x) == x \in 128..191
           v == ValidUtf8Sequence(s, i)
<1>1. /\ Continues(s, i + 1, 1) <=> F(b)
      /\ Continues(s, i + 1, 2) <=> F(b) /\ F(c)
      /\ Continues(s, i + 1, 3) <=> F(b) /\ F(c) /\ F(d)
      /\ Continues(s, i + 2, 1) <=> F(c)
      /\ Continues(s, i + 2, 2) <=> F(c) /\ F(d)
  <2> HIDE DEF F
  <2>1. ASSUME NEW j \in Int
        PROVE  /\ Continues(s, j, 1) <=> F(At(s, j))
               /\ Continues(s, j, 2) <=> F(At(s, j)) /\ F(At(s, j + 1))
               /\ Continues(s, j, 3) <=> F(At(s, j)) /\ F(At(s, j + 1)) /\ F(At(s, j + 2))
    <3>1. /\ j .. j + 1 - 1 = {j}
          /\ j .. j + 2 - 1 = {j, j + 1}
          /\ j .. j + 3 - 1 = {j, j + 1, j + 2}
      BY SMTT(30)
    <3> QED  BY <3>1 DEF Continues, F
  <2>2. /\ i + 1 \in Int /\ i + 2 \in Int
        /\ (i + 1) + 1 = i + 2 /\ (i + 1) + 2 = i + 3 /\ (i + 2) + 1 = i + 3
    OBVIOUS
  <2>3. /\ Continues(s, i + 1, 1) <=> F(At(s, i + 1))
        /\ Continues(s, i + 1, 2) <=> F(At(s, i + 1)) /\ F(At(s, (i + 1) + 1))
        /\ Continues(s, i + 1, 3) <=> F(At(s, i + 1)) /\ F(At(s, (i + 1) + 1)) /\ F(At(s, (i + 1) + 2))
    BY <2>1, <2>2
  <2>4. /\ Continues(s, i + 2, 1) <=> F(At(s, i + 2))
        /\ Continues(s, i + 2, 2) <=> F(At(s, i + 2)) /\ F(At(s, (i + 2) + 1))
    BY <2>1, <2>2
  <2> QED  BY <2>2, <2>3, <2>4
<1>2. a \in Nat /\ b \in Int /\ c \in Int /\ d \in Int
  BY DEF At
<1>3. v = CASE a < 128 -> 1
            [] a \in 194..223 /\ F(b) -> 2
            [] a = 224 /\ b \in 160..191 /\ F(c) -> 3
            [] a \in (225..236) \cup {238, 239} /\ F(b) /\ F(c) -> 3
            [] a = 237 /\ b \in 128..159 /\ F(c) -> 3
            [] a = 240 /\ b \in 144..191 /\ F(c) /\ F(d) -> 4
            [] a \in 241..243 /\ F(b) /\ F(c) /\ F(d) -> 4
            [] a = 244 /\ b \in 128..143 /\ F(c) /\ F(d) -> 4
            [] OTHER -> 0
  <2> HIDE DEF F
  <2> QED  BY <1>1 DEF ValidUtf8Sequence
<1> HIDE DEF a, b, c, d, v
<1>4. /\ F(b) <=> Following(b)
      /\ F(c) <=> Following(c)
      /\ F(d) <=> Following(d)
  BY <1>2 DEF Following
<1>5. /\ a < 128 <=> OneByte(a)
      /\ a \in 194..223 /\ F(b) <=> TwoBytes(a, b)
  BY <1>2 DEF Following, OneByte, TwoBytes
<1>6. \/ a = 224 /\ b \in 160..191 /\ F(c)
      \/ a \in (225..236) \cup {238, 239} /\ F(b) /\ F(c)
      \/ a = 237 /\ b \in 128..159 /\ F(c)
      <=> ThreeBytes(a, b, c)
  BY <1>2 DEF Following, ThreeBytes
<1>7. \/ a = 240 /\ b \in 144..191 /\ F(c) /\ F(d)
      \/ a \in 241..243 /\ F(b) /\ F(c) /\ F(d)
      \/ a = 244 /\ b \in 128..143 /\ F(c) /\ F(d)
      <=> FourBytes(a, b, c, d)
  BY <1>2 DEF Following, FourBytes
<1>8. v = Width(a, b, c, d)
  <2>1. /\ OneByte(a) => ~TwoBytes(a, b) /\ ~ThreeBytes(a, b, c) /\ ~FourBytes(a, b, c, d)
        /\ TwoBytes(a, b) => ~ThreeBytes(a, b, c) /\ ~FourBytes(a, b, c, d)
        /\ ThreeBytes(a, b, c) => ~FourBytes(a, b, c, d)
    BY <1>2 DEF OneByte, TwoBytes, ThreeBytes, FourBytes
  <2> DEFINE C1 == a < 128
             C2 == a \in 194..223 /\ F(b)
             C3 == a = 224 /\ b \in 160..191 /\ F(c)
             C4 == a \in (225..236) \cup {238, 239} /\ F(b) /\ F(c)
             C5 == a = 237 /\ b \in 128..159 /\ F(c)
             C6 == a = 240 /\ b \in 144..191 /\ F(c) /\ F(d)
             C7 == a \in 241..243 /\ F(b) /\ F(c) /\ F(d)
             C8 == a = 244 /\ b \in 128..143 /\ F(c) /\ F(d)
  <2>2. /\ C1 <=> OneByte(a)
        /\ C2 <=> TwoBytes(a, b)
        /\ C3 \/ C4 \/ C5 <=> ThreeBytes(a, b, c)
        /\ C6 \/ C7 \/ C8 <=> FourBytes(a, b, c, d)
    BY <1>5, <1>6, <1>7
  <2>3. v = CASE C1 -> 1 [] C2 -> 2 [] C3 -> 3 [] C4 -> 3 [] C5 -> 3 [] C6 -> 4 [] C7 -> 4
              [] C8 -> 4 [] OTHER -> 0
    BY <1>3
  <2> HIDE DEF C1, C2, C3, C4, C5, C6, C7, C8
  <2> QED  BY <2>1, <2>2, <2>3 DEF Width
<1> QED  BY <1>8 DEF a, b, c, d, v

LEMMA CodePointNatural ==
  ASSUME NEW n \in Nat \ {0}, NEW u \in Seq(Nat), Len(u) = n
  PROVE  /\ Grammar!CodePoint(u) \in Nat \cup {-1}
         /\ Grammar!CodePoint(u) >= 0 <=> Character(n, u[1], u[2], u[3], u[4])
<1> DEFINE a == u[1]
           b == u[2]
           c == u[3]
           d == u[4]
           code == Grammar!CodePoint(u)
           C1 == n = 1 /\ OneByte(a)
           C2 == n = 2 /\ TwoBytes(a, b)
           C3 == n = 3 /\ ThreeBytes(a, b, c)
           C4 == n = 4 /\ FourBytes(a, b, c, d)
<1>1. code = IF C1 THEN a ELSE IF C2 THEN Two(a, b) ELSE IF C3 THEN Three(a, b, c)
             ELSE IF C4 THEN Four(a, b, c, d) ELSE -1
  BY CodePoints
<1>2. a \in Nat /\ (n >= 2 => b \in Nat) /\ (n >= 3 => c \in Nat) /\ (n >= 4 => d \in Nat)
  OBVIOUS
<1> HIDE DEF a, b, c, d, code
<1>3. C2 => Two(a, b) \in Nat
  BY <1>2, TwoValue DEF TwoBytes
<1>4. C3 => Three(a, b, c) \in Nat
  BY <1>2, ThreeValue DEF ThreeBytes
<1>5. C4 => Four(a, b, c, d) \in Nat
  BY <1>2, FourValue DEF FourBytes
<1> HIDE DEF C1, C2, C3, C4
<1>6. code \in Nat \cup {-1} /\ (code >= 0 <=> C1 \/ C2 \/ C3 \/ C4)
  BY <1>1, <1>2, <1>3, <1>4, <1>5
<1>7. C1 \/ C2 \/ C3 \/ C4 <=> Character(n, a, b, c, d)
  BY DEF C1, C2, C3, C4, Character
<1> QED  BY <1>6, <1>7 DEF a, b, c, d, code

\* valid_utf8_sequence takes exactly the characters of UTF-8: no overlong form, no
\* surrogate, nothing that is cut off by the end.
THEOREM Utf8SequencesExact ==
  ASSUME NEW s \in Seq(Nat), NEW i \in 1 .. Len(s), NEW w \in Nat \ {0}
  PROVE  ValidUtf8Sequence(s, i) = w <=>
           /\ i + w - 1 <= Len(s)
           /\ Grammar!CodePoint(SubSeq(s, i, i + w - 1)) >= 0
<1> DEFINE u == SubSeq(s, i, i + w - 1)
           a == s[i]
           b == At(s, i + 1)
           c == At(s, i + 2)
           d == At(s, i + 3)
           inside == i + w - 1 <= Len(s)
           C1 == w = 1 /\ OneByte(a)
           C2 == w = 2 /\ TwoBytes(a, b)
           C3 == w = 3 /\ ThreeBytes(a, b, c)
           C4 == w = 4 /\ FourBytes(a, b, c, d)
<1>1. ValidUtf8Sequence(s, i) = Width(a, b, c, d)
  BY SequenceWidth
<1>2. /\ a \in Nat /\ b \in Int /\ c \in Int /\ d \in Int
      /\ Following(b) => i + 1 <= Len(s)
      /\ Following(c) => i + 2 <= Len(s)
      /\ Following(d) => i + 3 <= Len(s)
  BY SMTT(30) DEF At, Following
<1>3. inside =>
        (Grammar!CodePoint(u) >= 0 <=> C1 \/ C2 \/ C3 \/ C4)
  <2> SUFFICES ASSUME inside PROVE Grammar!CodePoint(u) >= 0 <=> C1 \/ C2 \/ C3 \/ C4
    OBVIOUS
  <2>1. u \in Seq(Nat) /\ Len(u) = w
    OBVIOUS
  <2>2. \A k \in 1..w : u[k] = s[i + k - 1]
    OBVIOUS
  <2>3. /\ u[1] = a /\ (w = 2 => u[2] = b) /\ (w = 3 => u[2] = b /\ u[3] = c)
        /\ (w = 4 => u[2] = b /\ u[3] = c /\ u[4] = d)
    BY <2>2 DEF At
  <2> HIDE DEF u, a, b, c, d
  <2>4. Grammar!CodePoint(u) >= 0 <=> Character(w, u[1], u[2], u[3], u[4])
    BY <2>1, CodePointNatural
  <2> QED  BY <2>3, <2>4 DEF Character
<1>4. C1 \/ C2 \/ C3 \/ C4 => inside
  <2> HIDE DEF a, b, c, d
  <2> QED  BY <1>2 DEF TwoBytes, ThreeBytes, FourBytes
<1>5. Width(a, b, c, d) = w <=> C1 \/ C2 \/ C3 \/ C4
  <2>1. /\ OneByte(a) => ~TwoBytes(a, b) /\ ~ThreeBytes(a, b, c) /\ ~FourBytes(a, b, c, d)
        /\ TwoBytes(a, b) => ~ThreeBytes(a, b, c) /\ ~FourBytes(a, b, c, d)
        /\ ThreeBytes(a, b, c) => ~FourBytes(a, b, c, d)
    <3> HIDE DEF a, b, c, d
    <3> QED  BY <1>2 DEF OneByte, TwoBytes, ThreeBytes, FourBytes
  <2> HIDE DEF a, b, c, d
  <2> QED  BY <2>1 DEF Width
<1> HIDE DEF inside, a, b, c, d, C1, C2, C3, C4
<1>6. Width(a, b, c, d) = w <=> inside /\ Grammar!CodePoint(u) >= 0
  BY <1>3, <1>4, <1>5
<1> QED  BY <1>1, <1>6 DEF inside

Scalar(c) == c \in Nat /\ c <= Grammar!Greatest /\ c \notin Grammar!High \cup Grammar!Low

LEMMA Divided ==
  ASSUME NEW c \in Nat
  PROVE  /\ c % 64 \in Nat /\ c % 64 <= 63
         /\ (c \div 64) % 64 \in Nat /\ (c \div 64) % 64 <= 63
         /\ (c \div 4096) % 64 \in Nat /\ (c \div 4096) % 64 <= 63
         /\ c \div 64 \in Nat /\ c \div 4096 \in Nat /\ c \div 262144 \in Nat
         /\ c = (c \div 64) * 64 + (c % 64)
         /\ c \div 64 = (c \div 4096) * 64 + ((c \div 64) % 64)
         /\ c \div 4096 = (c \div 262144) * 64 + ((c \div 4096) % 64)
<1>1. /\ c % 64 \in Nat /\ c % 64 <= 63 /\ c \div 64 \in Nat
      /\ c = (c \div 64) * 64 + (c % 64)
  OBVIOUS
<1>2. /\ (c \div 64) % 64 \in Nat /\ (c \div 64) % 64 <= 63 /\ c \div 4096 \in Nat
      /\ c \div 64 = (c \div 4096) * 64 + ((c \div 64) % 64)
  OBVIOUS
<1>3. /\ (c \div 4096) % 64 \in Nat /\ (c \div 4096) % 64 <= 63 /\ c \div 262144 \in Nat
      /\ c \div 4096 = (c \div 262144) * 64 + ((c \div 4096) % 64)
  BY SMT
<1> QED  BY <1>1, <1>2, <1>3

LEMMA CodePointOf ==
  ASSUME NEW n \in Nat \ {0}, NEW u \in Seq(Nat), Len(u) = n
  PROVE  /\ n = 1 /\ OneByte(u[1]) => Grammar!CodePoint(u) = u[1]
         /\ n = 2 /\ TwoBytes(u[1], u[2]) => Grammar!CodePoint(u) = Two(u[1], u[2])
         /\ n = 3 /\ ThreeBytes(u[1], u[2], u[3]) =>
              Grammar!CodePoint(u) = Three(u[1], u[2], u[3])
         /\ n = 4 /\ FourBytes(u[1], u[2], u[3], u[4]) =>
              Grammar!CodePoint(u) = Four(u[1], u[2], u[3], u[4])
  BY CodePoints

\* encode_codepoint writes the one sequence of bytes that means the code point.
THEOREM EncodingExact ==
  ASSUME NEW c, Scalar(c)
  PROVE  /\ EncodeCodepoint(c) \in Seq(Nat) /\ EncodeCodepoint(c) # <<>>
         /\ Grammar!CodePoint(EncodeCodepoint(c)) = c
<1> DEFINE e == EncodeCodepoint(c)
           z == c % 64
           y == (c \div 64) % 64
           x == (c \div 4096) % 64
           c6 == c \div 64
           c12 == c \div 4096
           c18 == c \div 262144
<1>1. c \in Nat /\ c <= 1114111 /\ ~(55296 <= c /\ c <= 57343)
  BY SMT, Limits DEF Scalar
<1>2. /\ z \in Nat /\ z <= 63 /\ y \in Nat /\ y <= 63 /\ x \in Nat /\ x <= 63
      /\ c6 \in Nat /\ c12 \in Nat /\ c18 \in Nat
      /\ c = c6 * 64 + z /\ c6 = c12 * 64 + y /\ c12 = c18 * 64 + x
  BY <1>1, Divided
<1>3. e = IF c <= 127 THEN <<c>>
          ELSE IF c <= 2047 THEN <<192 + c6, 128 + z>>
          ELSE IF c <= 65535 THEN <<224 + c12, 128 + y, 128 + z>>
          ELSE <<240 + c18, 128 + x, 128 + y, 128 + z>>
  BY DEF EncodeCodepoint
<1> HIDE DEF e, x, y, z, c6, c12, c18
<1>4. CASE c <= 127
  <2>1. e = <<c>>
    BY <1>1, <1>3, <1>4
  <2>2. <<c>> \in Seq(Nat) /\ Len(<<c>>) = 1 /\ <<c>>[1] = c
    BY <1>1
  <2>3. OneByte(c)
    BY <1>4 DEF OneByte
  <2>4. Grammar!CodePoint(<<c>>) = c
    <3>1. PICK n \in Nat \ {0} : n = 1
      OBVIOUS
    <3> QED  BY <2>2, <2>3, <3>1, CodePointOf
  <2> QED  BY <2>1, <2>2, <2>4 DEF e
<1>5. CASE 128 <= c /\ c <= 2047
  <2>1. e = <<192 + c6, 128 + z>>
    BY <1>1, <1>3, <1>5
  <2> DEFINE a == 192 + c6
             b == 128 + z
             u == <<a, b>>
  <2>2. /\ a \in Nat /\ b \in Nat /\ TwoBytes(a, b) /\ Two(a, b) = c
    BY <1>1, <1>2, <1>5 DEF TwoBytes, Two, Following
  <2> HIDE DEF a, b
  <2>3. u \in Seq(Nat) /\ Len(u) = 2 /\ u[1] = a /\ u[2] = b
    BY <2>2
  <2> HIDE DEF u
  <2>4. Grammar!CodePoint(u) = c
    <3>1. PICK n \in Nat \ {0} : n = 2
      OBVIOUS
    <3> QED  BY <2>2, <2>3, <3>1, CodePointOf
  <2> QED  BY <2>1, <2>3, <2>4 DEF e, u, a, b
<1>6. CASE 2048 <= c /\ c <= 65535
  <2>1. e = <<224 + c12, 128 + y, 128 + z>>
    BY <1>1, <1>3, <1>6
  <2> DEFINE a == 224 + c12
             b == 128 + y
             d == 128 + z
             u == <<a, b, d>>
  <2>2. /\ a \in Nat /\ b \in Nat /\ d \in Nat /\ ThreeBytes(a, b, d) /\ Three(a, b, d) = c
    BY <1>1, <1>2, <1>6 DEF ThreeBytes, Three, Following
  <2> HIDE DEF a, b, d
  <2>3. u \in Seq(Nat) /\ Len(u) = 3 /\ u[1] = a /\ u[2] = b /\ u[3] = d
    BY <2>2
  <2> HIDE DEF u
  <2>4. Grammar!CodePoint(u) = c
    <3>1. PICK n \in Nat \ {0} : n = 3
      OBVIOUS
    <3> QED  BY <2>2, <2>3, <3>1, CodePointOf
  <2> QED  BY <2>1, <2>3, <2>4 DEF e, u, a, b, d
<1>7. CASE 65536 <= c
  <2>1. e = <<240 + c18, 128 + x, 128 + y, 128 + z>>
    BY SMT, <1>1, <1>3, <1>7
  <2> DEFINE a == 240 + c18
             b == 128 + x
             d == 128 + y
             f == 128 + z
             u == <<a, b, d, f>>
  <2>2. /\ a \in Nat /\ b \in Nat /\ d \in Nat /\ f \in Nat
        /\ FourBytes(a, b, d, f) /\ Four(a, b, d, f) = c
    BY SMT, <1>1, <1>2, <1>7 DEF FourBytes, Four, Following
  <2> HIDE DEF a, b, d, f
  <2>3. u \in Seq(Nat) /\ Len(u) = 4 /\ u[1] = a /\ u[2] = b /\ u[3] = d /\ u[4] = f
    BY <2>2
  <2> HIDE DEF u
  <2>4. Grammar!CodePoint(u) = c
    <3>1. PICK n \in Nat \ {0} : n = 4
      OBVIOUS
    <3> QED  BY <2>2, <2>3, <3>1, CodePointOf
  <2> QED  BY <2>1, <2>3, <2>4 DEF e, u, a, b, d, f
<1>8. c <= 127 \/ (128 <= c /\ c <= 2047) \/ (2048 <= c /\ c <= 65535) \/ 65536 <= c
  BY <1>1
<1> QED  BY <1>4, <1>5, <1>6, <1>7, <1>8 DEF e

\* How long a character is can be told from its code point, and each of its bytes.
LEMMA CharacterRanges ==
  /\ \A a, b \in Nat : TwoBytes(a, b) => 128 <= Two(a, b) /\ Two(a, b) <= 2047
  /\ \A a, b, c \in Nat :
       ThreeBytes(a, b, c) => 2048 <= Three(a, b, c) /\ Three(a, b, c) <= 65535
  /\ \A a, b, c, d \in Nat : FourBytes(a, b, c, d) => 65536 <= Four(a, b, c, d)
<1>1. ASSUME NEW a \in Nat, NEW b \in Nat, TwoBytes(a, b)
      PROVE  128 <= Two(a, b) /\ Two(a, b) <= 2047
  BY SMT, <1>1 DEF TwoBytes, Two, Following
<1>2. ASSUME NEW a \in Nat, NEW b \in Nat, NEW c \in Nat, ThreeBytes(a, b, c)
      PROVE  2048 <= Three(a, b, c) /\ Three(a, b, c) <= 65535
  <2>1. CASE a = 224
    BY SMT, <1>2, <2>1 DEF ThreeBytes, Three, Following
  <2>2. CASE a # 224
    BY SMT, <1>2, <2>2 DEF ThreeBytes, Three, Following
  <2> QED  BY <2>1, <2>2
<1>3. ASSUME NEW a \in Nat, NEW b \in Nat, NEW c \in Nat, NEW d \in Nat, FourBytes(a, b, c, d)
      PROVE  65536 <= Four(a, b, c, d)
  <2>1. CASE a = 240
    BY SMT, <1>3, <2>1 DEF FourBytes, Four, Following
  <2>2. CASE a # 240
    BY SMT, <1>3, <2>2 DEF FourBytes, Four, Following
  <2> QED  BY <2>1, <2>2
<1> QED  BY <1>1, <1>2, <1>3

LEMMA BytesInjective ==
  /\ \A a, b, e, f \in Nat :
       TwoBytes(a, b) /\ TwoBytes(e, f) /\ Two(a, b) = Two(e, f) => a = e /\ b = f
  /\ \A a, b, c, e, f, g \in Nat :
       ThreeBytes(a, b, c) /\ ThreeBytes(e, f, g) /\ Three(a, b, c) = Three(e, f, g) =>
         a = e /\ b = f /\ c = g
  /\ \A a, b, c, d, e, f, g, h \in Nat :
       FourBytes(a, b, c, d) /\ FourBytes(e, f, g, h) /\ Four(a, b, c, d) = Four(e, f, g, h) =>
         a = e /\ b = f /\ c = g /\ d = h
<1>1. ASSUME NEW a \in Nat, NEW b \in Nat, NEW e \in Nat, NEW f \in Nat,
             TwoBytes(a, b), TwoBytes(e, f), Two(a, b) = Two(e, f)
      PROVE  a = e /\ b = f
  BY <1>1 DEF TwoBytes, Two, Following
<1>2. ASSUME NEW a \in Nat, NEW b \in Nat, NEW c \in Nat, NEW e \in Nat, NEW f \in Nat, NEW g \in Nat,
             ThreeBytes(a, b, c), ThreeBytes(e, f, g), Three(a, b, c) = Three(e, f, g)
      PROVE  a = e /\ b = f /\ c = g
  <2> DEFINE p == (a - 224) * 64 + (b - 128)
             q == (e - 224) * 64 + (f - 128)
  <2>1. p \in Int /\ q \in Int /\ p * 64 + (c - 128) = q * 64 + (g - 128)
    BY <1>2 DEF Three
  <2> HIDE DEF p, q
  <2>2. p = q /\ c = g
    BY <1>2, <2>1 DEF ThreeBytes, Following
  <2>3. a = e /\ b = f
    BY <1>2, <2>2 DEF ThreeBytes, Following, p, q
  <2> QED  BY <2>2, <2>3
<1>3. ASSUME NEW a \in Nat, NEW b \in Nat, NEW c \in Nat, NEW d \in Nat,
             NEW e \in Nat, NEW f \in Nat, NEW g \in Nat, NEW h \in Nat,
             FourBytes(a, b, c, d), FourBytes(e, f, g, h), Four(a, b, c, d) = Four(e, f, g, h)
      PROVE  a = e /\ b = f /\ c = g /\ d = h
  <2> DEFINE p == (a - 240) * 64 + (b - 128)
             q == (e - 240) * 64 + (f - 128)
             r == p * 64 + (c - 128)
             t == q * 64 + (g - 128)
  <2>1. r \in Int /\ t \in Int /\ r * 64 + (d - 128) = t * 64 + (h - 128)
    BY <1>3 DEF Four
  <2> HIDE DEF r, t
  <2>2. r = t /\ d = h
    BY <1>3, <2>1 DEF FourBytes, Following
  <2>3. p \in Int /\ q \in Int
    BY <1>3
  <2> HIDE DEF p, q
  <2>4. p = q /\ c = g
    BY <1>3, <2>2, <2>3 DEF FourBytes, Following, r, t
  <2>5. a = e /\ b = f
    BY <1>3, <2>4 DEF FourBytes, Following, p, q
  <2> QED  BY <2>2, <2>4, <2>5
<1> QED  BY <1>1, <1>2, <1>3

\* And two sequences that mean the same are the same.
LEMMA CodePointInjective ==
  ASSUME NEW m \in Nat \ {0}, NEW n \in Nat \ {0}, NEW u \in Seq(Nat), NEW v \in Seq(Nat),
         Len(u) = m, Len(v) = n,
         Grammar!CodePoint(u) = Grammar!CodePoint(v), Grammar!CodePoint(u) >= 0
  PROVE  m = n /\ u = v
<1> DEFINE a == u[1]
           b == u[2]
           c == u[3]
           d == u[4]
           e == v[1]
           f == v[2]
           g == v[3]
           h == v[4]
           code == Grammar!CodePoint(u)
<1>1. /\ a \in Nat /\ (m >= 2 => b \in Nat) /\ (m >= 3 => c \in Nat) /\ (m >= 4 => d \in Nat)
      /\ e \in Nat /\ (n >= 2 => f \in Nat) /\ (n >= 3 => g \in Nat) /\ (n >= 4 => h \in Nat)
  BY SMTT(30)
<1>2. /\ code = IF m = 1 /\ OneByte(a) THEN a
                ELSE IF m = 2 /\ TwoBytes(a, b) THEN Two(a, b)
                ELSE IF m = 3 /\ ThreeBytes(a, b, c) THEN Three(a, b, c)
                ELSE IF m = 4 /\ FourBytes(a, b, c, d) THEN Four(a, b, c, d) ELSE -1
      /\ Character(m, a, b, c, d)
  BY CodePoints, CodePointNatural
<1>3. /\ code = IF n = 1 /\ OneByte(e) THEN e
                ELSE IF n = 2 /\ TwoBytes(e, f) THEN Two(e, f)
                ELSE IF n = 3 /\ ThreeBytes(e, f, g) THEN Three(e, f, g)
                ELSE IF n = 4 /\ FourBytes(e, f, g, h) THEN Four(e, f, g, h) ELSE -1
      /\ Character(n, e, f, g, h)
  BY CodePoints, CodePointNatural
<1> HIDE DEF a, b, c, d, e, f, g, h, code
<1>4. /\ m = 1 => code = a /\ a <= 127
      /\ m = 2 => code = Two(a, b) /\ TwoBytes(a, b)
      /\ m = 3 => code = Three(a, b, c) /\ ThreeBytes(a, b, c)
      /\ m = 4 => code = Four(a, b, c, d) /\ FourBytes(a, b, c, d)
      /\ m \in {1, 2, 3, 4}
  BY <1>2 DEF Character, OneByte
<1>5. /\ n = 1 => code = e /\ e <= 127
      /\ n = 2 => code = Two(e, f) /\ TwoBytes(e, f)
      /\ n = 3 => code = Three(e, f, g) /\ ThreeBytes(e, f, g)
      /\ n = 4 => code = Four(e, f, g, h) /\ FourBytes(e, f, g, h)
      /\ n \in {1, 2, 3, 4}
  BY <1>3 DEF Character, OneByte
<1>6. /\ m = 1 => code <= 127
      /\ m = 2 => 128 <= code /\ code <= 2047
      /\ m = 3 => 2048 <= code /\ code <= 65535
      /\ m = 4 => 65536 <= code
  <2>1. CASE m = 1
    BY <1>4, <2>1
  <2>2. CASE m = 2
    BY <1>1, <1>4, <2>2, CharacterRanges
  <2>3. CASE m = 3
    BY <1>1, <1>4, <2>3, CharacterRanges
  <2>4. CASE m = 4
    BY <1>1, <1>4, <2>4, CharacterRanges
  <2> QED  BY <1>4, <2>1, <2>2, <2>3, <2>4
<1>7. /\ n = 1 => code <= 127
      /\ n = 2 => 128 <= code /\ code <= 2047
      /\ n = 3 => 2048 <= code /\ code <= 65535
      /\ n = 4 => 65536 <= code
  <2>1. CASE n = 1
    BY <1>5, <2>1
  <2>2. CASE n = 2
    BY <1>1, <1>5, <2>2, CharacterRanges
  <2>3. CASE n = 3
    BY <1>1, <1>5, <2>3, CharacterRanges
  <2>4. CASE n = 4
    BY <1>1, <1>5, <2>4, CharacterRanges
  <2> QED  BY <1>5, <2>1, <2>2, <2>3, <2>4
<1>8. code \in Int
  BY CodePointNatural DEF code
<1>9. m = n
  BY <1>4, <1>5, <1>6, <1>7, <1>8
<1>10. /\ a = e /\ (m >= 2 => b = f) /\ (m >= 3 => c = g) /\ (m >= 4 => d = h)
  <2>1. CASE m = 1
    BY <1>4, <1>5, <1>9, <2>1
  <2>2. CASE m = 2
    <3>1. /\ a \in Nat /\ b \in Nat
          /\ e \in Nat /\ f \in Nat
          /\ TwoBytes(a, b) /\ TwoBytes(e, f) /\ Two(a, b) = Two(e, f)
      BY <1>1, <1>4, <1>5, <1>9, <2>2
    <3>2. a = e /\ b = f
      BY ONLY <3>1, BytesInjective
    <3> QED  BY <2>2, <3>2
  <2>3. CASE m = 3
    <3>1. /\ a \in Nat /\ b \in Nat /\ c \in Nat
          /\ e \in Nat /\ f \in Nat /\ g \in Nat
          /\ ThreeBytes(a, b, c) /\ ThreeBytes(e, f, g) /\ Three(a, b, c) = Three(e, f, g)
      BY <1>1, <1>4, <1>5, <1>9, <2>3
    <3>2. a = e /\ b = f /\ c = g
      BY ONLY <3>1, BytesInjective
    <3> QED  BY <2>3, <3>2
  <2>4. CASE m = 4
    <3>1. /\ a \in Nat /\ b \in Nat /\ c \in Nat /\ d \in Nat
          /\ e \in Nat /\ f \in Nat /\ g \in Nat /\ h \in Nat
          /\ FourBytes(a, b, c, d) /\ FourBytes(e, f, g, h) /\ Four(a, b, c, d) = Four(e, f, g, h)
      BY <1>1, <1>4, <1>5, <1>9, <2>4
    <3>2. a = e /\ b = f /\ c = g /\ d = h
      BY ONLY <3>1, BytesInjective
    <3> QED  BY <2>4, <3>2
  <2> QED  BY <1>4, <2>1, <2>2, <2>3, <2>4
<1>11. \A k \in 1..m : u[k] = v[k]
  <2>1. \A k \in 1..m : k = 1 \/ (k = 2 /\ m >= 2) \/ (k = 3 /\ m >= 3) \/ (k = 4 /\ m >= 4)
    BY <1>4
  <2> QED  BY <1>10, <2>1 DEF a, b, c, d, e, f, g, h
<1>12. u = v
  BY <1>9, <1>11
<1> QED  BY <1>9, <1>12

-----------------------------------------------------------------------------
\* Escapes: four hex digits, the letters, and surrogate pairs.

\* The number that four hex digits are, or -1.
Hexed(a, b, c, d) ==
  IF HexValue(a) < 0 \/ HexValue(b) < 0 \/ HexValue(c) < 0 \/ HexValue(d) < 0 THEN -1
  ELSE ((HexValue(a) * 16 + HexValue(b)) * 16 + HexValue(c)) * 16 + HexValue(d)

LEMMA HexDigits ==
  ASSUME NEW b \in Int
  PROVE  LET Alphabet(d) == IF d < 10 THEN {48 + d} ELSE {55 + d, 87 + d}
         IN  /\ HexValue(b) \in -1 .. 15
             /\ (\E d \in 0..15 : b \in Alphabet(d)) <=> HexValue(b) >= 0
             /\ HexValue(b) >= 0 => (CHOOSE d \in 0..15 : b \in Alphabet(d)) = HexValue(b)
<1> DEFINE Alphabet(d) == IF d < 10 THEN {48 + d} ELSE {55 + d, 87 + d}
           v == HexValue(b)
<1>1. /\ v \in -1 .. 15
      /\ v \in 0..9 => b = 48 + v
      /\ v \in 10..15 => b = 55 + v \/ b = 87 + v
  BY DEF HexValue, Digit
<1>2. ASSUME NEW d \in 0..15, b \in Alphabet(d) PROVE v = d
  BY <1>2 DEF HexValue, Digit
<1>3. v >= 0 => v \in 0..15 /\ b \in Alphabet(v)
  <2> HIDE DEF v
  <2> QED  BY <1>1
<1> HIDE DEF Alphabet, v
<1>4. v >= 0 <=> v \in 0..15
  BY <1>1
<1>5. v \in 0..15 => (CHOOSE d \in 0..15 : b \in Alphabet(d)) = v
  BY <1>2, <1>3, <1>4
<1> QED  BY <1>1, <1>2, <1>3, <1>4, <1>5 DEF Alphabet, v

LEMMA HexOfBytes ==
  ASSUME NEW u, u[1] \in Int, u[2] \in Int, u[3] \in Int, u[4] \in Int
  PROVE  Grammar!Hex4(u) = Hexed(u[1], u[2], u[3], u[4])
<1> DEFINE a == u[1]
           b == u[2]
           c == u[3]
           d == u[4]
           Alphabet(x) == IF x < 10 THEN {48 + x} ELSE {55 + x, 87 + x}
           digit(y) == CHOOSE x \in 0..15 : y \in Alphabet(x)
           isHex(y) == \E x \in 0..15 : y \in Alphabet(x)
<1>1. Grammar!Hex4(u) =
        IF \A k \in 1..4 : isHex(u[k])
        THEN 4096 * digit(a) + 256 * digit(b) + 16 * digit(c) + digit(d) ELSE -1
  BY DEF Grammar!Hex4
<1>2. ASSUME NEW y \in Int
      PROVE  /\ HexValue(y) \in -1 .. 15
             /\ isHex(y) <=> HexValue(y) >= 0
             /\ HexValue(y) >= 0 => digit(y) = HexValue(y)
  BY HexDigits
<1> HIDE DEF digit, isHex
<1>3. (\A k \in 1..4 : isHex(u[k])) <=> isHex(a) /\ isHex(b) /\ isHex(c) /\ isHex(d)
  <2>1. \A k : k \in 1..4 <=> k = 1 \/ k = 2 \/ k = 3 \/ k = 4
    OBVIOUS
  <2> QED  BY <2>1
<1>4. a \in Int /\ b \in Int /\ c \in Int /\ d \in Int
  OBVIOUS
<1> HIDE DEF a, b, c, d
<1>5. /\ HexValue(a) \in -1 .. 15 /\ HexValue(b) \in -1 .. 15
      /\ HexValue(c) \in -1 .. 15 /\ HexValue(d) \in -1 .. 15
  BY <1>2, <1>4
<1>6. CASE isHex(a) /\ isHex(b) /\ isHex(c) /\ isHex(d)
  <2>1. /\ HexValue(a) >= 0 /\ HexValue(b) >= 0 /\ HexValue(c) >= 0 /\ HexValue(d) >= 0
        /\ digit(a) = HexValue(a) /\ digit(b) = HexValue(b)
        /\ digit(c) = HexValue(c) /\ digit(d) = HexValue(d)
    BY <1>2, <1>4, <1>6
  <2>2. Hexed(a, b, c, d)
          = ((HexValue(a) * 16 + HexValue(b)) * 16 + HexValue(c)) * 16 + HexValue(d)
    BY <1>5, <2>1 DEF Hexed
  <2>3. Grammar!Hex4(u)
          = 4096 * HexValue(a) + 256 * HexValue(b) + 16 * HexValue(c) + HexValue(d)
    BY <1>1, <1>3, <1>6, <2>1
  <2> QED  BY <1>5, <2>2, <2>3 DEF a, b, c, d
<1>7. CASE ~(isHex(a) /\ isHex(b) /\ isHex(c) /\ isHex(d))
  <2>1. HexValue(a) < 0 \/ HexValue(b) < 0 \/ HexValue(c) < 0 \/ HexValue(d) < 0
    BY <1>2, <1>4, <1>5, <1>7
  <2>2. Hexed(a, b, c, d) = -1
    BY <2>1 DEF Hexed
  <2> QED  BY <1>1, <1>3, <1>7, <2>2 DEF a, b, c, d
<1> QED  BY <1>6, <1>7

SixteenBits(v) == v \in Int /\ -1 <= v /\ v <= 65535

LEMMA HexRange ==
  ASSUME NEW a \in Int, NEW b \in Int, NEW c \in Int, NEW d \in Int
  PROVE  /\ SixteenBits(Hexed(a, b, c, d))
         /\ Hexed(a, b, c, d) >= 0 => d # -1
<1> DEFINE v == Hexed(a, b, c, d)
<1>1. PICK h \in -1 .. 15, k \in -1 .. 15, l \in -1 .. 15, m \in -1 .. 15 :
        h = HexValue(a) /\ k = HexValue(b) /\ l = HexValue(c) /\ m = HexValue(d)
  <2>1. /\ HexValue(a) \in -1 .. 15 /\ HexValue(b) \in -1 .. 15
        /\ HexValue(c) \in -1 .. 15 /\ HexValue(d) \in -1 .. 15
    BY HexDigits
  <2> QED  BY <2>1
<1>2. v = IF h < 0 \/ k < 0 \/ l < 0 \/ m < 0 THEN -1
          ELSE ((h * 16 + k) * 16 + l) * 16 + m
  BY <1>1 DEF Hexed
<1>3. /\ h \in Int /\ k \in Int /\ l \in Int /\ m \in Int
      /\ h <= 15 /\ k <= 15 /\ l <= 15 /\ m <= 15
  OBVIOUS
<1> HIDE DEF v
<1>4. v \in Int /\ -1 <= v /\ v <= 65535 /\ (v >= 0 => m >= 0)
  BY ONLY <1>2, <1>3, SMT
<1>5. m >= 0 => d # -1
  <2>1. HexValue(-1) = -1
    BY DEF HexValue, Digit
  <2> QED  BY <1>1, <1>3, <2>1
<1> QED  BY <1>4, <1>5 DEF v, SixteenBits

\* parse_hex4 reads the bytes there are; where there are not four, it refuses.
LEMMA HexParsed ==
  ASSUME NEW s \in Seq(Nat), NEW i \in Nat \ {0}
  PROVE  /\ ParseHex4(s, i) = Hexed(At(s, i), At(s, i + 1), At(s, i + 2), At(s, i + 3))
         /\ ParseHex4(s, i) >= 0 => i + 3 <= Len(s)
<1> DEFINE a == At(s, i)
           b == At(s, i + 1)
           c == At(s, i + 2)
           d == At(s, i + 3)
           v == ParseHex4(s, i)
<1>1. /\ a \in Int /\ b \in Int /\ c \in Int /\ d \in Int
      /\ d # -1 => i + 3 <= Len(s)
  BY DEF At
<1>2. v = Hexed(a, b, c, d)
  <2>1. i + 0 = i
    OBVIOUS
  <2>2. \A k : k \in 0..3 <=> k = 0 \/ k = 1 \/ k = 2 \/ k = 3
    OBVIOUS
  <2>3. v = IF \E k \in 0..3 : HexValue(At(s, i + k)) < 0 THEN -1
            ELSE ((HexValue(At(s, i + 0)) * 16 + HexValue(At(s, i + 1))) * 16
                   + HexValue(At(s, i + 2))) * 16 + HexValue(At(s, i + 3))
    BY DEF ParseHex4
  <2>4. (\E k \in 0..3 : HexValue(At(s, i + k)) < 0) <=>
           HexValue(a) < 0 \/ HexValue(b) < 0 \/ HexValue(c) < 0 \/ HexValue(d) < 0
    <3> DEFINE N(k) == HexValue(At(s, i + k)) < 0
    <3>1. (\E k \in 0..3 : N(k)) <=> N(0) \/ N(1) \/ N(2) \/ N(3)
      <4> HIDE DEF N
      <4> QED  BY <2>2
    <3> QED  BY <2>1, <3>1
  <2> QED  BY <2>1, <2>3, <2>4 DEF Hexed
<1> HIDE DEF a, b, c, d, v
<1>3. v >= 0 => i + 3 <= Len(s)
  BY <1>1, <1>2, HexRange
<1> QED  BY <1>2, <1>3 DEF a, b, c, d, v

\* The letters of escapes, in the grammar and in the code.
LEMMA ShortEscapes ==
  ASSUME NEW b
  PROVE  LET short == <<<<34, 34>>, <<92, 92>>, <<47, 47>>, <<98, 8>>, <<102, 12>>, <<110, 10>>,
                        <<114, 13>>, <<116, 9>>>>
         IN  /\ (\E k \in DOMAIN short : short[k][1] = b) <=> b \in DOMAIN Escape
             /\ b \in DOMAIN Escape =>
                  short[CHOOSE k \in DOMAIN short : short[k][1] = b][2] = Escape[b]
<1> DEFINE short == <<<<34, 34>>, <<92, 92>>, <<47, 47>>, <<98, 8>>, <<102, 12>>, <<110, 10>>,
                      <<114, 13>>, <<116, 9>>>>
           place == CHOOSE k \in DOMAIN short : short[k][1] = b
<1>1. /\ short[1] = <<34, 34>> /\ short[2] = <<92, 92>> /\ short[3] = <<47, 47>>
      /\ short[4] = <<98, 8>> /\ short[5] = <<102, 12>> /\ short[6] = <<110, 10>>
      /\ short[7] = <<114, 13>> /\ short[8] = <<116, 9>>
      /\ DOMAIN short = 1..8
  OBVIOUS
<1>2. /\ DOMAIN Escape = {34, 92, 47, 98, 102, 110, 114, 116}
      /\ Escape[34] = 34 /\ Escape[92] = 92 /\ Escape[47] = 47 /\ Escape[98] = 8
      /\ Escape[102] = 12 /\ Escape[110] = 10 /\ Escape[114] = 13 /\ Escape[116] = 9
  BY DEF Escape, Quote, Backslash
<1> HIDE DEF short
<1>3. \A k \in DOMAIN short : short[k][1] \in DOMAIN Escape /\ short[k][2] = Escape[short[k][1]]
  <2>1. \A k \in DOMAIN short : \/ k = 1 \/ k = 2 \/ k = 3 \/ k = 4
                                \/ k = 5 \/ k = 6 \/ k = 7 \/ k = 8
    BY <1>1
  <2>2. /\ short[1][1] = 34 /\ short[1][2] = 34
        /\ short[2][1] = 92 /\ short[2][2] = 92
        /\ short[3][1] = 47 /\ short[3][2] = 47
        /\ short[4][1] = 98 /\ short[4][2] = 8
        /\ short[5][1] = 102 /\ short[5][2] = 12
        /\ short[6][1] = 110 /\ short[6][2] = 10
        /\ short[7][1] = 114 /\ short[7][2] = 13
        /\ short[8][1] = 116 /\ short[8][2] = 9
    BY <1>1
  <2> QED  BY <1>2, <2>1, <2>2
<1>4. b \in DOMAIN Escape => \E k \in DOMAIN short : short[k][1] = b
  <2>1. /\ 1 \in DOMAIN short /\ 2 \in DOMAIN short /\ 3 \in DOMAIN short /\ 4 \in DOMAIN short
        /\ 5 \in DOMAIN short /\ 6 \in DOMAIN short /\ 7 \in DOMAIN short /\ 8 \in DOMAIN short
    BY <1>1
  <2>2. /\ short[1][1] = 34 /\ short[2][1] = 92 /\ short[3][1] = 47 /\ short[4][1] = 98
        /\ short[5][1] = 102 /\ short[6][1] = 110 /\ short[7][1] = 114 /\ short[8][1] = 116
    BY <1>1
  <2> QED  BY <1>2, <2>1, <2>2
<1>5. b \in DOMAIN Escape => place \in DOMAIN short /\ short[place][1] = b
  BY <1>4
<1> HIDE DEF place
<1>6. b \in DOMAIN Escape => short[place][2] = Escape[b]
  BY <1>3, <1>5
<1> QED  BY <1>3, <1>4, <1>6 DEF short, place

LEMMA EscapedByte ==
  ASSUME NEW b \in DOMAIN Escape
  PROVE  /\ b \in Nat /\ b # 117 /\ b # -1
         /\ Escape[b] \in Nat /\ Escape[b] <= 127
         /\ <<Escape[b]>> \in Seq(Nat) /\ Grammar!CodePoint(<<Escape[b]>>) = Escape[b]
<1>1. b \in {34, 92, 47, 98, 102, 110, 114, 116}
  BY DEF Escape, Quote, Backslash
<1>2. Escape[b] \in {8, 12, 10, 13, 9} \/ Escape[b] = b
  BY <1>1 DEF Escape, Quote, Backslash
<1>3. /\ b \in Nat /\ b # 117 /\ b # -1 /\ Escape[b] \in Nat /\ Escape[b] <= 127
  BY <1>1, <1>2
<1> DEFINE e == Escape[b]
<1> HIDE DEF e
<1>4. e \in Nat /\ OneByte(e)
  BY <1>3 DEF e, OneByte
<1>5. <<e>> \in Seq(Nat) /\ Len(<<e>>) = 1 /\ <<e>>[1] = e
  BY <1>4
<1>6. Grammar!CodePoint(<<e>>) = e
  <2> DEFINE u == <<e>>
  <2>1. u \in Seq(Nat) /\ Len(u) = 1 /\ u[1] = e
    BY <1>5
  <2> HIDE DEF u
  <2>2. Grammar!CodePoint(u) = e
    BY <1>4, <2>1, CodePoints
  <2> QED  BY <2>2 DEF u
<1> QED  BY <1>3, <1>5, <1>6 DEF e

\* The code point of a surrogate pair.
Pair(h, l) == 65536 + (h - 55296) * 1024 + l - 56320

\* What the grammar says of an escape of n bytes, byte by byte.
EscapeMeaning(n, u) ==
  LET h == Hexed(u[3], u[4], u[5], u[6])
      l == Hexed(u[9], u[10], u[11], u[12])
  IN  IF n = 2 /\ u[2] \in DOMAIN Escape THEN Escape[u[2]]
      ELSE IF n = 6 /\ u[2] = 117 /\ h \notin Grammar!High \cup Grammar!Low THEN h
      ELSE IF /\ n = 12 /\ u[2] = 117 /\ u[7] = 92 /\ u[8] = 117
              /\ h \in Grammar!High /\ l \in Grammar!Low
           THEN Pair(h, l)
      ELSE -1

LEMMA DenotedEscape ==
  ASSUME NEW n \in Nat \ {0}, NEW u \in Seq(Nat), Len(u) = n, u[1] = 92
  PROVE  Grammar!Denoted(u) = EscapeMeaning(n, u)
<1> DEFINE h == Hexed(u[3], u[4], u[5], u[6])
           l == Hexed(u[9], u[10], u[11], u[12])
           unicode(k) == IF SubSeq(u, k, k + 1) = <<92, 117>>
                         THEN Grammar!Hex4(SubSeq(u, k + 2, k + 5)) ELSE -1
           short == <<<<34, 34>>, <<92, 92>>, <<47, 47>>, <<98, 8>>, <<102, 12>>, <<110, 10>>,
                      <<114, 13>>, <<116, 9>>>>
           found == \E k \in DOMAIN short : short[k][1] = u[2]
           value == short[CHOOSE k \in DOMAIN short : short[k][1] = u[2]][2]
           pair == Pair(unicode(1), unicode(7))
           code == Grammar!Denoted(u)
<1>1. code = CASE n = 2 -> IF found THEN value ELSE -1
               [] n = 6 -> IF unicode(1) \in Grammar!High \cup Grammar!Low THEN -1 ELSE unicode(1)
               [] n = 12 -> IF unicode(1) \in Grammar!High /\ unicode(7) \in Grammar!Low
                            THEN pair ELSE -1
               [] OTHER -> -1
  <2> DEFINE C(k) == unicode(k) \in Grammar!High
             B(k) == unicode(k) \in Grammar!High \cup Grammar!Low
             A(k) == unicode(k) \in Grammar!Low
             x == unicode(1)
  <2>1. code =
         CASE u[1] # 92 -> IF u[1] >= 32 /\ u[1] # 34 THEN Grammar!CodePoint(u) ELSE -1
           [] u[1] = 92 /\ Len(u) = 2 -> IF found THEN value ELSE -1
           [] u[1] = 92 /\ Len(u) = 6 -> IF B(1) THEN -1 ELSE x
           [] u[1] = 92 /\ Len(u) = 12 -> IF C(1) /\ A(7) THEN pair ELSE -1
           [] OTHER -> -1
    BY DEF Grammar!Denoted, Pair
  <2> HIDE DEF code, found, value, C, B, A, x, pair
  <2>2. code = CASE n = 2 -> IF found THEN value ELSE -1
                 [] n = 6 -> IF B(1) THEN -1 ELSE x
                 [] n = 12 -> IF C(1) /\ A(7) THEN pair ELSE -1
                 [] OTHER -> -1
    BY <2>1
  <2> QED  BY <2>2 DEF C, B, A, x
<1>2. found <=> u[2] \in DOMAIN Escape
  BY ZenonT(30), ShortEscapes
<1>3. u[2] \in DOMAIN Escape => value = Escape[u[2]]
  BY ZenonT(30), ShortEscapes
<1>4. ASSUME NEW k \in {1, 7}, k + 5 <= n
      PROVE  unicode(k) = IF u[k] = 92 /\ u[k + 1] = 117
                          THEN Hexed(u[k + 2], u[k + 3], u[k + 4], u[k + 5]) ELSE -1
  <2> DEFINE x == SubSeq(u, k, k + 1)
             y == SubSeq(u, k + 2, k + 5)
  <2>1. /\ Len(x) = 2 /\ x \in Seq(Nat) /\ x[1] = u[k] /\ x[2] = u[k + 1]
    BY <1>4
  <2>2. /\ y[1] = u[k + 2] /\ y[2] = u[k + 3] /\ y[3] = u[k + 4] /\ y[4] = u[k + 5]
    BY <1>4
  <2>3. /\ u[k + 2] \in Int /\ u[k + 3] \in Int /\ u[k + 4] \in Int /\ u[k + 5] \in Int
    BY <1>4
  <2>4. x = <<92, 117>> <=> u[k] = 92 /\ u[k + 1] = 117
    <3> HIDE DEF x
    <3> QED  BY <2>1
  <2> HIDE DEF x, y
  <2>5. Grammar!Hex4(y) = Hexed(u[k + 2], u[k + 3], u[k + 4], u[k + 5])
    BY <2>2, <2>3, HexOfBytes
  <2> QED  BY <2>4, <2>5 DEF x, y
<1>5. -1 \notin Grammar!High \cup Grammar!Low
  BY DEF Grammar!High, Grammar!Low
<1>6. n >= 6 => unicode(1) = IF u[2] = 117 THEN h ELSE -1
  <2>1. /\ 1 \in {1, 7} /\ (n >= 6 => 1 + 5 <= n)
        /\ 1 + 1 = 2 /\ 1 + 2 = 3 /\ 1 + 3 = 4 /\ 1 + 4 = 5 /\ 1 + 5 = 6
    OBVIOUS
  <2> HIDE DEF unicode
  <2> QED  BY <1>4, <2>1
<1>7. n >= 12 => unicode(7) = IF u[7] = 92 /\ u[8] = 117 THEN l ELSE -1
  <2>1. /\ 7 \in {1, 7} /\ (n >= 12 => 7 + 5 <= n)
        /\ 7 + 1 = 8 /\ 7 + 2 = 9 /\ 7 + 3 = 10 /\ 7 + 4 = 11 /\ 7 + 5 = 12
    OBVIOUS
  <2> HIDE DEF unicode
  <2> QED  BY <1>4, <2>1
<1> HIDE DEF code, found, value, unicode, h, l
<1>8. code = IF n = 2 /\ u[2] \in DOMAIN Escape THEN Escape[u[2]]
             ELSE IF n = 6 /\ u[2] = 117 /\ h \notin Grammar!High \cup Grammar!Low THEN h
             ELSE IF /\ n = 12 /\ u[2] = 117 /\ u[7] = 92 /\ u[8] = 117
                     /\ h \in Grammar!High /\ l \in Grammar!Low
                  THEN Pair(h, l)
             ELSE -1
  <2>1. CASE n = 2
    BY <1>1, <1>2, <1>3, <2>1
  <2>2. CASE n = 6
    BY <1>1, <1>5, <1>6, <2>2
  <2>3. CASE n = 12
    BY <1>1, <1>5, <1>6, <1>7, <2>3
  <2>4. CASE n # 2 /\ n # 6 /\ n # 12
    BY <1>1, <2>4
  <2> QED  BY <2>1, <2>2, <2>3, <2>4
<1> QED  BY <1>8 DEF code, h, l, EscapeMeaning

LEMMA EscapeWidths ==
  ASSUME NEW s \in Seq(Nat), NEW i \in 1 .. Len(s), s[i] = 92
  PROVE  LET b == At(s, i + 1)
             h == ParseHex4(s, i + 2)
             l == ParseHex4(s, i + 8)
         IN  EscapeWidth(s, i) =
               IF b \in DOMAIN Escape THEN 2
               ELSE IF b = 117 /\ h >= 0 /\ h \notin Grammar!High \cup Grammar!Low THEN 6
               ELSE IF /\ b = 117 /\ At(s, i + 6) = 92 /\ At(s, i + 7) = 117
                       /\ h \in Grammar!High /\ l \in Grammar!Low THEN 12
               ELSE 0
<1> DEFINE b == At(s, i + 1)
           h == ParseHex4(s, i + 2)
           l == ParseHex4(s, i + 8)
           width == EscapeWidth(s, i)
<1>1. /\ IsUnicodeEscape(s, i) <=> b = 117
      /\ IsUnicodeEscape(s, i + 6) <=> At(s, i + 6) = 92 /\ At(s, i + 7) = 117
  <2>1. At(s, i) = 92 /\ (i + 6) + 1 = i + 7
    BY DEF At
  <2> QED  BY <2>1 DEF IsUnicodeEscape, Backslash
<1>2. HighSurrogate = Grammar!High /\ LowSurrogate = Grammar!Low
  BY DEF HighSurrogate, LowSurrogate, Grammar!High, Grammar!Low
<1>3. width = CASE b \in DOMAIN Escape -> 2
                [] IsUnicodeEscape(s, i) /\ h \in HighSurrogate
                     /\ IsUnicodeEscape(s, i + 6) /\ l \in LowSurrogate -> 12
                [] IsUnicodeEscape(s, i) /\ h >= 0 /\ h \notin HighSurrogate \cup LowSurrogate -> 6
                [] OTHER -> 0
  BY DEF EscapeWidth
<1>4. b \in DOMAIN Escape => b # 117
  BY EscapedByte
<1> HIDE DEF b, h, l, width
<1>5. width = IF b \in DOMAIN Escape THEN 2
              ELSE IF b = 117 /\ h >= 0 /\ h \notin Grammar!High \cup Grammar!Low THEN 6
              ELSE IF /\ b = 117 /\ At(s, i + 6) = 92 /\ At(s, i + 7) = 117
                      /\ h \in Grammar!High /\ l \in Grammar!Low THEN 12
              ELSE 0
  BY <1>1, <1>2, <1>3, <1>4
<1> QED  BY <1>5 DEF b, h, l, width

\* A unit of a string's content: the scan takes one exactly where the grammar has
\* one, and what it is decoded to means what the grammar says.
EscapeAgrees(s, i, w) ==
  LET u == SubSeq(s, i, i + w - 1)
  IN  /\ UnitWidth(s, i) = w <=> i + w - 1 <= Len(s) /\ Grammar!Denoted(u) >= 0
      /\ UnitWidth(s, i) = w =>
           /\ UnitBytes(s, i) \in Seq(Nat) /\ UnitBytes(s, i) # <<>>
           /\ Grammar!CodePoint(UnitBytes(s, i)) = Grammar!Denoted(u)

LEMMA DenotedPlain ==
  ASSUME NEW u, u[1] \notin {34, 92}
  PROVE  Grammar!Denoted(u) = IF u[1] >= 32 THEN Grammar!CodePoint(u) ELSE -1
<1> DEFINE unicode(k) == IF SubSeq(u, k, k + 1) = <<92, 117>>
                         THEN Grammar!Hex4(SubSeq(u, k + 2, k + 5)) ELSE -1
           short == <<<<34, 34>>, <<92, 92>>, <<47, 47>>, <<98, 8>>, <<102, 12>>, <<110, 10>>,
                      <<114, 13>>, <<116, 9>>>>
           Two_ == IF \E k \in DOMAIN short : short[k][1] = u[2]
                   THEN short[CHOOSE k \in DOMAIN short : short[k][1] = u[2]][2] ELSE -1
           Six_ == IF unicode(1) \in Grammar!High \cup Grammar!Low THEN -1 ELSE unicode(1)
           Twelve_ == IF unicode(1) \in Grammar!High /\ unicode(7) \in Grammar!Low
                      THEN 65536 + (unicode(1) - 55296) * 1024 + unicode(7) - 56320 ELSE -1
<1>1. Grammar!Denoted(u) =
        CASE u[1] # 92 -> IF u[1] >= 32 /\ u[1] # 34 THEN Grammar!CodePoint(u) ELSE -1
          [] u[1] = 92 /\ Len(u) = 2 -> Two_
          [] u[1] = 92 /\ Len(u) = 6 -> Six_
          [] u[1] = 92 /\ Len(u) = 12 -> Twelve_
          [] OTHER -> -1
  BY DEF Grammar!Denoted
<1> HIDE DEF Two_, Six_, Twelve_
<1> QED  BY <1>1

LEMMA PlainBytes ==
  ASSUME NEW s, NEW i, s[i] # 92
  PROVE  UnitBytes(s, i) = SubSeq(s, i, i + ValidUtf8Sequence(s, i) - 1)
<1> DEFINE width == ValidUtf8Sequence(s, i)
           escaped ==
             CASE EscapeWidth(s, i) = 2 -> <<Escape[s[i + 1]]>>
               [] EscapeWidth(s, i) = 6 -> EncodeCodepoint(ParseHex4(s, i + 2))
               [] OTHER -> EncodeCodepoint(65536 + (ParseHex4(s, i + 2) - 55296) * 1024
                                                 + (ParseHex4(s, i + 8) - 56320))
<1>1. UnitBytes(s, i) = IF s[i] # 92 THEN SubSeq(s, i, i + width - 1) ELSE escaped
  BY DEF UnitBytes, Backslash
<1> HIDE DEF escaped, width
<1> QED  BY <1>1 DEF width

LEMMA PlainUnit ==
  ASSUME NEW s \in Seq(Nat), NEW i \in 1 .. Len(s), s[i] \notin {34, 92}, NEW w \in Nat \ {0}
  PROVE  EscapeAgrees(s, i, w)
<1> DEFINE u == SubSeq(s, i, i + w - 1)
           width == ValidUtf8Sequence(s, i)
           inside == i + w - 1 <= Len(s)
           code == Grammar!CodePoint(u)
           a == s[i]
<1>1. width = w <=> inside /\ code >= 0
  BY Utf8SequencesExact
<1>2. UnitWidth(s, i) = IF a < 32 THEN 0 ELSE width
  BY DEF UnitWidth, Backslash
<1>3. UnitBytes(s, i) = SubSeq(s, i, i + width - 1)
  BY PlainBytes
<1>4. inside => u \in Seq(Nat) /\ Len(u) = w /\ u[1] = a /\ u # <<>>
  OBVIOUS
<1>5. inside => Grammar!Denoted(u) = IF a >= 32 THEN code ELSE -1
  <2> HIDE DEF u, inside, code, a
  <2>1. inside => u[1] \notin {34, 92} /\ u[1] = a
    BY <1>4 DEF a
  <2> QED  BY <2>1, DenotedPlain DEF code
<1>6. a \in Nat
  OBVIOUS
<1> HIDE DEF u, width, inside, code, a
<1>7. UnitWidth(s, i) = w <=> inside /\ Grammar!Denoted(u) >= 0
  BY <1>1, <1>2, <1>5, <1>6
<1>8. UnitWidth(s, i) = w => width = w /\ inside /\ a >= 32
  BY <1>1, <1>2, <1>6
<1>9. width = w => UnitBytes(s, i) = u
  BY <1>3 DEF u
<1>10. UnitWidth(s, i) = w =>
         /\ UnitBytes(s, i) \in Seq(Nat) /\ UnitBytes(s, i) # <<>>
         /\ Grammar!CodePoint(UnitBytes(s, i)) = Grammar!Denoted(u)
  BY <1>4, <1>5, <1>8, <1>9 DEF code
<1> QED  BY <1>7, <1>10 DEF EscapeAgrees, u, inside

LEMMA EscapedUnit ==
  ASSUME NEW s \in Seq(Nat), NEW i \in 1 .. Len(s), s[i] = 92, NEW w \in Nat \ {0}
  PROVE  EscapeAgrees(s, i, w)
<1> DEFINE u == SubSeq(s, i, i + w - 1)
           inside == i + w - 1 <= Len(s)
           b == At(s, i + 1)
           h == ParseHex4(s, i + 2)
           l == ParseHex4(s, i + 8)
           x == At(s, i + 6)
           y == At(s, i + 7)
           pair == Pair(h, l)
           width == EscapeWidth(s, i)
           bytes == UnitBytes(s, i)
           High_ == Grammar!High
           Low_ == Grammar!Low
           denoted == Grammar!Denoted(u)
<1>1. width = IF b \in DOMAIN Escape THEN 2
              ELSE IF b = 117 /\ h >= 0 /\ h \notin High_ \cup Low_ THEN 6
              ELSE IF b = 117 /\ x = 92 /\ y = 117 /\ h \in High_ /\ l \in Low_ THEN 12
              ELSE 0
  BY EscapeWidths
<1>2. UnitWidth(s, i) = width
  BY DEF UnitWidth, Backslash
<1>3. bytes = CASE width = 2 -> <<Escape[b]>>
                [] width = 6 -> EncodeCodepoint(h)
                [] OTHER -> EncodeCodepoint(65536 + (h - 55296) * 1024 + (l - 56320))
  <2>1. i + 1 \in DOMAIN s => b = s[i + 1]
    BY DEF At
  <2>2. width = 2 => i + 1 \in DOMAIN s
    <3>1. b = -1 => b \notin DOMAIN Escape /\ b # 117
      <4>1. -1 \notin DOMAIN Escape
        BY EscapedByte
      <4> HIDE DEF b
      <4> QED  BY <4>1
    <3>2. i + 1 \notin DOMAIN s => b = -1
      BY DEF At
    <3> HIDE DEF width, b, h, l, x, y
    <3> QED  BY <1>1, <3>1, <3>2
  <2>3. bytes = CASE width = 2 -> <<Escape[s[i + 1]]>>
                  [] width = 6 -> EncodeCodepoint(h)
                  [] OTHER -> EncodeCodepoint(65536 + (h - 55296) * 1024 + (l - 56320))
    BY DEF UnitBytes, Backslash
  <2> HIDE DEF width, h, l, bytes, b
  <2> QED  BY <2>1, <2>2, <2>3
<1>4. /\ h \in Int /\ -1 <= h /\ h <= 65535 /\ (h >= 0 => i + 5 <= Len(s))
      /\ l \in Int /\ -1 <= l /\ l <= 65535 /\ (l >= 0 => i + 11 <= Len(s))
      /\ h = Hexed(At(s, i + 2), At(s, i + 3), At(s, i + 4), At(s, i + 5))
      /\ l = Hexed(At(s, i + 8), At(s, i + 9), At(s, i + 10), At(s, i + 11))
  <2>1. /\ i + 2 \in Nat \ {0} /\ i + 8 \in Nat \ {0}
        /\ (i + 2) + 1 = i + 3 /\ (i + 2) + 2 = i + 4 /\ (i + 2) + 3 = i + 5
        /\ (i + 8) + 1 = i + 9 /\ (i + 8) + 2 = i + 10 /\ (i + 8) + 3 = i + 11
    OBVIOUS
  <2>2. ASSUME NEW j \in Nat \ {0}
        PROVE  /\ ParseHex4(s, j) = Hexed(At(s, j), At(s, j + 1), At(s, j + 2), At(s, j + 3))
               /\ ParseHex4(s, j) >= 0 => j + 3 <= Len(s)
    BY HexParsed
  <2> DEFINE j == i + 2
             k == i + 8
  <2>3. /\ j \in Nat \ {0} /\ j + 1 = i + 3 /\ j + 2 = i + 4 /\ j + 3 = i + 5
        /\ k \in Nat \ {0} /\ k + 1 = i + 9 /\ k + 2 = i + 10 /\ k + 3 = i + 11
    OBVIOUS
  <2> HIDE DEF j, k
  <2>4. /\ ParseHex4(s, j) = Hexed(At(s, j), At(s, i + 3), At(s, i + 4), At(s, i + 5))
        /\ ParseHex4(s, j) >= 0 => i + 5 <= Len(s)
    BY <2>2, <2>3
  <2>5. /\ ParseHex4(s, k) = Hexed(At(s, k), At(s, i + 9), At(s, i + 10), At(s, i + 11))
        /\ ParseHex4(s, k) >= 0 => i + 11 <= Len(s)
    BY <2>2, <2>3
  <2>6. ASSUME NEW n \in Int PROVE At(s, n) \in Int
    BY DEF At
  <2>7. /\ At(s, j) \in Int /\ At(s, i + 3) \in Int /\ At(s, i + 4) \in Int /\ At(s, i + 5) \in Int
        /\ At(s, k) \in Int /\ At(s, i + 9) \in Int /\ At(s, i + 10) \in Int /\ At(s, i + 11) \in Int
    <3>1. /\ j \in Int /\ i + 3 \in Int /\ i + 4 \in Int /\ i + 5 \in Int
          /\ k \in Int /\ i + 9 \in Int /\ i + 10 \in Int /\ i + 11 \in Int
      BY <2>3
    <3> QED  BY ONLY <2>6, <3>1
  <2>8. /\ ParseHex4(s, j) \in Int /\ -1 <= ParseHex4(s, j) /\ ParseHex4(s, j) <= 65535
        /\ ParseHex4(s, k) \in Int /\ -1 <= ParseHex4(s, k) /\ ParseHex4(s, k) <= 65535
    <3>1. SixteenBits(ParseHex4(s, j)) /\ SixteenBits(ParseHex4(s, k))
      <4>1. SixteenBits(Hexed(At(s, j), At(s, i + 3), At(s, i + 4), At(s, i + 5)))
        BY ONLY <2>7, HexRange
      <4>2. SixteenBits(Hexed(At(s, k), At(s, i + 9), At(s, i + 10), At(s, i + 11)))
        BY ONLY <2>7, HexRange
      <4> QED  BY <2>4, <2>5, <4>1, <4>2
    <3> QED  BY <3>1 DEF SixteenBits
  <2> QED  BY <2>4, <2>5, <2>8 DEF j, k
<1>5. b \in DOMAIN Escape \cup {117} => i + 1 <= Len(s)
  <2>1. -1 \notin DOMAIN Escape
    BY EscapedByte
  <2> QED  BY <2>1 DEF At
<1>6. inside =>
        denoted = IF w = 2 /\ b \in DOMAIN Escape THEN Escape[b]
                  ELSE IF w = 6 /\ b = 117 /\ h \notin High_ \cup Low_ THEN h
                  ELSE IF /\ w = 12 /\ b = 117 /\ x = 92 /\ y = 117
                          /\ h \in High_ /\ l \in Low_
                       THEN pair
                  ELSE -1
  <2> SUFFICES ASSUME inside PROVE
        denoted = IF w = 2 /\ b \in DOMAIN Escape THEN Escape[b]
                  ELSE IF w = 6 /\ b = 117 /\ h \notin High_ \cup Low_ THEN h
                  ELSE IF /\ w = 12 /\ b = 117 /\ x = 92 /\ y = 117
                          /\ h \in High_ /\ l \in Low_
                       THEN pair
                  ELSE -1
    OBVIOUS
  <2>1. u \in Seq(Nat) /\ Len(u) = w /\ u[1] = 92
    OBVIOUS
  <2>2. ASSUME NEW k \in 0..11, k < w PROVE u[k + 1] = At(s, i + k)
    BY <2>2 DEF At
  <2> DEFINE h_ == Hexed(u[3], u[4], u[5], u[6])
             l_ == Hexed(u[9], u[10], u[11], u[12])
  <2>3. denoted = IF w = 2 /\ u[2] \in DOMAIN Escape THEN Escape[u[2]]
                  ELSE IF w = 6 /\ u[2] = 117 /\ h_ \notin High_ \cup Low_ THEN h_
                  ELSE IF /\ w = 12 /\ u[2] = 117 /\ u[7] = 92 /\ u[8] = 117
                          /\ h_ \in High_ /\ l_ \in Low_
                       THEN Pair(h_, l_)
                  ELSE -1
    <3> HIDE DEF u
    <3>1. u \in Seq(Nat) /\ Len(u) = w /\ u[1] = 92 /\ w \in Nat \ {0}
      BY <2>1
    <3>2. Grammar!Denoted(u) = EscapeMeaning(w, u)
      BY ONLY <3>1, DenotedEscape
    <3> QED  BY ONLY <3>2 DEF EscapeMeaning
  <2> HIDE DEF u
  <2>4. w >= 2 => u[2] = b
    <3>1. 1 \in 0..11 /\ 1 + 1 = 2 /\ (w >= 2 => 1 < w)
      OBVIOUS
    <3> QED  BY <2>2, <3>1
  <2>5. w >= 6 => h_ = h
    <3>1. /\ 2 \in 0..11 /\ 3 \in 0..11 /\ 4 \in 0..11 /\ 5 \in 0..11
          /\ 2 + 1 = 3 /\ 3 + 1 = 4 /\ 4 + 1 = 5 /\ 5 + 1 = 6
          /\ (w >= 6 => 2 < w /\ 3 < w /\ 4 < w /\ 5 < w)
      OBVIOUS
    <3>2. w >= 6 => /\ u[3] = At(s, i + 2) /\ u[4] = At(s, i + 3)
                    /\ u[5] = At(s, i + 4) /\ u[6] = At(s, i + 5)
      BY <2>2, <3>1
    <3> QED  BY <1>4, <3>2
  <2>6. w >= 12 => u[7] = x /\ u[8] = y /\ l_ = l
    <3>1. /\ 6 \in 0..11 /\ 7 \in 0..11 /\ 8 \in 0..11 /\ 9 \in 0..11 /\ 10 \in 0..11 /\ 11 \in 0..11
          /\ 6 + 1 = 7 /\ 7 + 1 = 8 /\ 8 + 1 = 9 /\ 9 + 1 = 10 /\ 10 + 1 = 11 /\ 11 + 1 = 12
          /\ (w >= 12 => 6 < w /\ 7 < w /\ 8 < w /\ 9 < w /\ 10 < w /\ 11 < w)
      OBVIOUS
    <3>2. w >= 12 => /\ u[7] = x /\ u[8] = y
                     /\ u[9] = At(s, i + 8) /\ u[10] = At(s, i + 9)
                     /\ u[11] = At(s, i + 10) /\ u[12] = At(s, i + 11)
      BY <2>2, <3>1
    <3> QED  BY <1>4, <3>2
  <2>7. (w = 2 => w >= 2) /\ (w = 6 => w >= 2 /\ w >= 6) /\ (w = 12 => w >= 2 /\ w >= 6 /\ w >= 12)
    OBVIOUS
  <2> HIDE DEF denoted, b, h, l, x, y, h_, l_, inside
  <2> QED  BY <2>3, <2>4, <2>5, <2>6, <2>7
<1>7. /\ b \in DOMAIN Escape => Escape[b] \in Nat /\ b # 117
      /\ h \in High_ /\ l \in Low_ => pair \in Nat /\ Scalar(pair) /\ h >= 0 /\ l >= 0
                                      /\ pair = 65536 + (h - 55296) * 1024 + (l - 56320)
      /\ h \notin High_ \cup Low_ /\ h >= 0 => Scalar(h)
  <2>1. b \in DOMAIN Escape => Escape[b] \in Nat /\ b # 117
    BY EscapedByte
  <2> HIDE DEF b
  <2>2. h \in High_ /\ l \in Low_ => pair \in Nat /\ Scalar(pair) /\ h >= 0 /\ l >= 0
                                      /\ pair = 65536 + (h - 55296) * 1024 + (l - 56320)
    <3> SUFFICES ASSUME h \in High_, l \in Low_
                 PROVE  pair \in Nat /\ Scalar(pair) /\ h >= 0 /\ l >= 0
                        /\ pair = 65536 + (h - 55296) * 1024 + (l - 56320)
      OBVIOUS
    <3> HIDE DEF h, l
    <3>0. h \in Int /\ l \in Int /\ h \in 55296 .. 56319 /\ l \in 56320 .. 57343
      BY SMTT(30), <1>4 DEF Grammar!High, Grammar!Low
    <3>1. 55296 <= h /\ h <= 56319 /\ 56320 <= l /\ l <= 57343
      BY ONLY <3>0, SMT
    <3>2. /\ pair \in Nat /\ pair <= 1114111 /\ ~(55296 <= pair /\ pair <= 57343)
          /\ pair = 65536 + (h - 55296) * 1024 + (l - 56320)
      BY ONLY <3>0, <3>1, SMT DEF Pair
    <3>3. Scalar(pair)
      <4> HIDE DEF pair
      <4> QED  BY <3>2, Limits DEF Scalar
    <3>4. h >= 0 /\ l >= 0
      BY ONLY <3>0, <3>1, SMT
    <3> HIDE DEF pair
    <3> QED  BY <3>2, <3>3, <3>4
  <2>3. h \notin High_ \cup Low_ /\ h >= 0 => Scalar(h)
    <3> HIDE DEF h
    <3>1. h >= 0 => h \in Nat /\ h <= 1114111
      BY SMT, <1>4
    <3> QED  BY <3>1, Limits DEF Scalar
  <2> QED  BY <2>1, <2>2, <2>3
<1> HIDE DEF u, inside, b, h, l, x, y, pair, width, bytes, denoted
<1>8. width = w <=> inside /\ denoted >= 0
  <2>1. CASE w = 2
    <3>1. width = 2 <=> b \in DOMAIN Escape
      BY <1>1
    <3>2. b \in DOMAIN Escape => inside
      BY <1>5, <2>1 DEF inside
    <3>3. inside => denoted = IF b \in DOMAIN Escape THEN Escape[b] ELSE -1
      BY <1>6, <2>1
    <3> QED  BY <1>7, <2>1, <3>1, <3>2, <3>3
  <2>2. CASE w = 6
    <3>1. width = 6 <=> b = 117 /\ h >= 0 /\ h \notin High_ \cup Low_
      BY <1>1, <1>7
    <3>2. h >= 0 => inside
      BY <1>4, <2>2 DEF inside
    <3>3. inside => denoted = IF b = 117 /\ h \notin High_ \cup Low_ THEN h ELSE -1
      BY <1>6, <2>2
    <3>4. h \in Int
      BY <1>4
    <3> HIDE DEF High_, Low_
    <3> QED  BY <2>2, <3>1, <3>2, <3>3, <3>4
  <2>3. CASE w = 12
    <3> DEFINE both == b = 117 /\ x = 92 /\ y = 117 /\ h \in High_ /\ l \in Low_
    <3>1. width = 12 <=> both
      BY <1>1, <1>7
    <3>2. both => inside
      BY <1>4, <1>7, <2>3 DEF inside
    <3>3. inside => denoted = IF both THEN pair ELSE -1
      BY <1>6, <2>3
    <3> HIDE DEF High_, Low_
    <3>4. both => pair \in Nat
      BY <1>7
    <3> HIDE DEF both
    <3> QED  BY <2>3, <3>1, <3>2, <3>3, <3>4
  <2>4. CASE w # 2 /\ w # 6 /\ w # 12
    <3>1. width # w
      BY <1>1, <2>4
    <3>2. inside => denoted = -1
      BY <1>6, <2>4
    <3> QED  BY <3>1, <3>2
  <2> QED  BY <2>1, <2>2, <2>3, <2>4
<1>9. ASSUME width = w
      PROVE  bytes \in Seq(Nat) /\ bytes # <<>> /\ Grammar!CodePoint(bytes) = denoted
  <2>1. inside
    BY <1>8, <1>9
  <2>2. w \in {2, 6, 12}
    BY <1>1, <1>9
  <2>3. CASE w = 2
    <3>1. b \in DOMAIN Escape /\ bytes = <<Escape[b]>>
      BY <1>1, <1>3, <1>9, <2>3
    <3>2. denoted = Escape[b]
      BY <1>6, <2>1, <2>3, <3>1
    <3>3. <<Escape[b]>> # <<>>
      OBVIOUS
    <3> QED  BY <3>1, <3>2, <3>3, EscapedByte
  <2>4. CASE w = 6
    <3>1. b = 117 /\ h >= 0 /\ h \notin High_ \cup Low_ /\ bytes = EncodeCodepoint(h)
      BY <1>1, <1>3, <1>9, <2>4
    <3>2. denoted = h /\ Scalar(h)
      BY <1>6, <1>7, <2>1, <2>4, <3>1
    <3> QED  BY <3>1, <3>2, EncodingExact
  <2>5. CASE w = 12
    <3>1. /\ b = 117 /\ x = 92 /\ y = 117 /\ h \in High_ /\ l \in Low_
          /\ bytes = EncodeCodepoint(65536 + (h - 55296) * 1024 + (l - 56320))
      BY <1>1, <1>3, <1>9, <2>5
    <3>2. denoted = pair /\ Scalar(pair) /\ bytes = EncodeCodepoint(pair)
      BY <1>6, <1>7, <2>1, <2>5, <3>1
    <3> QED  BY <3>2, EncodingExact
  <2> QED  BY <2>2, <2>3, <2>4, <2>5
<1> QED  BY <1>2, <1>8, <1>9 DEF EscapeAgrees, u, inside, denoted, bytes, width

\* The scan of a string takes a character or escape exactly where the grammar has
\* one, and it is decoded to the bytes of the code point that it denotes.
THEOREM UnitsExact ==
  ASSUME NEW s \in Seq(Nat), NEW i \in 1 .. Len(s), s[i] # Quote, NEW w \in Nat \ {0}
  PROVE  LET u == SubSeq(s, i, i + w - 1)
         IN  /\ UnitWidth(s, i) = w <=> i + w - 1 <= Len(s) /\ Grammar!Denoted(u) >= 0
             /\ UnitWidth(s, i) = w =>
                  /\ UnitBytes(s, i) \in Seq(Nat) /\ UnitBytes(s, i) # <<>>
                  /\ Grammar!CodePoint(UnitBytes(s, i)) = Grammar!Denoted(u)
<1>1. CASE s[i] = 92
  <2>1. EscapeAgrees(s, i, w)
    BY <1>1, EscapedUnit
  <2> QED  BY <2>1 DEF EscapeAgrees
<1>2. CASE s[i] # 92
  <2>1. EscapeAgrees(s, i, w)
    BY <1>2, PlainUnit DEF Quote
  <2> QED  BY <2>1 DEF EscapeAgrees
<1> QED  BY <1>1, <1>2

-----------------------------------------------------------------------------
\* Reading from the left: the code points of a text and the meaning of a content.

\* Reading from the left: at each position either there is something that means a
\* number, as wide as it is, or nothing, and then the rest has no meaning.
Reads(n, width, code, f) ==
  f = [i \in 1 .. n + 1 |-> IF i > n THEN <<>> ELSE IF width[i] = 0 THEN <<-1>>
                            ELSE <<code[i]>> \o f[i + width[i]]]

Readable(n, width, code) ==
  /\ n \in Nat /\ width \in [1..n -> Nat] /\ code \in [1..n -> Int]
  /\ \A i \in 1..n : i + width[i] <= n + 1

LEMMA ReadingExists ==
  ASSUME NEW n, NEW width, NEW code, Readable(n, width, code)
  PROVE  /\ \E f : Reads(n, width, code, f)
         /\ \A f : Reads(n, width, code, f) => f \in [1 .. n + 1 -> Seq(Int)]
<1> DEFINE D == 1 .. n + 1
           R == Seq(Int)
           Goes == {i \in 1..n : width[i] # 0}
           to == [i \in Goes |-> i + width[i]]
           stop == [i \in D |-> IF i > n THEN <<>> ELSE <<-1>>]
           combine == [i \in Goes |-> [r \in R |-> <<code[i]>> \o r]]
           rank == [i \in D |-> n + 1 - i]
           bound == n + 1
           Body(f, i) == IF i > n THEN <<>> ELSE IF width[i] = 0 THEN <<-1>>
                         ELSE <<code[i]>> \o f[i + width[i]]
<1>1. /\ n \in Nat /\ width \in [1..n -> Nat] /\ code \in [1..n -> Int]
      /\ \A i \in 1..n : i + width[i] <= n + 1
  BY DEF Readable
<1>2. Recursive(D, R, Goes, to, stop, combine, rank, bound)
  <2>1. bound \in Nat /\ rank \in [D -> 0..bound] /\ Goes \subseteq D
    BY <1>1
  <2>2. ASSUME NEW i \in Goes PROVE to[i] \in D /\ rank[to[i]] < rank[i]
    <3>1. i \in 1..n /\ width[i] \in Nat /\ width[i] # 0 /\ i + width[i] <= n + 1
      BY <1>1
    <3>2. to[i] = i + width[i]
      OBVIOUS
    <3>3. to[i] \in Nat /\ to[i] > i /\ to[i] <= n + 1 /\ n \in Nat
      <4> HIDE DEF to
      <4> QED  BY <1>1, <3>1, <3>2
    <3>4. to[i] \in D /\ i \in D
      <4> HIDE DEF to, Goes
      <4> QED  BY <3>1, <3>3
    <3>5. \A d \in D : rank[d] = n + 1 - d
      OBVIOUS
    <3> HIDE DEF to, Goes, D, rank
    <3>6. rank[to[i]] = n + 1 - to[i] /\ rank[i] = n + 1 - i
      BY <3>4, <3>5
    <3> QED  BY <3>1, <3>3, <3>4, <3>6
  <2>3. to \in [Goes -> D] /\ \A i \in Goes : rank[to[i]] < rank[i]
    <3>1. to = [i \in Goes |-> to[i]]
      OBVIOUS
    <3> HIDE DEF to, Goes, D, rank
    <3> QED  BY <2>2, <3>1
  <2>4. stop \in [D -> R]
    OBVIOUS
  <2>5. combine \in [Goes -> [R -> R]]
    <3>1. ASSUME NEW i \in Goes, NEW r \in R PROVE <<code[i]>> \o r \in R
      BY <1>1
    <3> HIDE DEF Goes, R
    <3> QED  BY <3>1
  <2> HIDE DEF D, R, Goes, to, stop, combine, rank, bound
  <2> QED  BY <2>1, <2>3, <2>4, <2>5 DEF Recursive
<1>3. ASSUME NEW f, NEW i \in D
      PROVE  /\ i \notin Goes => Body(f, i) = stop[i]
             /\ i \in Goes /\ f[to[i]] \in R => Body(f, i) = combine[i][f[to[i]]]
  <2>1. CASE i > n
    <3>1. i \notin Goes
      BY <1>1, <2>1
    <3>2. Body(f, i) = <<>>
      BY <2>1
    <3>3. stop[i] = <<>>
      BY <2>1
    <3> HIDE DEF Goes, Body, stop
    <3> QED  BY <3>1, <3>2, <3>3
  <2>2. CASE ~(i > n) /\ width[i] = 0
    <3>1. i \notin Goes
      BY <2>2
    <3>2. Body(f, i) = <<-1>>
      BY <2>2
    <3>3. stop[i] = <<-1>>
      BY <2>2
    <3> HIDE DEF Goes, Body, stop
    <3> QED  BY <3>1, <3>2, <3>3
  <2>3. CASE ~(i > n) /\ width[i] # 0
    <3>1. i \in Goes /\ to[i] = i + width[i] /\ Body(f, i) = <<code[i]>> \o f[to[i]]
      <4>1. i \in Goes
        BY <1>1, <2>3
      <4>2. to[i] = i + width[i]
        BY <4>1
      <4>3. Body(f, i) = <<code[i]>> \o f[i + width[i]]
        BY <2>3
      <4> HIDE DEF Body, to, Goes
      <4> QED  BY <4>1, <4>2, <4>3
    <3>2. \A r \in R : combine[i][r] = <<code[i]>> \o r
      <4> HIDE DEF R
      <4> QED  BY <3>1
    <3> HIDE DEF R, to, combine, Goes, Body
    <3> QED  BY <3>1, <3>2
  <2> QED  BY <2>1, <2>2, <2>3
<1>4. \E f : Reads(n, width, code, f)
  <2>1. PICK f \in [D -> R] :
          \A d \in D : f[d] = IF d \in Goes THEN combine[d][f[to[d]]] ELSE stop[d]
    <3> HIDE DEF D, R, Goes, to, stop, combine, rank, bound
    <3> QED  BY ONLY <1>2, Recursion
  <2>2. f = [i \in D |-> Body(f, i)]
    <3>1. f = [d \in D |-> f[d]]
      BY <2>1
    <3>2. \A d \in Goes : f[to[d]] \in R /\ d \in D
      <4>1. \A d \in Goes : to[d] \in D /\ d \in D
        <5> HIDE DEF D, R, Goes, to, stop, combine, rank, bound
        <5> QED  BY <1>2 DEF Recursive
      <4> HIDE DEF D, R, Goes, to
      <4> QED  BY <2>1, <4>1
    <3> HIDE DEF D, R, Goes, to, stop, combine, Body
    <3>3. ASSUME NEW d \in D PROVE f[d] = Body(f, d)
      BY <1>3, <2>1, <3>2
    <3> QED  BY <3>1, <3>3
  <2>3. Reads(n, width, code, f)
    BY <2>2 DEF Reads
  <2> QED  BY <2>3
<1>5. ASSUME NEW f, Reads(n, width, code, f) PROVE f \in [1 .. n + 1 -> Seq(Int)]
  <2>1. f = [i \in D |-> Body(f, i)]
    BY <1>5 DEF Reads
  <2> HIDE DEF D, R, Goes, to, stop, combine, rank, bound, Body
  <2>2. \A i \in D \ Goes : f[i] = stop[i]
    BY <1>3, <2>1
  <2>3. Goes \subseteq D
    BY <1>2 DEF Recursive
  <2>4. \A i \in Goes : f[to[i]] \in R => f[i] = combine[i][f[to[i]]]
    BY <1>3, <2>1, <2>3
  <2>5. \A i \in D : f[i] \in R
    BY ONLY <1>2, <2>2, <2>4, RecursiveTyped
  <2>6. f \in [D -> R]
    BY <2>1, <2>5
  <2> QED  BY <2>6 DEF D, R
<1> QED  BY <1>4, <1>5

CharacterWidths(s) == [i \in 1 .. Len(s) |-> ValidUtf8Sequence(s, i)]
Characters(s) ==
  [i \in 1 .. Len(s) |->
     IF ValidUtf8Sequence(s, i) = 0 THEN -1
     ELSE Grammar!CodePoint(SubSeq(s, i, i + ValidUtf8Sequence(s, i) - 1))]

\* What the grammar looks for among all widths is what valid_utf8_sequence finds.
LEMMA OneWidth ==
  ASSUME NEW W, NEW w \in Nat, NEW bound \in Nat, W \subseteq 1..bound,
         \A x \in 1..bound : x \in W <=> w = x,
         w <= bound
  PROVE  /\ W = {} <=> w = 0
         /\ w # 0 => Grammar!Min(W) = w
<1>1. ASSUME w # 0 PROVE W = {w}
  <2>1. w \in 1..bound
    BY <1>1
  <2>2. w \in W
    BY <2>1
  <2>3. \A x \in W : x = w
    OBVIOUS
  <2> QED  BY <2>2, <2>3
<1>2. w = 0 => W = {}
  OBVIOUS
<1>3. w # 0 => Grammar!Min(W) = w
  BY <1>1 DEF Grammar!Min
<1> QED  BY <1>1, <1>2, <1>3

LEMMA SmallerOfTwo ==
  ASSUME NEW a \in Nat, NEW b \in Nat
  PROVE  Grammar!Min({a, b}) \in Nat /\ Grammar!Min({a, b}) = IF a <= b THEN a ELSE b
<1> DEFINE m == IF a <= b THEN a ELSE b
<1>1. m \in {a, b} /\ \A y \in {a, b} : m <= y
  OBVIOUS
<1>2. \A x \in {a, b} : (\A y \in {a, b} : x <= y) => x = m
  OBVIOUS
<1> HIDE DEF m
<1>3. Grammar!Min({a, b}) = m
  BY <1>1, <1>2 DEF Grammar!Min
<1> QED  BY <1>3 DEF m

LEMMA UnicodeReads ==
  ASSUME NEW s \in Seq(Nat)
  PROVE  /\ Readable(Len(s), CharacterWidths(s), Characters(s))
         /\ \E f : /\ Reads(Len(s), CharacterWidths(s), Characters(s), f)
                   /\ Grammar!Unicode(s) = f[1]
<1> DEFINE n == Len(s)
           width == CharacterWidths(s)
           code == Characters(s)
           W(i) == {w \in 1 .. Grammar!Min({4, n - i + 1}) :
                      Grammar!CodePoint(SubSeq(s, i, i + w - 1)) >= 0}
           Body(f, i) == IF i > n THEN <<>>
                         ELSE IF W(i) = {} THEN <<-1>>
                         ELSE <<Grammar!CodePoint(SubSeq(s, i, i + Grammar!Min(W(i)) - 1))>>
                                \o f[i + Grammar!Min(W(i))]
           Solves(f) == f = [i \in 1 .. n + 1 |-> Body(f, i)]
           from == CHOOSE f : Solves(f)
<1>1. ASSUME NEW i \in 1..n
      PROVE  /\ ValidUtf8Sequence(s, i) \in 0..4
             /\ i + ValidUtf8Sequence(s, i) <= n + 1
             /\ \A w \in Nat \ {0} :
                  ValidUtf8Sequence(s, i) = w <=>
                    i + w - 1 <= n /\ Grammar!CodePoint(SubSeq(s, i, i + w - 1)) >= 0
             /\ Characters(s)[i] \in Int
             /\ width[i] = ValidUtf8Sequence(s, i)
  <2> DEFINE v == ValidUtf8Sequence(s, i)
  <2>1. v \in 0..4
    BY UnitWidths
  <2>2. \A w \in Nat \ {0} : v = w <=>
          i + w - 1 <= n /\ Grammar!CodePoint(SubSeq(s, i, i + w - 1)) >= 0
    BY Utf8SequencesExact
  <2>3. width[i] = v
    BY DEF CharacterWidths
  <2>4. code[i] = IF v = 0 THEN -1 ELSE Grammar!CodePoint(SubSeq(s, i, i + v - 1))
    BY DEF Characters
  <2> HIDE DEF v, code, width
  <2>5. i + v <= n + 1
    <3>1. v # 0 => i + v - 1 <= n
      BY <2>1, <2>2
    <3> QED  BY <2>1, <3>1
  <2>6. code[i] \in Int
    <3>1. CASE v = 0
      BY <2>4, <3>1
    <3>2. CASE v # 0
      <4> DEFINE u == SubSeq(s, i, i + v - 1)
      <4>1. u \in Seq(Nat) /\ Len(u) = v /\ v \in Nat \ {0}
        <5>1. n \in Nat /\ i \in Nat /\ 1 <= i /\ Len(s) = n
          OBVIOUS
        <5>2. v \in Nat /\ 1 <= v /\ i + v - 1 <= n /\ i + v - 1 \in Int
          <6> HIDE DEF n
          <6> QED  BY <2>1, <2>5, <3>2, <5>1
        <5> HIDE DEF n
        <5>3. Len(u) = v
          BY <5>1, <5>2
        <5>4. u \in Seq(Nat)
          BY <5>1, <5>2
        <5> HIDE DEF u
        <5> QED  BY <5>2, <5>3, <5>4
      <4> HIDE DEF u
      <4>2. Grammar!CodePoint(u) \in Int
        BY <4>1, CodePointNatural
      <4> QED  BY <2>4, <3>2, <4>2 DEF u
    <3> QED  BY <3>1, <3>2
  <2> QED  BY <2>1, <2>2, <2>3, <2>5, <2>6 DEF v, code
<1>2. Readable(n, width, code)
  <2>1. width = [i \in 1..n |-> width[i]] /\ code = [i \in 1..n |-> code[i]]
    BY DEF CharacterWidths, Characters
  <2>2. n \in Nat
    OBVIOUS
  <2>3. \A i \in 1..n : width[i] \in Nat /\ code[i] \in Int /\ i + width[i] <= n + 1
    <3> HIDE DEF width, n
    <3> QED  BY <1>1
  <2> HIDE DEF n, width, code
  <2> QED  BY <2>1, <2>2, <2>3 DEF Readable
<1>3. ASSUME NEW f, NEW i \in 1 .. n + 1
      PROVE  Body(f, i) = IF i > n THEN <<>> ELSE IF width[i] = 0 THEN <<-1>>
                          ELSE <<code[i]>> \o f[i + width[i]]
  <2>1. CASE i > n
    BY <2>1
  <2>2. CASE ~(i > n)
    <3> DEFINE v == ValidUtf8Sequence(s, i)
               b == Grammar!Min({4, n - i + 1})
    <3>1. i \in 1..n /\ n - i + 1 \in Nat
      BY <2>2
    <3>2. b \in Nat /\ b <= 4 /\ b <= n - i + 1 /\ (4 <= b \/ n - i + 1 <= b)
      <4> DEFINE k == n - i + 1
      <4>1. Grammar!Min({4, k}) \in Nat /\ Grammar!Min({4, k}) = IF 4 <= k THEN 4 ELSE k
        <5> HIDE DEF k
        <5> QED  BY <3>1, SmallerOfTwo DEF k
      <4> HIDE DEF k
      <4>2. k \in Nat
        BY <3>1 DEF k
      <4> QED  BY <4>1, <4>2 DEF k
    <3>3. /\ v \in Nat /\ v <= b
          /\ \A x \in 1..b : x \in W(i) <=> v = x
      <4>1. v \in 0..4 /\ i + v <= n + 1
        BY <1>1, <3>1
      <4>2. n \in Nat /\ i \in Nat
        BY <3>1
      <4>3. v <= b
        <5> HIDE DEF v, b, n
        <5> QED  BY <3>2, <4>1, <4>2
      <4>4. ASSUME NEW x \in 1..b PROVE x \in W(i) <=> v = x
        <5>1. x \in Nat \ {0} /\ i + x - 1 <= n
          <6> HIDE DEF b, n
          <6> QED  BY <3>2, <4>2
        <5>2. v = x <=> i + x - 1 <= n /\ Grammar!CodePoint(SubSeq(s, i, i + x - 1)) >= 0
          <6> HIDE DEF v, n
          <6> QED  BY <1>1, <3>1, <5>1 DEF v
        <5>3. x \in W(i) <=> Grammar!CodePoint(SubSeq(s, i, i + x - 1)) >= 0
          OBVIOUS
        <5> QED  BY <5>1, <5>2, <5>3
      <4> HIDE DEF v, b, W
      <4> QED  BY <4>1, <4>3, <4>4
    <3>4. W(i) \subseteq 1..b
      OBVIOUS
    <3>5. width[i] = v /\ code[i] = IF v = 0 THEN -1
                                    ELSE Grammar!CodePoint(SubSeq(s, i, i + v - 1))
      BY <3>1 DEF CharacterWidths, Characters
    <3> HIDE DEF W, v, b
    <3>6. (W(i) = {} <=> v = 0) /\ (v # 0 => Grammar!Min(W(i)) = v)
      BY ONLY <3>2, <3>3, <3>4, OneWidth
    <3> HIDE DEF width, code, n
    <3> QED  BY <2>2, <3>5, <3>6
  <2> QED  BY <2>1, <2>2
<1>4. ASSUME NEW f PROVE Solves(f) <=> Reads(n, width, code, f)
  <2>1. [i \in 1 .. n + 1 |-> Body(f, i)]
          = [i \in 1 .. n + 1 |-> IF i > n THEN <<>> ELSE IF width[i] = 0 THEN <<-1>>
                                  ELSE <<code[i]>> \o f[i + width[i]]]
    <3> HIDE DEF n, width, code, Body
    <3> QED  BY <1>3
  <2> HIDE DEF n, width, code, Body
  <2> QED  BY <2>1 DEF Reads
<1>5. Solves(from)
  <2>1. \E f : Reads(n, width, code, f)
    <3> HIDE DEF n, width, code
    <3> QED  BY <1>2, ReadingExists
  <2> HIDE DEF n, width, code, Solves
  <2> QED  BY <1>4, <2>1
<1>6. Grammar!Unicode(s) = from[1]
  BY DEF Grammar!Unicode
<1>7. Reads(n, width, code, from)
  <2> HIDE DEF n, width, code, Solves, from
  <2> QED  BY <1>4, <1>5
<1> QED  BY <1>2, <1>6, <1>7

ContentWidth(c, i) == IF c[i] = Quote THEN 0 ELSE UnitWidth(c, i)
UnitWidthsOf(c) == [i \in 1 .. Len(c) |-> ContentWidth(c, i)]
Units(c) ==
  [i \in 1 .. Len(c) |->
     IF ContentWidth(c, i) = 0 THEN -1
     ELSE Grammar!Denoted(SubSeq(c, i, i + ContentWidth(c, i) - 1))]

LEMMA WidthOfUnit ==
  ASSUME NEW c \in Seq(Nat), NEW i \in 1 .. Len(c)
  PROVE  /\ ContentWidth(c, i) \in 0..12
         /\ \A w \in Nat \ {0} :
              ContentWidth(c, i) = w <=>
                i + w - 1 <= Len(c) /\ Grammar!Denoted(SubSeq(c, i, i + w - 1)) >= 0
         /\ ContentWidth(c, i) # 0 =>
              Grammar!Denoted(SubSeq(c, i, i + ContentWidth(c, i) - 1)) \in Nat
<1> DEFINE v == ContentWidth(c, i)
<1>1. UnitWidth(c, i) \in 0..12
  BY UnitWidths
<1>2. CASE c[i] = Quote
  <2>1. v = 0
    BY <1>2 DEF ContentWidth
  <2>2. ASSUME NEW w \in Nat \ {0}, i + w - 1 <= Len(c)
        PROVE  Grammar!Denoted(SubSeq(c, i, i + w - 1)) = -1
    <3> DEFINE u == SubSeq(c, i, i + w - 1)
    <3>1. u[1] = c[i]
      BY <2>2
    <3> HIDE DEF u
    <3>2. Grammar!Denoted(u) = -1
      BY <1>2, <3>1 DEF Grammar!Denoted, Quote
    <3> QED  BY <3>2 DEF u
  <2>3. ASSUME NEW w \in Nat \ {0}
        PROVE  v = w <=> i + w - 1 <= Len(c) /\ Grammar!Denoted(SubSeq(c, i, i + w - 1)) >= 0
    <3>1. v # w
      BY <2>1
    <3>2. ~(-1 >= 0)
      OBVIOUS
    <3> HIDE DEF v
    <3> QED  BY <2>2, <3>1, <3>2
  <2>4. v \in 0..12
    BY <2>1
  <2> HIDE DEF v
  <2> QED  BY <2>1, <2>3, <2>4 DEF v
<1>3. CASE c[i] # Quote
  <2>1. v = UnitWidth(c, i)
    BY <1>3 DEF ContentWidth
  <2>2. \A w \in Nat \ {0} :
          v = w <=> i + w - 1 <= Len(c) /\ Grammar!Denoted(SubSeq(c, i, i + w - 1)) >= 0
    BY <1>3, <2>1, UnitsExact
  <2>3. v # 0 => Grammar!Denoted(SubSeq(c, i, i + v - 1)) \in Nat
    <3>1. CASE v # 0
      <4>1. v \in Nat \ {0}
        BY <1>1, <2>1, <3>1
      <4> DEFINE bytes == UnitBytes(c, i)
      <4>2. bytes \in Seq(Nat) /\ bytes # <<>>
            /\ Grammar!CodePoint(bytes) = Grammar!Denoted(SubSeq(c, i, i + v - 1))
        BY <1>3, <2>1, <4>1, UnitsExact
      <4>3. Grammar!Denoted(SubSeq(c, i, i + v - 1)) >= 0
        BY <2>2, <4>1
      <4> HIDE DEF bytes
      <4>4. Len(bytes) \in Nat \ {0}
        BY <4>2
      <4>5. Grammar!CodePoint(bytes) \in Nat \cup {-1}
        BY <4>2, <4>4, CodePointNatural
      <4> QED  BY <4>2, <4>3, <4>5
    <3> QED  BY <3>1
  <2> HIDE DEF v
  <2> QED  BY <1>1, <2>1, <2>2, <2>3 DEF v
<1> QED  BY <1>2, <1>3

LEMMA MeaningReads ==
  ASSUME NEW c \in Seq(Nat)
  PROVE  /\ Readable(Len(c), UnitWidthsOf(c), Units(c))
         /\ \E f : /\ Reads(Len(c), UnitWidthsOf(c), Units(c), f)
                   /\ Grammar!Meaning(c) = f[1]
<1> DEFINE n == Len(c)
           width == UnitWidthsOf(c)
           code == Units(c)
           W(i) == {w \in 1 .. Grammar!Min({12, n - i + 1}) :
                      Grammar!Denoted(SubSeq(c, i, i + w - 1)) >= 0}
           Body(f, i) == IF i > n THEN <<>>
                         ELSE IF W(i) = {} THEN <<-1>>
                         ELSE <<Grammar!Denoted(SubSeq(c, i, i + Grammar!Min(W(i)) - 1))>>
                                \o f[i + Grammar!Min(W(i))]
           Solves(f) == f = [i \in 1 .. n + 1 |-> Body(f, i)]
           from == CHOOSE f : Solves(f)
<1>1. ASSUME NEW i \in 1..n
      PROVE  /\ ContentWidth(c, i) \in 0..12
             /\ i + ContentWidth(c, i) <= n + 1
             /\ \A w \in Nat \ {0} :
                  ContentWidth(c, i) = w <=>
                    i + w - 1 <= n /\ Grammar!Denoted(SubSeq(c, i, i + w - 1)) >= 0
             /\ code[i] \in Int
             /\ width[i] = ContentWidth(c, i)
  <2> DEFINE v == ContentWidth(c, i)
  <2>1. v \in 0..12
    BY WidthOfUnit
  <2>2. \A w \in Nat \ {0} : v = w <=>
          i + w - 1 <= n /\ Grammar!Denoted(SubSeq(c, i, i + w - 1)) >= 0
    BY WidthOfUnit
  <2>3. width[i] = v
    BY DEF UnitWidthsOf
  <2>4. code[i] = IF v = 0 THEN -1 ELSE Grammar!Denoted(SubSeq(c, i, i + v - 1))
    BY DEF Units
  <2>5. v # 0 => Grammar!Denoted(SubSeq(c, i, i + v - 1)) \in Nat
    BY WidthOfUnit
  <2> HIDE DEF v, code, width
  <2>6. i + v <= n + 1
    <3>1. v # 0 => i + v - 1 <= n
      BY <2>1, <2>2
    <3> QED  BY <2>1, <3>1
  <2>7. code[i] \in Int
    BY <2>4, <2>5
  <2> QED  BY <2>1, <2>2, <2>3, <2>6, <2>7 DEF v
<1>2. Readable(n, width, code)
  <2>1. width = [i \in 1..n |-> width[i]] /\ code = [i \in 1..n |-> code[i]]
    BY DEF UnitWidthsOf, Units
  <2>2. n \in Nat
    OBVIOUS
  <2>3. \A i \in 1..n : width[i] \in Nat /\ code[i] \in Int /\ i + width[i] <= n + 1
    <3> HIDE DEF width, n
    <3> QED  BY SMTT(30), <1>1
  <2> HIDE DEF n, width, code
  <2> QED  BY <2>1, <2>2, <2>3 DEF Readable
<1>3. ASSUME NEW f, NEW i \in 1 .. n + 1
      PROVE  Body(f, i) = IF i > n THEN <<>> ELSE IF width[i] = 0 THEN <<-1>>
                          ELSE <<code[i]>> \o f[i + width[i]]
  <2>1. CASE i > n
    BY <2>1
  <2>2. CASE ~(i > n)
    <3> DEFINE v == ContentWidth(c, i)
               b == Grammar!Min({12, n - i + 1})
    <3>1. i \in 1..n /\ n - i + 1 \in Nat
      BY <2>2
    <3>2. b \in Nat /\ b <= 12 /\ b <= n - i + 1 /\ (12 <= b \/ n - i + 1 <= b)
      <4> DEFINE k == n - i + 1
      <4>1. Grammar!Min({12, k}) \in Nat /\ Grammar!Min({12, k}) = IF 12 <= k THEN 12 ELSE k
        <5> HIDE DEF k
        <5> QED  BY <3>1, SmallerOfTwo DEF k
      <4> HIDE DEF k
      <4>2. k \in Nat
        BY <3>1 DEF k
      <4> QED  BY <4>1, <4>2 DEF k
    <3>3. /\ v \in Nat /\ v <= b
          /\ \A x \in 1..b : x \in W(i) <=> v = x
      <4>1. v \in 0..12 /\ i + v <= n + 1
        BY <1>1, <3>1
      <4>2. n \in Nat /\ i \in Nat
        BY <3>1
      <4>3. v <= b
        <5> HIDE DEF v, b, n
        <5> QED  BY <3>2, <4>1, <4>2
      <4>4. ASSUME NEW x \in 1..b PROVE x \in W(i) <=> v = x
        <5>1. x \in Nat \ {0} /\ i + x - 1 <= n
          <6> HIDE DEF b, n
          <6> QED  BY <3>2, <4>2
        <5>2. v = x <=> i + x - 1 <= n /\ Grammar!Denoted(SubSeq(c, i, i + x - 1)) >= 0
          <6> HIDE DEF v, n
          <6> QED  BY <1>1, <3>1, <5>1 DEF v
        <5>3. x \in W(i) <=> Grammar!Denoted(SubSeq(c, i, i + x - 1)) >= 0
          OBVIOUS
        <5> QED  BY <5>1, <5>2, <5>3
      <4> HIDE DEF v, b, W
      <4> QED  BY <4>1, <4>3, <4>4
    <3>4. W(i) \subseteq 1..b
      OBVIOUS
    <3>5. width[i] = v /\ code[i] = IF v = 0 THEN -1
                                    ELSE Grammar!Denoted(SubSeq(c, i, i + v - 1))
      BY <3>1 DEF UnitWidthsOf, Units
    <3> HIDE DEF W, v, b
    <3>6. (W(i) = {} <=> v = 0) /\ (v # 0 => Grammar!Min(W(i)) = v)
      BY ONLY <3>2, <3>3, <3>4, OneWidth
    <3> HIDE DEF width, code, n
    <3> QED  BY <2>2, <3>5, <3>6
  <2> QED  BY <2>1, <2>2
<1>4. ASSUME NEW f PROVE Solves(f) <=> Reads(n, width, code, f)
  <2>1. [i \in 1 .. n + 1 |-> Body(f, i)]
          = [i \in 1 .. n + 1 |-> IF i > n THEN <<>> ELSE IF width[i] = 0 THEN <<-1>>
                                  ELSE <<code[i]>> \o f[i + width[i]]]
    <3> HIDE DEF n, width, code, Body
    <3> QED  BY <1>3
  <2> HIDE DEF n, width, code, Body
  <2> QED  BY <2>1 DEF Reads
<1>5. Solves(from)
  <2>1. \E f : Reads(n, width, code, f)
    <3> HIDE DEF n, width, code
    <3> QED  BY <1>2, ReadingExists
  <2> HIDE DEF n, width, code, Solves
  <2> QED  BY <1>4, <2>1
<1>6. Grammar!Meaning(c) = from[1]
  BY DEF Grammar!Meaning
<1>7. Reads(n, width, code, from)
  <2> HIDE DEF n, width, code, Solves, from
  <2> QED  BY <1>4, <1>5
<1> QED  BY <1>2, <1>6, <1>7

LEMMA ReadEquations ==
  ASSUME NEW n, NEW width, NEW code, Readable(n, width, code),
         NEW f, Reads(n, width, code, f)
  PROVE  /\ f[n + 1] = <<>>
         /\ \A i \in 1..n : f[i] = IF width[i] = 0 THEN <<-1>> ELSE <<code[i]>> \o f[i + width[i]]
         /\ \A i \in 1 .. n + 1 : f[i] \in Seq(Int)
         /\ \A i \in 1..n : i + width[i] \in 1 .. n + 1 /\ width[i] \in Nat /\ code[i] \in Int
<1>1. n \in Nat /\ \A i \in 1..n : width[i] \in Nat /\ code[i] \in Int /\ i + width[i] <= n + 1
  BY DEF Readable
<1>2. \A i \in 1 .. n + 1 : f[i] \in Seq(Int)
  <2>1. f \in [1 .. n + 1 -> Seq(Int)]
    BY ReadingExists
  <2> QED  BY <2>1
<1> DEFINE Body(i) == IF i > n THEN <<>> ELSE IF width[i] = 0 THEN <<-1>>
                      ELSE <<code[i]>> \o f[i + width[i]]
<1>3. f = [i \in 1 .. n + 1 |-> Body(i)]
  BY DEF Reads
<1> HIDE DEF Body
<1>4. \A i \in 1 .. n + 1 : f[i] = Body(i)
  BY <1>3
<1> USE DEF Body
<1>5. f[n + 1] = <<>>
  <2>1. n + 1 \in 1 .. n + 1 /\ n + 1 > n
    BY <1>1
  <2> QED  BY <1>4, <2>1
<1>6. ASSUME NEW i \in 1..n
      PROVE  f[i] = IF width[i] = 0 THEN <<-1>> ELSE <<code[i]>> \o f[i + width[i]]
  <2>1. i \in 1 .. n + 1 /\ ~(i > n)
    BY <1>1
  <2> QED  BY <1>4, <2>1
<1>7. ASSUME NEW i \in 1..n PROVE i + width[i] \in 1 .. n + 1
  BY <1>1
<1> QED  BY <1>1, <1>2, <1>5, <1>6, <1>7

\* A text that ends like another is read like it there.
LEMMA ReadsTheSame ==
  ASSUME NEW n, NEW width, NEW code, Readable(n, width, code),
         NEW f, Reads(n, width, code, f),
         NEW m \in Nat, NEW width2, NEW code2, Readable(m + n, width2, code2),
         NEW g, Reads(m + n, width2, code2, g),
         \A i \in 1..n : width2[m + i] = width[i] /\ code2[m + i] = code[i]
  PROVE  \A i \in 1 .. n + 1 : g[m + i] = f[i]
<1> DEFINE D == 1 .. n + 1
           rank == [i \in D |-> n + 1 - i]
           P == {i \in D : g[m + i] = f[i]}
<1>1. n \in Nat
  BY DEF Readable
<1>2. /\ f[n + 1] = <<>>
      /\ \A i \in 1..n : f[i] = IF width[i] = 0 THEN <<-1>> ELSE <<code[i]>> \o f[i + width[i]]
      /\ \A i \in 1..n : i + width[i] \in 1 .. n + 1 /\ width[i] \in Nat
  BY ReadEquations
<1>3. /\ g[(m + n) + 1] = <<>>
      /\ \A j \in 1 .. m + n : g[j] = IF width2[j] = 0 THEN <<-1>>
                                      ELSE <<code2[j]>> \o g[j + width2[j]]
  BY ReadEquations
<1>4. ASSUME NEW i \in D, \A e \in D : rank[e] < rank[i] => e \in P PROVE i \in P
  <2>1. CASE i = n + 1
    <3>1. m + i = (m + n) + 1
      BY <1>1, <2>1
    <3> QED  BY <1>2, <1>3, <2>1, <3>1
  <2>2. CASE i # n + 1
    <3>1. i \in 1..n /\ m + i \in 1 .. m + n
      BY <1>1, <2>2
    <3>2. width2[m + i] = width[i] /\ code2[m + i] = code[i]
      BY <3>1
    <3>3. f[i] = IF width[i] = 0 THEN <<-1>> ELSE <<code[i]>> \o f[i + width[i]]
      BY <1>2, <3>1
    <3>4. g[m + i] = IF width[i] = 0 THEN <<-1>> ELSE <<code[i]>> \o g[(m + i) + width[i]]
      BY <1>3, <3>1, <3>2
    <3>5. CASE width[i] = 0
      BY <3>3, <3>4, <3>5
    <3>6. CASE width[i] # 0
      <4> DEFINE k == i + width[i]
      <4>1. k \in D /\ k > i /\ k \in Int /\ (m + i) + width[i] = m + k
        BY <1>1, <1>2, <3>1, <3>6
      <4> HIDE DEF k
      <4>2. rank[k] < rank[i]
        BY <1>1, <3>1, <4>1
      <4>3. g[m + k] = f[k]
        BY <1>4, <4>1, <4>2
      <4> QED  BY <3>3, <3>4, <3>6, <4>1, <4>3 DEF k
    <3> QED  BY <3>5, <3>6
  <2> QED  BY <2>1, <2>2
<1>5. rank \in [D -> Nat]
  BY <1>1
<1>6. D \subseteq P
  <2> HIDE DEF D, P, rank
  <2> QED  BY ONLY <1>4, <1>5, RankInduction
<1> QED  BY <1>6

LEMMA CodePointInteger ==
  ASSUME NEW u \in Seq(Nat), u # <<>>
  PROVE  Grammar!CodePoint(u) \in Int /\ (Grammar!CodePoint(u) >= 0 => Grammar!CodePoint(u) \in Nat)
<1>1. PICK n \in Nat \ {0} : Len(u) = n
  OBVIOUS
<1>2. Grammar!CodePoint(u) \in Nat \cup {-1}
  BY <1>1, CodePointNatural
<1> QED  BY <1>2

LEMMA UnicodeEmpty == Grammar!Unicode(<<>>) = <<>>
<1> DEFINE t == <<>>
<1>1. t \in Seq(Nat) /\ Len(t) = 0
  OBVIOUS
<1> HIDE DEF t
<1>2. Readable(0, CharacterWidths(t), Characters(t))
  BY <1>1, UnicodeReads
<1>3. PICK f : Reads(0, CharacterWidths(t), Characters(t), f) /\ Grammar!Unicode(t) = f[1]
  BY <1>1, UnicodeReads
<1>4. f[0 + 1] = <<>>
  BY <1>2, <1>3, ReadEquations
<1>5. f[1] = <<>>
  BY <1>4
<1> QED  BY <1>3, <1>5 DEF t

LEMMA Suffix ==
  ASSUME NEW c \in Seq(Nat), NEW t \in Seq(Nat), NEW i \in 1 .. Len(t)
  PROVE  /\ ValidUtf8Sequence(c \o t, Len(c) + i) = ValidUtf8Sequence(t, i)
         /\ \A w \in Nat : i + w - 1 <= Len(t) =>
              SubSeq(c \o t, Len(c) + i, (Len(c) + i) + w - 1) = SubSeq(t, i, i + w - 1)
<1> DEFINE s == c \o t
           m == Len(c)
           n == Len(t)
<1>1. s \in Seq(Nat) /\ Len(s) = m + n /\ m \in Nat /\ n \in Nat
  OBVIOUS
<1>2. \A j \in 1..n : s[m + j] = t[j]
  OBVIOUS
<1>3. \A j \in Nat \ {0} : At(s, m + j) = At(t, j)
  <2>1. DOMAIN s = 1 .. m + n /\ DOMAIN t = 1..n
    BY <1>1
  <2> HIDE DEF s, m, n
  <2> QED  BY <1>1, <1>2, <2>1 DEF At
<1> HIDE DEF s, m, n
<1>4. n = Len(t) /\ i \in 1..n
  BY DEF n
<1>5. ValidUtf8Sequence(s, m + i) = ValidUtf8Sequence(t, i)
  <2>1. s[m + i] = t[i]
    BY <1>2, <1>4
  <2>2. At(s, (m + i) + 1) = At(t, i + 1) /\ At(s, (m + i) + 2) = At(t, i + 2)
        /\ At(s, (m + i) + 3) = At(t, i + 3)
    <3>1. /\ i + 1 \in Nat \ {0} /\ (m + i) + 1 = m + (i + 1)
          /\ i + 2 \in Nat \ {0} /\ (m + i) + 2 = m + (i + 2)
          /\ i + 3 \in Nat \ {0} /\ (m + i) + 3 = m + (i + 3)
      BY <1>1, <1>4
    <3> QED  BY <1>3, <3>1
  <2>3. m + i \in 1 .. Len(s)
    BY <1>1, <1>4
  <2>4. ValidUtf8Sequence(s, m + i)
          = Width(s[m + i], At(s, (m + i) + 1), At(s, (m + i) + 2), At(s, (m + i) + 3))
    BY <1>1, <2>3, SequenceWidth
  <2>5. ValidUtf8Sequence(t, i) = Width(t[i], At(t, i + 1), At(t, i + 2), At(t, i + 3))
    BY SequenceWidth
  <2> QED  BY <2>1, <2>2, <2>4, <2>5
<1>6. ASSUME NEW w \in Nat, i + w - 1 <= n
      PROVE  SubSeq(s, m + i, (m + i) + w - 1) = SubSeq(t, i, i + w - 1)
  <2> DEFINE u == SubSeq(s, m + i, (m + i) + w - 1)
             v == SubSeq(t, i, i + w - 1)
  <2>1. u = [k \in 1..w |-> s[(m + i) + k - 1]]
    <3> DEFINE j == m + i
    <3>1. j \in Nat /\ 1 <= j /\ j + w - 1 <= Len(s) /\ j + w - 1 \in Int
      BY <1>1, <1>4, <1>6
    <3> HIDE DEF j
    <3>2. SubSeq(s, j, j + w - 1) = [k \in 1..w |-> s[j + k - 1]]
      BY <1>1, <3>1
    <3> QED  BY <3>2 DEF j
  <2>2. v = [k \in 1..w |-> t[i + k - 1]]
    BY <1>1, <1>4, <1>6
  <2>3. ASSUME NEW k \in 1..w PROVE s[(m + i) + k - 1] = t[i + k - 1]
    <3>1. i + k - 1 \in 1..n /\ (m + i) + k - 1 = m + (i + k - 1)
      BY <1>1, <1>4, <1>6
    <3> QED  BY <1>2, <3>1
  <2> HIDE DEF u, v
  <2>4. u = v
    BY <2>1, <2>2, <2>3
  <2> QED  BY <2>4 DEF u, v
<1> QED  BY <1>4, <1>5, <1>6 DEF s, m

LEMMA UnicodeStep ==
  ASSUME NEW c \in Seq(Nat), c # <<>>, NEW t \in Seq(Nat), Grammar!CodePoint(c) >= 0
  PROVE  Grammar!Unicode(c \o t) = <<Grammar!CodePoint(c)>> \o Grammar!Unicode(t)
<1> DEFINE s == c \o t
           m == Len(c)
           n == Len(t)
<1>1. s \in Seq(Nat) /\ Len(s) = m + n /\ m \in Nat \ {0} /\ n \in Nat
  OBVIOUS
<1>2. ASSUME NEW i \in 1..n
      PROVE  /\ CharacterWidths(s)[m + i] = CharacterWidths(t)[i]
             /\ Characters(s)[m + i] = Characters(t)[i]
  <2> DEFINE v == ValidUtf8Sequence(t, i)
  <2>1. ValidUtf8Sequence(s, m + i) = v
    BY Suffix
  <2>2. v \in 0..4 /\ (v # 0 => i + v - 1 <= n)
    <3>1. v \in 0..4
      BY UnitWidths
    <3>2. v # 0 => v \in Nat \ {0}
      BY <3>1
    <3>3. v # 0 => i + v - 1 <= n
      BY <3>2, Utf8SequencesExact
    <3> QED  BY <3>1, <3>3
  <2>3. v # 0 => SubSeq(s, m + i, (m + i) + v - 1) = SubSeq(t, i, i + v - 1)
    <3>1. v \in Nat
      BY <2>2
    <3> HIDE DEF v
    <3> QED  BY <2>2, <3>1, Suffix
  <2>4. m + i \in 1 .. Len(s)
    BY <1>1
  <2>5. /\ CharacterWidths(s)[m + i] = ValidUtf8Sequence(s, m + i)
        /\ Characters(s)[m + i] =
             IF ValidUtf8Sequence(s, m + i) = 0 THEN -1
             ELSE Grammar!CodePoint(SubSeq(s, m + i, (m + i) + ValidUtf8Sequence(s, m + i) - 1))
    <3> HIDE DEF s, m
    <3> QED  BY <2>4 DEF CharacterWidths, Characters
  <2>6. /\ CharacterWidths(t)[i] = v
        /\ Characters(t)[i] = IF v = 0 THEN -1 ELSE Grammar!CodePoint(SubSeq(t, i, i + v - 1))
    BY DEF CharacterWidths, Characters
  <2> HIDE DEF v, s, m, n
  <2> QED  BY <2>1, <2>3, <2>5, <2>6
<1>3. /\ Readable(n, CharacterWidths(t), Characters(t))
      /\ Readable(m + n, CharacterWidths(s), Characters(s))
  <2> HIDE DEF s, m
  <2> QED  BY <1>1, UnicodeReads
<1>4. PICK f : Reads(n, CharacterWidths(t), Characters(t), f) /\ Grammar!Unicode(t) = f[1]
  BY UnicodeReads
<1>5. PICK g : Reads(m + n, CharacterWidths(s), Characters(s), g) /\ Grammar!Unicode(s) = g[1]
  <2> HIDE DEF s, m
  <2> QED  BY <1>1, UnicodeReads
<1>6. g[m + 1] = f[1]
  <2>1. \A i \in 1 .. n + 1 : g[m + i] = f[i]
    <3> DEFINE width == CharacterWidths(t)
               code == Characters(t)
               width2 == CharacterWidths(s)
               code2 == Characters(s)
    <3>1. m \in Nat
      BY <1>1
    <3>2. \A i \in 1..n : width2[m + i] = width[i] /\ code2[m + i] = code[i]
      BY <1>2
    <3>3. /\ Readable(n, width, code) /\ Readable(m + n, width2, code2)
          /\ Reads(n, width, code, f) /\ Reads(m + n, width2, code2, g)
      BY <1>3, <1>4, <1>5
    <3> HIDE DEF s, m, n, width, code, width2, code2
    <3> QED  BY ONLY SMTT(30), <3>1, <3>2, <3>3, ReadsTheSame
  <2>2. 1 \in 1 .. n + 1
    BY <1>1
  <2> QED  BY <2>1, <2>2
<1>7. ValidUtf8Sequence(s, 1) = m /\ SubSeq(s, 1, 1 + m - 1) = c
  <2>1. SubSeq(s, 1, 1 + m - 1) = c
    <3>1. 1 + m - 1 = m
      BY <1>1
    <3>2. SubSeq(s, 1, m) = c
      OBVIOUS
    <3> HIDE DEF s, m
    <3> QED  BY <3>1, <3>2
  <2>2. 1 + m - 1 <= Len(s) /\ 1 \in 1 .. Len(s)
    BY <1>1
  <2> HIDE DEF s, m
  <2> QED  BY <1>1, <2>1, <2>2, Utf8SequencesExact
<1>8. CharacterWidths(s)[1] = m /\ Characters(s)[1] = Grammar!CodePoint(c)
  <2>1. 1 \in 1 .. Len(s) /\ m # 0
    BY <1>1
  <2> HIDE DEF s, m
  <2> QED  BY <1>7, <2>1 DEF CharacterWidths, Characters
<1>9. g[1] = <<Grammar!CodePoint(c)>> \o g[1 + m]
  <2>1. 1 \in 1 .. m + n /\ m # 0
    BY <1>1
  <2>2. \A i \in 1 .. m + n :
          g[i] = IF CharacterWidths(s)[i] = 0 THEN <<-1>>
                 ELSE <<Characters(s)[i]>> \o g[i + CharacterWidths(s)[i]]
    <3> HIDE DEF s, m, n
    <3> QED  BY <1>3, <1>5, ReadEquations
  <2> HIDE DEF s, m, n
  <2> QED  BY <1>8, <2>1, <2>2
<1>10. 1 + m = m + 1
  BY <1>1
<1> QED  BY <1>4, <1>5, <1>6, <1>9, <1>10

-----------------------------------------------------------------------------
\* A text is known by its code points, and a content has a meaning or lacks it.

LEMMA FirstAndRest ==
  ASSUME NEW x \in Int, NEW p \in Seq(Int)
  PROVE  /\ <<x>> \o p \in Seq(Int) /\ <<x>> \o p # <<>>
         /\ <<x>> \o p \in Seq(Nat) <=> x \in Nat /\ p \in Seq(Nat)
         /\ \A y \in Int, q \in Seq(Int) : <<x>> \o p = <<y>> \o q => x = y /\ p = q
<1> DEFINE s == <<x>> \o p
<1>1. s \in Seq(Int) /\ s # <<>> /\ Len(s) = Len(p) + 1 /\ Len(p) \in Nat
  OBVIOUS
<1>2. s[1] = x /\ \A k \in 1 .. Len(p) : s[k + 1] = p[k]
  OBVIOUS
<1>3. s \in Seq(Nat) => x \in Nat /\ p \in Seq(Nat)
  <2>1. ASSUME s \in Seq(Nat) PROVE x \in Nat /\ p \in Seq(Nat)
    <3>1. \A k \in 1 .. Len(s) : s[k] \in Nat
      BY <2>1
    <3>2. \A k \in 1 .. Len(p) : p[k] \in Nat
      <4>1. \A k \in 1 .. Len(p) : k + 1 \in 1 .. Len(s)
        BY <1>1
      <4> HIDE DEF s
      <4> QED  BY <1>2, <3>1, <4>1
    <3>3. x \in Nat
      <4>1. 1 \in 1 .. Len(s)
        BY <1>1
      <4> HIDE DEF s
      <4> QED  BY <1>2, <3>1, <4>1
    <3>4. p = [k \in 1 .. Len(p) |-> p[k]]
      OBVIOUS
    <3> QED  BY <1>1, <3>2, <3>3, <3>4
  <2> QED  BY <2>1
<1>4. x \in Nat /\ p \in Seq(Nat) => s \in Seq(Nat)
  OBVIOUS
<1>5. ASSUME NEW y \in Int, NEW q \in Seq(Int), s = <<y>> \o q
      PROVE  x = y /\ p = q
  <2> DEFINE t == <<y>> \o q
  <2>1. Len(t) = Len(q) + 1 /\ Len(q) \in Nat /\ t[1] = y
        /\ \A k \in 1 .. Len(q) : t[k + 1] = q[k]
    OBVIOUS
  <2>2. s = t
    BY <1>5
  <2>3. Len(p) = Len(q)
    <3> HIDE DEF s, t
    <3> QED  BY <1>1, <2>1, <2>2
  <2>4. \A k \in 1 .. Len(p) : p[k] = q[k]
    <3> HIDE DEF s, t
    <3> QED  BY <1>2, <2>1, <2>2, <2>3
  <2>5. x = y
    <3> HIDE DEF s, t
    <3> QED  BY <1>2, <2>1, <2>2
  <2>6. p = [k \in 1 .. Len(p) |-> p[k]] /\ q = [k \in 1 .. Len(q) |-> q[k]]
    OBVIOUS
  <2>7. p = q
    BY <2>3, <2>4, <2>6
  <2> QED  BY <2>5, <2>7
<1> HIDE DEF s
<1>6. s \in Seq(Nat) <=> x \in Nat /\ p \in Seq(Nat)
  BY <1>3, <1>4
<1> QED  BY <1>1, <1>5, <1>6 DEF s

LEMMA NoNegative == <<-1>> \notin Seq(Nat)
<1>1. <<-1>> \in Seq(Nat) => <<-1>>[1] \in Nat
  OBVIOUS
<1> QED  BY <1>1

\* What is read at a position of a text of code points.
LEMMA CharacterRead ==
  ASSUME NEW a \in Seq(Nat), NEW n, n = Len(a),
         NEW f, Reads(n, CharacterWidths(a), Characters(a), f),
         NEW i \in 1..n, f[i] \in Seq(Nat)
  PROVE  \E w \in Nat \ {0} :
           /\ i + w \in 1 .. n + 1
           /\ LET u == SubSeq(a, i, i + w - 1)
              IN  /\ u \in Seq(Nat) /\ Len(u) = w
                  /\ Grammar!CodePoint(u) \in Nat
                  /\ f[i] = <<Grammar!CodePoint(u)>> \o f[i + w]
           /\ f[i + w] \in Seq(Nat)
<1> DEFINE width == CharacterWidths(a)
           code == Characters(a)
           w == width[i]
           u == SubSeq(a, i, i + w - 1)
<1>1. Readable(n, width, code)
  BY UnicodeReads
<1>11. Reads(n, width, code, f)
  OBVIOUS
<1>2. /\ f[i] = IF w = 0 THEN <<-1>> ELSE <<code[i]>> \o f[i + w]
      /\ i + w \in 1 .. n + 1 /\ w \in Nat /\ code[i] \in Int
      /\ \A k \in 1 .. n + 1 : f[k] \in Seq(Int)
  <2> HIDE DEF width, code
  <2>1. /\ \A k \in 1..n : f[k] = IF width[k] = 0 THEN <<-1>> ELSE <<code[k]>> \o f[k + width[k]]
        /\ \A k \in 1 .. n + 1 : f[k] \in Seq(Int)
        /\ \A k \in 1..n : k + width[k] \in 1 .. n + 1 /\ width[k] \in Nat /\ code[k] \in Int
    BY ONLY <1>1, <1>11, ReadEquations
  <2> QED  BY <2>1
<1>3. w # 0
  <2> HIDE DEF w
  <2> QED  BY <1>2, NoNegative
<1>4. code[i] = Grammar!CodePoint(u)
  BY <1>3 DEF CharacterWidths, Characters
<1>5. f[i] = <<code[i]>> \o f[i + w] /\ f[i + w] \in Seq(Int)
  <2> HIDE DEF w, code
  <2> QED  BY <1>2, <1>3
<1>6. code[i] \in Nat /\ f[i + w] \in Seq(Nat)
  <2> HIDE DEF w, code
  <2> QED  BY <1>2, <1>5, FirstAndRest
<1>7. u \in Seq(Nat) /\ Len(u) = w
  <2> HIDE DEF w
  <2>1. w \in Nat /\ 1 <= i /\ i \in Nat /\ i + w - 1 <= Len(a) /\ i + w - 1 \in Int
    BY <1>2
  <2>2. Len(u) = w
    BY <2>1
  <2>3. u \in Seq(Nat)
    BY <2>1
  <2> QED  BY <2>2, <2>3
<1> HIDE DEF w, code
<1> QED  BY <1>2, <1>3, <1>4, <1>5, <1>6, <1>7

\* A text has the code points of no other text.
THEOREM UnicodeInjective ==
  ASSUME NEW a \in Seq(Nat), NEW b \in Seq(Nat),
         Grammar!Unicode(a) = Grammar!Unicode(b), Grammar!Unicode(a) \in Seq(Nat)
  PROVE  a = b
<1> DEFINE m == Len(a)
           n == Len(b)
<1>1. PICK f : Reads(m, CharacterWidths(a), Characters(a), f) /\ Grammar!Unicode(a) = f[1]
  BY UnicodeReads
<1>2. PICK g : Reads(n, CharacterWidths(b), Characters(b), g) /\ Grammar!Unicode(b) = g[1]
  BY UnicodeReads
<1>3. f[m + 1] = <<>> /\ g[n + 1] = <<>>
  <2>1. /\ Readable(m, CharacterWidths(a), Characters(a))
        /\ Readable(n, CharacterWidths(b), Characters(b))
    BY UnicodeReads
  <2> HIDE DEF m, n
  <2> QED  BY <1>1, <1>2, <2>1, ReadEquations
<1>4. m \in Nat /\ n \in Nat
  OBVIOUS
<1> DEFINE D == 1 .. m + 1
           rank == [i \in D |-> m + 1 - i]
           Same(i, k) == /\ m - i = n - k
                         /\ \A j \in 0 .. m - i : a[i + j] = b[k + j]
           P == {i \in D : \A k \in 1 .. n + 1 :
                             f[i] = g[k] /\ f[i] \in Seq(Nat) => Same(i, k)}
<1>5. ASSUME NEW i \in D, \A e \in D : rank[e] < rank[i] => e \in P,
             NEW k \in 1 .. n + 1, f[i] = g[k], f[i] \in Seq(Nat)
      PROVE  Same(i, k)
  <2>1. i \in 1 .. m => \E w \in Nat \ {0} :
          /\ i + w \in 1 .. m + 1
          /\ LET u == SubSeq(a, i, i + w - 1)
             IN  /\ u \in Seq(Nat) /\ Len(u) = w
                 /\ Grammar!CodePoint(u) \in Nat
                 /\ f[i] = <<Grammar!CodePoint(u)>> \o f[i + w]
          /\ f[i + w] \in Seq(Nat)
    BY <1>1, <1>5, CharacterRead
  <2>2. k \in 1 .. n => \E w \in Nat \ {0} :
          /\ k + w \in 1 .. n + 1
          /\ LET u == SubSeq(b, k, k + w - 1)
             IN  /\ u \in Seq(Nat) /\ Len(u) = w
                 /\ Grammar!CodePoint(u) \in Nat
                 /\ g[k] = <<Grammar!CodePoint(u)>> \o g[k + w]
          /\ g[k + w] \in Seq(Nat)
    BY <1>2, <1>5, CharacterRead
  <2>3. CASE i = m + 1
    <3>1. g[k] = <<>>
      BY <1>3, <1>5, <2>3
    <3>2. ASSUME k \in 1 .. n PROVE FALSE
      <4>1. PICK w \in Nat \ {0} :
              /\ Grammar!CodePoint(SubSeq(b, k, k + w - 1)) \in Nat
              /\ g[k] = <<Grammar!CodePoint(SubSeq(b, k, k + w - 1))>> \o g[k + w]
              /\ g[k + w] \in Seq(Nat)
        BY <2>2, <3>2
      <4> DEFINE c == Grammar!CodePoint(SubSeq(b, k, k + w - 1))
      <4>2. c \in Int /\ g[k + w] \in Seq(Int) /\ g[k] = <<c>> \o g[k + w]
        BY <4>1
      <4> HIDE DEF c
      <4> QED  BY <3>1, <4>2, FirstAndRest
    <3>3. k = n + 1
      BY <1>4, <3>2
    <3> QED  BY <1>4, <2>3, <3>3
  <2>4. CASE i # m + 1
    <3>1. i \in 1 .. m
      BY <1>4, <2>4
    <3>2. PICK w \in Nat \ {0} :
            /\ i + w \in 1 .. m + 1
            /\ SubSeq(a, i, i + w - 1) \in Seq(Nat) /\ Len(SubSeq(a, i, i + w - 1)) = w
            /\ Grammar!CodePoint(SubSeq(a, i, i + w - 1)) \in Nat
            /\ f[i] = <<Grammar!CodePoint(SubSeq(a, i, i + w - 1))>> \o f[i + w]
            /\ f[i + w] \in Seq(Nat)
      BY <2>1, <3>1
    <3> DEFINE u == SubSeq(a, i, i + w - 1)
               c == Grammar!CodePoint(u)
    <3>3. c \in Int /\ f[i + w] \in Seq(Int) /\ f[i] = <<c>> \o f[i + w]
      BY SMTT(30), <3>2, NaturalsAreIntegers
    <3>4. k \in 1 .. n
      <4>1. f[i] # <<>>
        <5> HIDE DEF c
        <5> QED  BY <3>3, FirstAndRest
      <4>2. k # n + 1
        BY <1>3, <1>5, <4>1
      <4> QED  BY <1>4, <4>2
    <3>5. PICK v \in Nat \ {0} :
            /\ k + v \in 1 .. n + 1
            /\ SubSeq(b, k, k + v - 1) \in Seq(Nat) /\ Len(SubSeq(b, k, k + v - 1)) = v
            /\ Grammar!CodePoint(SubSeq(b, k, k + v - 1)) \in Nat
            /\ g[k] = <<Grammar!CodePoint(SubSeq(b, k, k + v - 1))>> \o g[k + v]
            /\ g[k + v] \in Seq(Nat)
      BY <2>2, <3>4
    <3> DEFINE t == SubSeq(b, k, k + v - 1)
               d == Grammar!CodePoint(t)
    <3>6. d \in Int /\ g[k + v] \in Seq(Int) /\ g[k] = <<d>> \o g[k + v]
      BY SMTT(30), <3>5, NaturalsAreIntegers
    <3>7. c = d /\ f[i + w] = g[k + v]
      <4> HIDE DEF c, d
      <4>1. <<c>> \o f[i + w] = <<d>> \o g[k + v]
        BY <1>5, <3>3, <3>6
      <4>2. c \in Int /\ d \in Int /\ f[i + w] \in Seq(Int) /\ g[k + v] \in Seq(Int)
        BY <3>3, <3>6
      <4> QED  BY ONLY <4>1, <4>2, FirstAndRest
    <3>8. w = v /\ u = t
      <4>1. /\ u \in Seq(Nat) /\ t \in Seq(Nat) /\ Len(u) = w /\ Len(t) = v
            /\ Grammar!CodePoint(u) = Grammar!CodePoint(t) /\ Grammar!CodePoint(u) >= 0
        <5>1. Grammar!CodePoint(u) = Grammar!CodePoint(t)
          BY <3>7
        <5>2. \A x \in Nat : x >= 0
          OBVIOUS
        <5> HIDE DEF c, d
        <5> QED  BY <3>2, <3>5, <5>1, <5>2
      <4> HIDE DEF u, t
      <4> QED  BY <4>1, CodePointInjective
    <3>9. ASSUME NEW j \in 0 .. w - 1 PROVE a[i + j] = b[k + j]
      <4>1. /\ i \in Nat /\ k \in Nat /\ w \in Nat /\ 1 <= i /\ 1 <= k
            /\ i + w - 1 <= m /\ k + w - 1 <= n
        BY <1>4, <3>1, <3>2, <3>4, <3>5, <3>8
      <4>2. u[j + 1] = a[i + j]
        <5>1. j + 1 \in 1..w /\ i + (j + 1) - 1 = i + j
          BY <3>2
        <5>2. u = [x \in 1..w |-> a[i + x - 1]]
          BY <1>4, <4>1
        <5> HIDE DEF u
        <5> QED  BY <5>1, <5>2
      <4>3. t[j + 1] = b[k + j]
        <5>1. j + 1 \in 1..w /\ k + (j + 1) - 1 = k + j
          BY <3>2
        <5>2. t = [x \in 1..w |-> b[k + x - 1]]
          BY <1>4, <3>8, <4>1
        <5> HIDE DEF t
        <5> QED  BY <5>1, <5>2
      <4> QED  BY <3>8, <4>2, <4>3
    <3>10. Same(i + w, k + w)
      <4>1. i + w \in D /\ k + w \in 1 .. n + 1 /\ f[i + w] = g[k + w] /\ f[i + w] \in Seq(Nat)
        BY <3>2, <3>5, <3>7, <3>8
      <4>2. rank[i + w] < rank[i]
        BY <1>4, <3>1, <3>2
      <4>3. i + w \in P
        <5> HIDE DEF D, P, rank
        <5> QED  BY <1>5, <4>1, <4>2
      <4> HIDE DEF Same, D
      <4> QED  BY <4>1, <4>3
    <3>11. m - i = n - k
      BY <1>4, <3>1, <3>2, <3>4, <3>10
    <3>12. ASSUME NEW j \in 0 .. m - i PROVE a[i + j] = b[k + j]
      <4>1. CASE j < w
        BY <3>9, <4>1
      <4>2. CASE ~(j < w)
        <5> DEFINE x == j - w
        <5>1. x \in 0 .. m - (i + w) /\ (i + w) + x = i + j /\ (k + w) + x = k + j
          BY <1>4, <3>1, <3>2, <3>4, <4>2
        <5> HIDE DEF x
        <5>2. a[(i + w) + x] = b[(k + w) + x]
          BY <3>10, <5>1
        <5> QED  BY <5>1, <5>2
      <4> QED  BY <4>1, <4>2
    <3> QED  BY <3>11, <3>12
  <2> QED  BY <2>3, <2>4
<1>6. rank \in [D -> Nat]
  BY <1>4
<1>7. D \subseteq P
  <2>1. ASSUME NEW i \in D, \A e \in D : rank[e] < rank[i] => e \in P PROVE i \in P
    <3> HIDE DEF Same
    <3> QED  BY <1>5, <2>1
  <2> HIDE DEF D, P, rank
  <2> QED  BY ONLY <2>1, <1>6, RankInduction
<1>8. Same(1, 1)
  <2>1. 1 \in P /\ 1 \in 1 .. n + 1
    <3>1. 1 \in D /\ 1 \in 1 .. n + 1
      BY <1>4
    <3> HIDE DEF D, P
    <3> QED  BY <1>7, <3>1
  <2> HIDE DEF Same
  <2> QED  BY <1>1, <1>2, <2>1
<1>9. m = n /\ \A j \in 1 .. m : a[j] = b[j]
  <2>1. \A j \in 1 .. m : j - 1 \in 0 .. m - 1 /\ 1 + (j - 1) = j
    BY <1>4
  <2>2. \A j \in 1 .. m : a[1 + (j - 1)] = b[1 + (j - 1)]
    BY <1>8, <2>1
  <2>3. \A j \in 1 .. m : a[j] = b[j]
    <3> HIDE DEF m
    <3> QED  BY <2>1, <2>2
  <2> QED  BY <1>4, <1>8, <2>3
<1>10. a = [j \in 1 .. m |-> a[j]] /\ b = [j \in 1 .. n |-> b[j]]
  OBVIOUS
<1> HIDE DEF m, n
<1> QED  BY <1>9, <1>10

\* A piece of a text, and a piece of a piece.
LEMMA Piece ==
  ASSUME NEW s \in Seq(Nat), NEW a \in Nat \ {0}, NEW b \in Int, b <= Len(s), a <= b + 1
  PROVE  LET u == SubSeq(s, a, b)
         IN  /\ u \in Seq(Nat) /\ Len(u) = b - a + 1
             /\ \A k \in 1 .. b - a + 1 : u[k] = s[a + k - 1]
             /\ \A x \in Nat \ {0}, y \in Int :
                  x <= y + 1 /\ y <= b - a + 1 => SubSeq(u, x, y) = SubSeq(s, a + x - 1, a + y - 1)
<1> DEFINE u == SubSeq(s, a, b)
           m == b - a + 1
<1>1. m \in Nat /\ a + m = b + 1
  OBVIOUS
<1>2. u \in Seq(Nat) /\ Len(u) = m /\ \A k \in 1..m : u[k] = s[a + k - 1]
  <2>1. u \in Seq(Nat)
    OBVIOUS
  <2>2. Len(u) = m
    OBVIOUS
  <2>3. \A k \in 1..m : u[k] = s[a + k - 1]
    OBVIOUS
  <2> HIDE DEF u, m
  <2> QED  BY <2>1, <2>2, <2>3
<1> HIDE DEF u, m
<1>3. ASSUME NEW x \in Nat \ {0}, NEW y \in Int, x <= y + 1, y <= m
      PROVE  SubSeq(u, x, y) = SubSeq(s, a + x - 1, a + y - 1)
  <2> DEFINE n == y - x + 1
             p == a + x - 1
             q == a + y - 1
             v == SubSeq(u, x, y)
             t == SubSeq(s, p, q)
  <2>1. n \in Nat /\ p \in Nat \ {0} /\ q \in Int /\ q <= Len(s) /\ q - p + 1 = n
    BY <1>1, <1>3 DEF m
  <2>2. v = [k \in 1..n |-> u[x + k - 1]]
    BY <1>2, <1>3
  <2>3. t = [k \in 1..n |-> s[p + k - 1]]
    <3> HIDE DEF p, q, n
    <3>1. t = [k \in 1 .. q - p + 1 |-> s[p + k - 1]]
      BY <2>1
    <3> QED  BY <2>1, <3>1
  <2>4. ASSUME NEW k \in 1..n PROVE u[x + k - 1] = s[p + k - 1]
    <3>1. x + k - 1 \in 1..m /\ a + (x + k - 1) - 1 = p + k - 1
      BY <1>1, <1>3
    <3> HIDE DEF p, n
    <3> QED  BY <1>2, <3>1
  <2> HIDE DEF v, t, n
  <2>5. v = t
    BY <2>2, <2>3, <2>4
  <2> QED  BY <2>5 DEF v, t
<1> QED  BY <1>2, <1>3 DEF u, m

\* A reading that nothing is missing from.
LEMMA NothingMissing ==
  ASSUME NEW n, NEW width, NEW code, Readable(n, width, code),
         \A i \in 1..n : width[i] # 0 => code[i] \in Nat,
         NEW f, Reads(n, width, code, f)
  PROVE  \A i \in 1 .. n + 1 : f[i] \in Seq(Nat) <=> ~Contains(f[i], -1)
<1> DEFINE D == 1 .. n + 1
           rank == [i \in D |-> n + 1 - i]
           P == {i \in D : f[i] \in Seq(Nat) <=> ~Contains(f[i], -1)}
<1>1. n \in Nat
  BY DEF Readable
<1>2. /\ f[n + 1] = <<>>
      /\ \A i \in 1..n : f[i] = IF width[i] = 0 THEN <<-1>> ELSE <<code[i]>> \o f[i + width[i]]
      /\ \A i \in 1 .. n + 1 : f[i] \in Seq(Int)
      /\ \A i \in 1..n : i + width[i] \in 1 .. n + 1 /\ width[i] \in Nat
  BY ReadEquations
<1>3. ASSUME NEW i \in D, \A e \in D : rank[e] < rank[i] => e \in P PROVE i \in P
  <2>1. CASE i = n + 1
    <3>1. f[i] = <<>>
      BY <1>2, <2>1
    <3>2. ~Contains(<<>>, -1) /\ <<>> \in Seq(Nat)
      BY DEF Contains
    <3> QED  BY <3>1, <3>2
  <2>2. CASE i \in 1..n /\ width[i] = 0
    <3>1. f[i] = <<-1>>
      BY <1>2, <2>2
    <3>2. Contains(<<-1>>, -1)
      BY DEF Contains
    <3> QED  BY <3>1, <3>2, NoNegative
  <2>3. CASE i \in 1..n /\ width[i] # 0
    <3> DEFINE k == i + width[i]
               c == code[i]
    <3>1. /\ k \in D /\ k > i /\ k \in Int /\ c \in Nat /\ f[k] \in Seq(Int)
          /\ f[i] = <<c>> \o f[k]
      <4>1. f[i] = <<c>> \o f[k] /\ k \in D /\ width[i] \in Nat /\ c \in Nat
        BY <1>2, <2>3
      <4>2. k > i /\ k \in Int
        BY <2>3, <4>1
      <4> HIDE DEF k, c
      <4> QED  BY <1>2, <4>1, <4>2
    <3> HIDE DEF k, c
    <3>2. rank[k] < rank[i]
      BY <1>1, <3>1
    <3>3. f[k] \in Seq(Nat) <=> ~Contains(f[k], -1)
      BY <1>3, <3>1, <3>2
    <3>4. f[i] \in Seq(Nat) <=> f[k] \in Seq(Nat)
      BY <3>1, FirstAndRest
    <3>5. Contains(<<c>> \o f[k], -1) <=> Contains(f[k], -1)
      <4> DEFINE t == f[k]
                 s == <<c>> \o t
      <4>1. t \in Seq(Int)
        BY <3>1
      <4> HIDE DEF t
      <4>2. Len(s) = Len(t) + 1 /\ Len(t) \in Nat /\ s[1] = c /\ c # -1
            /\ \A x \in 1 .. Len(t) : s[x + 1] = t[x]
        BY <3>1, <4>1
      <4> HIDE DEF s
      <4>3. Contains(s, -1) => Contains(t, -1)
        <5>1. ASSUME NEW x \in 1 .. Len(s), s[x] = -1 PROVE Contains(t, -1)
          <6>1. x # 1
            BY <4>2, <5>1
          <6>2. x - 1 \in 1 .. Len(t) /\ (x - 1) + 1 = x
            BY <4>2, <6>1
          <6>3. t[x - 1] = -1
            BY <4>2, <5>1, <6>2
          <6> QED  BY <6>2, <6>3 DEF Contains
        <5> QED  BY <5>1 DEF Contains
      <4>4. Contains(t, -1) => Contains(s, -1)
        <5>1. ASSUME NEW x \in 1 .. Len(t), t[x] = -1 PROVE Contains(s, -1)
          <6>1. x + 1 \in 1 .. Len(s) /\ s[x + 1] = -1
            BY <4>2, <5>1
          <6> QED  BY <6>1 DEF Contains
        <5> QED  BY <5>1 DEF Contains
      <4> QED  BY <4>3, <4>4 DEF s, t
    <3> QED  BY <3>1, <3>3, <3>4, <3>5
  <2> QED  BY <1>1, <2>1, <2>2, <2>3
<1>4. rank \in [D -> Nat]
  BY <1>1
<1>5. D \subseteq P
  <2> HIDE DEF D, P, rank
  <2> QED  BY ONLY <1>3, <1>4, RankInduction
<1> QED  BY <1>5

LEMMA MeaningComplete ==
  ASSUME NEW c \in Seq(Nat)
  PROVE  Grammar!Meaning(c) \in Seq(Nat) <=> ~Contains(Grammar!Meaning(c), -1)
<1> DEFINE n == Len(c)
           width == UnitWidthsOf(c)
           code == Units(c)
<1>1. Readable(n, width, code)
  BY MeaningReads
<1>2. PICK f : Reads(n, width, code, f) /\ Grammar!Meaning(c) = f[1]
  BY MeaningReads
<1>3. ASSUME NEW i \in 1..n, width[i] # 0 PROVE code[i] \in Nat
  <2>1. width[i] = ContentWidth(c, i)
    BY DEF UnitWidthsOf
  <2>2. code[i] = IF ContentWidth(c, i) = 0 THEN -1
                  ELSE Grammar!Denoted(SubSeq(c, i, i + ContentWidth(c, i) - 1))
    BY DEF Units
  <2>3. Grammar!Denoted(SubSeq(c, i, i + ContentWidth(c, i) - 1)) \in Nat
    BY <1>3, <2>1, WidthOfUnit
  <2> HIDE DEF width, code
  <2> QED  BY <1>3, <2>1, <2>2, <2>3
<1>4. 1 \in 1 .. n + 1
  OBVIOUS
<1> HIDE DEF n, width, code
<1>5. \A i \in 1 .. n + 1 : f[i] \in Seq(Nat) <=> ~Contains(f[i], -1)
  BY ONLY <1>1, <1>2, <1>3, NothingMissing
<1> QED  BY <1>2, <1>4, <1>5

-----------------------------------------------------------------------------
\* Whole strings, and what they are decoded into.

\* The w bytes at i.
Bytes(s, i, w) == SubSeq(s, i, i + w - 1)

\* The units of a piece of a text are those of the text, as far as they lie in it.
LEMMA BytesOfPiece ==
  ASSUME NEW s \in Seq(Nat), NEW a \in Nat, NEW n \in Nat, a + n <= Len(s),
         NEW c, c = Bytes(s, a + 1, n)
  PROVE  /\ c \in Seq(Nat) /\ Len(c) = n
         /\ \A k \in 1..n : c[k] = s[a + k]
         /\ \A k \in 1..n, w \in Nat \ {0} :
              k + w - 1 <= n => Bytes(c, k, w) = Bytes(s, a + k, w)
<1> DEFINE p == a + 1
           q == a + n
           l == SubSeq(s, p, q)
<1>1. p \in Nat \ {0} /\ q \in Int /\ q <= Len(s) /\ p <= q + 1 /\ q - p + 1 = n
  OBVIOUS
<1>2. c = SubSeq(s, p, q)
  <2>1. (a + 1) + n - 1 = q
    OBVIOUS
  <2> HIDE DEF q
  <2> QED  BY <2>1 DEF Bytes
<1> HIDE DEF p, q, l
<1>6. /\ l \in Seq(Nat) /\ Len(l) = q - p + 1
      /\ \A x \in 1 .. q - p + 1 : l[x] = s[p + x - 1]
      /\ \A x \in Nat \ {0}, y \in Int :
           x <= y + 1 /\ y <= q - p + 1 => SubSeq(l, x, y) = SubSeq(s, p + x - 1, p + y - 1)
  BY <1>1, Piece DEF l
<1>7. c = l
  BY <1>2 DEF l
<1>3. /\ c \in Seq(Nat) /\ Len(c) = n /\ \A x \in 1 .. n : c[x] = s[p + x - 1]
      /\ \A x \in Nat \ {0}, y \in Int :
           x <= y + 1 /\ y <= n => SubSeq(c, x, y) = SubSeq(s, p + x - 1, p + y - 1)
  BY <1>1, <1>6, <1>7
<1>4. ASSUME NEW k \in 1..n, NEW w \in Nat \ {0}, k + w - 1 <= n
      PROVE  Bytes(c, k, w) = Bytes(s, a + k, w)
  <2> DEFINE y == k + w - 1
  <2>1. y \in Int /\ k <= y + 1 /\ y <= n /\ k \in Nat \ {0}
    BY <1>4
  <2>2. p + k - 1 = a + k /\ p + y - 1 = (a + k) + w - 1
    BY DEF p
  <2> HIDE DEF y
  <2>3. SubSeq(c, k, y) = SubSeq(s, p + k - 1, p + y - 1)
    BY <1>3, <2>1
  <2> QED  BY <2>2, <2>3 DEF y, Bytes
<1>5. \A k \in 1..n : p + k - 1 = a + k
  BY DEF p
<1> QED  BY <1>3, <1>4, <1>5

LEMMA UnitOfPiece ==
  ASSUME NEW s \in Seq(Nat), NEW a \in Nat, NEW n \in Nat, a + n <= Len(s),
         NEW c, c = Bytes(s, a + 1, n), NEW k \in 1..n, c[k] # Quote,
         NEW w \in Nat \ {0}, k + w - 1 <= n
  PROVE  UnitWidth(c, k) = w <=> UnitWidth(s, a + k) = w
<1>1. /\ c \in Seq(Nat) /\ Len(c) = n /\ c[k] = s[a + k]
      /\ Bytes(c, k, w) = Bytes(s, a + k, w)
  BY BytesOfPiece
<1>2. UnitWidth(c, k) = w <=> Grammar!Denoted(Bytes(c, k, w)) >= 0
  BY ZenonT(30), <1>1, UnitsExact DEF Bytes
<1> DEFINE j == a + k
<1>3. j \in 1 .. Len(s) /\ j + w - 1 <= Len(s) /\ s[j] # Quote
  BY SMTT(30), <1>1
<1> HIDE DEF j
<1>4. UnitWidth(s, j) = w <=> Grammar!Denoted(Bytes(s, j, w)) >= 0
  BY <1>3, UnitsExact DEF Bytes
<1> QED  BY <1>1, <1>2, <1>4 DEF j

\* Where a string is scanned, its content has a meaning, and the other way round.
LEMMA ContentScanned ==
  ASSUME NEW s \in Seq(Nat), NEW i \in Nat \ {0}, NEW n \in Nat, i + n < Len(s),
         s[(i + n) + 1] = Quote,
         NEW scan,
         \A j \in 1 .. Len(s) + 12 :
           /\ scan[j] = IF j > Len(s) THEN 0
                        ELSE IF s[j] = Quote THEN j + 1
                        ELSE IF UnitWidth(s, j) = 0 THEN 0 ELSE scan[j + UnitWidth(s, j)]
           /\ scan[j] \in {0} \cup (j + 1 .. Len(s) + 1)
  PROVE  scan[i + 1] = (i + n) + 2 <=> Grammar!Meaning(Bytes(s, i + 1, n)) \in Seq(Nat)
<1> DEFINE c == Bytes(s, i + 1, n)
           width == UnitWidthsOf(c)
           code == Units(c)
           end == (i + n) + 2
           D == 1 .. n + 1
           rank == [k \in D |-> n + 1 - k]
<1>1. /\ c \in Seq(Nat) /\ Len(c) = n /\ \A k \in 1..n : c[k] = s[i + k]
      /\ i \in Nat /\ i + n <= Len(s) /\ c = Bytes(s, i + 1, n)
  <2>1. i \in Nat /\ i + n <= Len(s) /\ c = Bytes(s, i + 1, n)
    OBVIOUS
  <2> HIDE DEF c
  <2> QED  BY SMTT(30), <2>1, BytesOfPiece
<1> HIDE DEF c
<1>2. Readable(n, width, code)
  BY <1>1, MeaningReads
<1>3. PICK h : Reads(n, width, code, h) /\ Grammar!Meaning(c) = h[1]
  BY <1>1, MeaningReads
<1>4. /\ h[n + 1] = <<>>
      /\ \A k \in 1..n : h[k] = IF width[k] = 0 THEN <<-1>> ELSE <<code[k]>> \o h[k + width[k]]
      /\ \A k \in 1 .. n + 1 : h[k] \in Seq(Int)
      /\ \A k \in 1..n : k + width[k] \in 1 .. n + 1 /\ width[k] \in Nat /\ code[k] \in Int
  <2> HIDE DEF width, code
  <2> QED  BY ONLY <1>2, <1>3, ReadEquations
<1>5. \A k \in 1..n : width[k] = ContentWidth(c, k)
                     /\ code[k] = IF ContentWidth(c, k) = 0 THEN -1
                          ELSE Grammar!Denoted(SubSeq(c, k, k + ContentWidth(c, k) - 1))
  BY <1>1 DEF UnitWidthsOf, Units
<1> DEFINE P == {k \in D : scan[i + k] = end <=> h[k] \in Seq(Nat)}
<1> HIDE DEF width, code
<1>6. ASSUME NEW k \in D, \A e \in D : rank[e] < rank[k] => e \in P PROVE k \in P
  <2> DEFINE j == i + k
  <2>1. /\ j \in 1 .. Len(s) + 12 /\ j \in Nat /\ k \in Nat /\ j <= Len(s)
        /\ j = i + k
    OBVIOUS
  <2>2. /\ scan[j] = IF s[j] = Quote THEN j + 1
                     ELSE IF UnitWidth(s, j) = 0 THEN 0 ELSE scan[j + UnitWidth(s, j)]
        /\ scan[j] \in {0} \cup (j + 1 .. Len(s) + 1)
    <3> HIDE DEF j
    <3> QED  BY <2>1
  <2> HIDE DEF j
  <2>3. CASE k = n + 1
    <3>1. j = (i + n) + 1 /\ j + 1 = end
      BY <2>1, <2>3
    <3>2. scan[j] = end
      BY <2>2, <3>1
    <3>3. h[k] \in Seq(Nat)
      BY <1>4, <2>3
    <3> QED  BY <3>2, <3>3 DEF j
  <2>4. CASE k # n + 1
    <3>1. k \in 1..n /\ j < end - 1
      BY <2>1, <2>4
    <3>2. c[k] = s[j]
      BY <1>1, <3>1 DEF j
    <3>9. ASSUME c[k] # Quote, NEW w \in Nat \ {0}, k + w - 1 <= n
          PROVE  UnitWidth(c, k) = w <=> UnitWidth(s, j) = w
      <4>1. /\ i \in Nat /\ n \in Nat /\ i + n <= Len(s) /\ c = Bytes(s, i + 1, n) /\ k \in 1..n
            /\ s \in Seq(Nat) /\ w \in Nat \ {0} /\ j = i + k
        BY <1>1, <3>1 DEF j
      <4>2. UnitWidth(c, k) = w <=> UnitWidth(s, i + k) = w
        BY ONLY <3>9, <4>1, UnitOfPiece
      <4> QED  BY <4>1, <4>2
    <3> DEFINE v == width[k]
               w == UnitWidth(s, j)
    <3>3. /\ v = IF c[k] = Quote THEN 0 ELSE UnitWidth(c, k)
          /\ v \in Nat /\ k + v \in 1 .. n + 1
          /\ h[k] = IF v = 0 THEN <<-1>> ELSE <<code[k]>> \o h[k + v]
      BY <1>4, <1>5, <3>1 DEF ContentWidth
    <3>4. w \in 0..12
      BY UnitWidths
    <3> HIDE DEF v, w
    <3>5. CASE s[j] = Quote
      <4>1. scan[j] = j + 1 /\ j + 1 # end
        BY <2>1, <2>2, <3>1, <3>5
      <4>2. h[k] \notin Seq(Nat)
        BY <3>2, <3>3, <3>5, NoNegative
      <4> QED  BY <4>1, <4>2 DEF j
    <3>6. CASE s[j] # Quote /\ (w = 0 \/ k + w - 1 > n)
      <4>1. scan[j] # end
        <5>1. CASE w = 0
          BY <2>1, <2>2, <3>6, <5>1 DEF w
        <5>2. CASE w # 0
          <6> DEFINE m == j + w
          <6>1. m >= end /\ m \in 1 .. Len(s) + 12 /\ m \in Int
            BY <2>1, <3>1, <3>4, <3>6, <5>2
          <6>2. scan[j] = scan[m]
            BY <2>2, <3>6, <5>2 DEF w
          <6> HIDE DEF m
          <6>3. scan[m] \in {0} \cup (m + 1 .. Len(s) + 1)
            BY <6>1
          <6> QED  BY <6>1, <6>2, <6>3
        <5> QED  BY <5>1, <5>2
      <4>2. v = 0
        <5>1. SUFFICES ASSUME v # 0 PROVE FALSE
          OBVIOUS
        <5>2. v \in Nat \ {0} /\ k + v - 1 <= n /\ UnitWidth(c, k) = v
          BY <3>2, <3>3, <3>6, <5>1
        <5>3. w = v
          BY <3>2, <3>6, <3>9, <5>2 DEF w
        <5> QED  BY <3>6, <5>2, <5>3
      <4> QED  BY <3>3, <4>1, <4>2, NoNegative DEF j
    <3>7. CASE s[j] # Quote /\ w # 0 /\ k + w - 1 <= n
      <4> DEFINE m == k + w
      <4>1. v = w
        <5>1. w \in Nat \ {0}
          BY <3>4, <3>7
        <5> QED  BY <3>2, <3>3, <3>7, <3>9, <5>1 DEF w
      <4>2. m \in D /\ m > k /\ m \in Int /\ j + w = i + m
        BY <2>1, <3>1, <3>4, <3>7
      <4>3. scan[j] = scan[i + m]
        BY <2>2, <3>7, <4>2 DEF w
      <4>4. h[k] = <<code[k]>> \o h[m]
        BY <3>3, <3>7, <4>1
      <4> HIDE DEF m
      <4>5. m \in P
        <5>1. rank[m] < rank[k]
          BY <2>1, <4>2
        <5> HIDE DEF D, P, rank
        <5> QED  BY <1>6, <4>2, <5>1
      <4>6. code[k] \in Nat /\ h[m] \in Seq(Int)
        <5>1. ContentWidth(c, k) # 0
          BY <1>5, <3>1, <3>7, <4>1 DEF v
        <5>2. Grammar!Denoted(SubSeq(c, k, k + ContentWidth(c, k) - 1)) \in Nat
          BY <1>1, <3>1, <5>1, WidthOfUnit
        <5> QED  BY <1>4, <1>5, <3>1, <4>2, <5>1, <5>2
      <4>7. <<code[k]>> \o h[m] \in Seq(Nat) <=> h[m] \in Seq(Nat)
        <5> DEFINE x == code[k]
                   p == h[m]
        <5>1. x \in Int /\ x \in Nat /\ p \in Seq(Int)
          BY <4>6
        <5> HIDE DEF x, p
        <5>2. <<x>> \o p \in Seq(Nat) <=> p \in Seq(Nat)
          BY <5>1, FirstAndRest
        <5> QED  BY <5>2 DEF x, p
      <4>8. scan[i + m] = end <=> h[m] \in Seq(Nat)
        BY <4>5
      <4> QED  BY <4>3, <4>4, <4>7, <4>8 DEF j
    <3>8. w = 0 \/ k + w - 1 > n \/ (w # 0 /\ k + w - 1 <= n)
      BY <2>1, <3>4
    <3> QED  BY <3>5, <3>6, <3>7, <3>8
  <2> QED  BY <2>3, <2>4
<1>7. rank \in [D -> Nat]
  OBVIOUS
<1>8. D \subseteq P
  <2> HIDE DEF D, P, rank
  <2> QED  BY ONLY <1>6, <1>7, RankInduction
<1>9. 1 \in D
  OBVIOUS
<1>10. scan[i + 1] = end <=> h[1] \in Seq(Nat)
  <2> HIDE DEF D, end
  <2> QED  BY <1>8, <1>9
<1> QED  BY <1>3, <1>10 DEF c

\* A string of the grammar is scanned as one, and nothing else is: from the quote
\* at i the scan ends behind position e exactly when the bytes up to there are one.
THEOREM StringsExact ==
  ASSUME NEW s \in Seq(Nat), NEW i \in 1 .. Len(s), NEW e \in i .. Len(s)
  PROVE  ScanString(s, i) = e + 1 <=> Grammar!IsString(SubSeq(s, i, e))
<1> DEFINE l == SubSeq(s, i, e)
           n == (e - i) - 1
<1>1. s \in Seq(Int)
  BY NaturalsAreIntegers
<1>2. PICK scan :
        /\ \A j \in 1 .. Len(s) + 12 :
             /\ scan[j] = IF j > Len(s) THEN 0
                          ELSE IF s[j] = Quote THEN j + 1
                          ELSE IF UnitWidth(s, j) = 0 THEN 0 ELSE scan[j + UnitWidth(s, j)]
             /\ scan[j] \in {0} \cup (j + 1 .. Len(s) + 1)
             /\ scan[j] # 0 => s[scan[j] - 1] = Quote
        /\ \A j : ScanString(s, j) = IF At(s, j) = Quote THEN scan[j + 1] ELSE 0
  BY <1>1, StringScan
<1>3. ScanString(s, i) = IF s[i] = Quote THEN scan[i + 1] ELSE 0
  BY <1>2 DEF At
<1>4. /\ scan[i + 1] \in {0} \cup ((i + 1) + 1 .. Len(s) + 1)
      /\ scan[i + 1] # 0 => s[scan[i + 1] - 1] = Quote
  <2>1. i + 1 \in 1 .. Len(s) + 12
    OBVIOUS
  <2> QED  BY <1>2, <2>1
<1>5. /\ Len(l) = e - i + 1 /\ l[1] = s[i] /\ l[e - i + 1] = s[e]
      /\ e > i => Grammar!Content(l) = SubSeq(s, i + 1, e - 1)
      /\ l \in Seq(Nat)
  <2>1. /\ l \in Seq(Nat) /\ Len(l) = e - i + 1
        /\ \A k \in 1 .. e - i + 1 : l[k] = s[i + k - 1]
        /\ \A x \in Nat \ {0}, y \in Int :
             x <= y + 1 /\ y <= e - i + 1 => SubSeq(l, x, y) = SubSeq(s, i + x - 1, i + y - 1)
    <3>1. i \in Nat \ {0} /\ e \in Int /\ e <= Len(s) /\ i <= e + 1
      OBVIOUS
    <3> HIDE DEF l
    <3> QED  BY <3>1, Piece DEF l
  <2> HIDE DEF l
  <2>2. l[1] = s[i] /\ l[e - i + 1] = s[e]
    <3>1. 1 \in 1 .. e - i + 1 /\ e - i + 1 \in 1 .. e - i + 1
          /\ i + 1 - 1 = i /\ i + (e - i + 1) - 1 = e
      OBVIOUS
    <3> QED  BY <2>1, <3>1
  <2>3. ASSUME e > i PROVE Grammar!Content(l) = SubSeq(s, i + 1, e - 1)
    <3> DEFINE y == e - i
    <3>1. y \in Int /\ 2 <= y + 1 /\ y <= e - i + 1 /\ i + y - 1 = e - 1 /\ i + 2 - 1 = i + 1
          /\ (e - i + 1) - 1 = y
      BY <2>3
    <3> HIDE DEF y
    <3>2. SubSeq(l, 2, y) = SubSeq(s, i + 2 - 1, i + y - 1)
      BY <2>1, <3>1
    <3>3. Grammar!Content(l) = SubSeq(l, 2, y)
      BY <2>1, <3>1 DEF Grammar!Content
    <3> QED  BY <3>1, <3>2, <3>3
  <2> QED  BY <2>1, <2>2, <2>3
<1> HIDE DEF l
<1>6. CASE s[i] = Quote /\ e > i /\ s[e] = Quote
  <2>1. n \in Nat /\ i + n < Len(s) /\ (i + n) + 1 = e /\ (i + n) + 2 = e + 1 /\ i \in Nat \ {0}
        /\ i + n = e - 1
    BY <1>6
  <2> DEFINE c == Bytes(s, i + 1, n)
  <2>2. scan[i + 1] = (i + n) + 2 <=> Grammar!Meaning(c) \in Seq(Nat)
    <3>1. s[(i + n) + 1] = Quote
      BY <1>6, <2>1
    <3> HIDE DEF n
    <3> QED  BY <1>2, <2>1, <3>1, ContentScanned
  <2>3. c \in Seq(Nat) /\ Grammar!Content(l) = c
    <3>1. c = SubSeq(s, i + 1, e - 1)
      <4>1. (i + 1) + n - 1 = e - 1
        BY <2>1
      <4> HIDE DEF n
      <4> QED  BY <4>1 DEF Bytes
    <3>2. i + 1 \in Nat \ {0} /\ e - 1 \in Int /\ e - 1 <= Len(s) /\ i + 1 <= (e - 1) + 1
      BY <1>6
    <3>3. SubSeq(s, i + 1, e - 1) \in Seq(Nat)
      BY <3>2, Piece
    <3> QED  BY <1>5, <1>6, <3>1, <3>3
  <2> HIDE DEF c
  <2>4. Grammar!Meaning(c) \in Seq(Nat) <=> ~Contains(Grammar!Meaning(c), -1)
    BY <2>3, MeaningComplete
  <2>5. Len(l) >= 2 /\ l[1] = 34 /\ l[Len(l)] = 34
    BY <1>5, <1>6 DEF Quote
  <2>6. Grammar!IsString(l) <=> ~Contains(Grammar!Meaning(c), -1)
    BY <2>3, <2>5 DEF Grammar!IsString, Contains, Grammar!Contains
  <2> HIDE DEF n
  <2> QED  BY <1>3, <1>6, <2>1, <2>2, <2>4, <2>6 DEF l
<1>7. CASE ~(s[i] = Quote /\ e > i /\ s[e] = Quote)
  <2>1. ~Grammar!IsString(l)
    <3>1. l[1] # 34 \/ ~(Len(l) >= 2) \/ l[Len(l)] # 34
      <4>1. CASE s[i] # Quote
        BY <1>5, <4>1 DEF Quote
      <4>2. CASE ~(e > i)
        BY <1>5, <4>2
      <4>3. CASE s[e] # Quote
        BY <1>5, <4>3 DEF Quote
      <4> QED  BY <1>7, <4>1, <4>2, <4>3
    <3> QED  BY <3>1 DEF Grammar!IsString
  <2>2. ScanString(s, i) # e + 1
    <3>1. SUFFICES ASSUME ScanString(s, i) = e + 1 PROVE FALSE
      OBVIOUS
    <3>2. e + 1 # 0 /\ (e + 1) - 1 = e
      OBVIOUS
    <3>3. s[i] = Quote /\ scan[i + 1] = e + 1
      BY <1>3, <3>1, <3>2
    <3>4. e + 1 >= i + 2 /\ s[e] = Quote
      BY <1>4, <3>2, <3>3
    <3> QED  BY <1>7, <3>3, <3>4
  <2> QED  BY <2>1, <2>2 DEF l
<1> QED  BY <1>6, <1>7

\* What decode_content gives for the rest of a content.
Decoding == {Done(bytes) : bytes \in Seq(Nat)} \cup {Refused("PARSE")}

LEMMA DecodingFields ==
  /\ \A bytes \in Seq(Nat) : Done(bytes) \in Decoding
  /\ Refused("PARSE") \in Decoding
  /\ \A r \in Decoding : /\ r.status \in {"OK", "PARSE"}
                         /\ r.status = "OK" => r.value \in Seq(Nat)
  BY DEF Decoding, Done, Refused

LEMMA UnitBytesTyped ==
  ASSUME NEW s \in Seq(Nat), NEW i \in 1 .. Len(s), UnitWidth(s, i) # 0
  PROVE  UnitBytes(s, i) \in Seq(Nat)
<1>1. CASE s[i] # Quote
  <2>1. UnitWidth(s, i) \in Nat \ {0}
    BY SMTT(30), UnitWidths
  <2> QED  BY <1>1, <2>1, UnitsExact
<1>2. CASE s[i] = Quote
  <2>1. ValidUtf8Sequence(s, i) = 1 /\ s[i] # Backslash
    BY <1>2 DEF ValidUtf8Sequence, Quote, Backslash
  <2>2. UnitBytes(s, i) = SubSeq(s, i, i)
    <3>1. i + 1 - 1 = i
      OBVIOUS
    <3>2. UnitBytes(s, i) = SubSeq(s, i, i + ValidUtf8Sequence(s, i) - 1)
      BY <2>1, PlainBytes DEF Backslash
    <3> QED  BY <2>1, <3>1, <3>2
  <2>3. SubSeq(s, i, i) \in Seq(Nat)
    OBVIOUS
  <2> QED  BY <2>2, <2>3
<1> QED  BY <1>1, <1>2

LEMMA DecodeReads ==
  ASSUME NEW raw \in Seq(Nat)
  PROVE  \E decode :
           /\ \A i \in 1 .. Len(raw) + 12 :
                decode[i] =
                  IF i > Len(raw) THEN Done(<<>>)
                  ELSE IF UnitWidth(raw, i) = 0 THEN Refused("PARSE")
                  ELSE IF decode[i + UnitWidth(raw, i)].status # "OK"
                       THEN decode[i + UnitWidth(raw, i)]
                  ELSE Done(UnitBytes(raw, i) \o decode[i + UnitWidth(raw, i)].value)
           /\ \A i \in 1 .. Len(raw) + 12 : decode[i] \in Decoding
           /\ DecodeContent(raw) = decode[1]
<1> DEFINE D == 1 .. Len(raw) + 12
           R == Decoding
           Goes == {i \in D : i <= Len(raw) /\ UnitWidth(raw, i) # 0}
           to == [i \in Goes |-> i + UnitWidth(raw, i)]
           stop == [i \in D |-> IF i > Len(raw) THEN Done(<<>>) ELSE Refused("PARSE")]
           combine == [i \in Goes |-> [r \in R |->
                         IF r.status # "OK" THEN r ELSE Done(UnitBytes(raw, i) \o r.value)]]
           rank == [i \in D |-> Len(raw) + 12 - i]
           bound == Len(raw) + 12
           Body(f, i) ==
             IF i > Len(raw) THEN Done(<<>>)
             ELSE LET rest == f[i + UnitWidth(raw, i)]
                  IN  IF UnitWidth(raw, i) = 0 THEN Refused("PARSE")
                      ELSE IF rest.status # "OK" THEN rest
                      ELSE Done(UnitBytes(raw, i) \o rest.value)
           Solves(f) == f = [i \in D |-> Body(f, i)]
           decode == CHOOSE f : Solves(f)
<1>1. ASSUME NEW i \in Goes
      PROVE  /\ to[i] = i + UnitWidth(raw, i)
             /\ to[i] \in D /\ to[i] > i /\ to[i] \in Int
  <2>1. PICK w \in 1..12 : w = UnitWidth(raw, i)
    <3>1. UnitWidth(raw, i) \in 0..12
      BY UnitWidths
    <3> QED  BY <3>1
  <2>2. i \in 1 .. Len(raw) /\ to[i] = i + w
    BY <2>1
  <2>3. PICK n \in Nat : n = Len(raw)
    OBVIOUS
  <2>4. i + w \in 1 .. n + 12 /\ i + w > i /\ i + w \in Int
    BY SMTT(30), <2>1, <2>2, <2>3
  <2>5. i + w \in D
    BY <2>3, <2>4
  <2> HIDE DEF to, Goes, D
  <2> QED  BY <2>1, <2>2, <2>4, <2>5
<1>2. Recursive(D, R, Goes, to, stop, combine, rank, bound)
  <2>1. bound \in Nat /\ rank \in [D -> 0..bound] /\ Goes \subseteq D
    OBVIOUS
  <2>2. to \in [Goes -> D] /\ \A d \in Goes : rank[to[d]] < rank[d]
    <3>1. to = [i \in Goes |-> to[i]]
      OBVIOUS
    <3>2. \A i \in Goes : i \in 1 .. Len(raw)
      OBVIOUS
    <3> HIDE DEF to, Goes
    <3> QED  BY SMTT(30), <1>1, <3>1, <3>2
  <2>3. stop \in [D -> R]
    <3>1. <<>> \in Seq(Nat)
      OBVIOUS
    <3>2. Done(<<>>) \in R /\ Refused("PARSE") \in R
      <4> HIDE DEF Done, Refused
      <4> QED  BY <3>1, DecodingFields
    <3> QED  BY <3>2
  <2>4. combine \in [Goes -> [R -> R]]
    <3>1. ASSUME NEW i \in Goes, NEW r \in R
          PROVE  (IF r.status # "OK" THEN r ELSE Done(UnitBytes(raw, i) \o r.value)) \in R
      <4>1. UnitBytes(raw, i) \in Seq(Nat)
        BY UnitBytesTyped
      <4>2. r.status = "OK" => r.value \in Seq(Nat)
        BY DecodingFields
      <4>3. r.status = "OK" => UnitBytes(raw, i) \o r.value \in Seq(Nat)
        BY <4>1, <4>2
      <4> QED  BY <4>3, DecodingFields
    <3> HIDE DEF R, Goes
    <3> QED  BY <3>1
  <2> HIDE DEF D, R, Goes, to, stop, combine, rank, bound
  <2> QED  BY <2>1, <2>2, <2>3, <2>4 DEF Recursive
<1>3. ASSUME NEW f, NEW i \in D
      PROVE  /\ i \notin Goes => Body(f, i) = stop[i]
             /\ i \in Goes /\ f[to[i]] \in R => Body(f, i) = combine[i][f[to[i]]]
  <2> HIDE DEF R
  <2> QED  OBVIOUS
<1>4. \E f : Solves(f)
  <2>1. \E f \in [D -> R] :
          \A d \in D : f[d] = IF d \in Goes THEN combine[d][f[to[d]]] ELSE stop[d]
    <3> HIDE DEF D, R, Goes, to, stop, combine, rank, bound
    <3> QED  BY ONLY <1>2, Recursion
  <2>2. PICK f \in [D -> R] :
          \A d \in D : f[d] = IF d \in Goes THEN combine[d][f[to[d]]] ELSE stop[d]
    BY <2>1
  <2>3. Solves(f)
    <3>1. f = [d \in D |-> f[d]]
      BY <2>2
    <3>2. \A d \in Goes : f[to[d]] \in R
      <4> HIDE DEF D, R, Goes, to
      <4> QED  BY <1>1, <2>2
    <3> HIDE DEF D, R, Goes, to, stop, combine, Body
    <3> QED  BY <1>3, <2>2, <3>1, <3>2, SMTT(20)
  <2> HIDE DEF Solves
  <2> QED  BY <2>3
<1>5. Solves(decode)
  <2> HIDE DEF Solves
  <2> QED  BY <1>4
<1>6. ASSUME NEW d \in D PROVE decode[d] \in R
  <2>1. \A i \in D \ Goes : decode[i] = stop[i]
    <3> HIDE DEF decode, D, R, Goes, to, stop, combine, Body
    <3> QED  BY <1>3, <1>5
  <2>2. \A i \in Goes : decode[to[i]] \in R => decode[i] = combine[i][decode[to[i]]]
    <3>1. Goes \subseteq D
      OBVIOUS
    <3> HIDE DEF decode, D, R, Goes, to, stop, combine, Body
    <3> QED  BY <1>3, <1>5, <3>1
  <2> HIDE DEF decode, D, R, Goes, to, stop, combine, rank, bound
  <2> QED  BY ONLY <1>2, <2>1, <2>2, <1>6, RecursiveTyped
<1>7. \A i \in D : decode[i] = Body(decode, i)
  <2> HIDE DEF decode, D, Body
  <2> QED  BY <1>5
<1>8. DecodeContent(raw) = decode[1]
  BY DEF DecodeContent
<1> HIDE DEF decode
<1> QED  BY <1>6, <1>7, <1>8

\* What a content denotes is what is decoded: the code points of the bytes are those
\* that its characters and escapes stand for.
THEOREM ContentsDecoded ==
  ASSUME NEW c \in Seq(Nat), ~Contains(Grammar!Meaning(c), -1)
  PROVE  /\ DecodeContent(c).status = "OK" /\ DecodeContent(c).value \in Seq(Nat)
         /\ Grammar!Unicode(DecodeContent(c).value) = Grammar!Meaning(c)
<1> DEFINE n == Len(c)
           width == UnitWidthsOf(c)
           code == Units(c)
           D == 1 .. n + 1
           rank == [i \in D |-> n + 1 - i]
<1>1. Readable(n, width, code)
  BY MeaningReads
<1>2. PICK h : Reads(n, width, code, h) /\ Grammar!Meaning(c) = h[1]
  BY MeaningReads
<1>3. /\ h[n + 1] = <<>>
      /\ \A k \in 1..n : h[k] = IF width[k] = 0 THEN <<-1>> ELSE <<code[k]>> \o h[k + width[k]]
      /\ \A k \in 1 .. n + 1 : h[k] \in Seq(Int)
      /\ \A k \in 1..n : k + width[k] \in 1 .. n + 1 /\ width[k] \in Nat /\ code[k] \in Int
  <2> HIDE DEF width, code, n
  <2> QED  BY ONLY <1>1, <1>2, ReadEquations
<1>4. \A k \in 1..n : /\ width[k] = ContentWidth(c, k)
                     /\ code[k] = IF ContentWidth(c, k) = 0 THEN -1
                          ELSE Grammar!Denoted(SubSeq(c, k, k + ContentWidth(c, k) - 1))
  BY DEF UnitWidthsOf, Units
<1>5. PICK decode :
        /\ \A i \in 1 .. n + 12 :
             decode[i] =
               IF i > n THEN Done(<<>>)
               ELSE IF UnitWidth(c, i) = 0 THEN Refused("PARSE")
               ELSE IF decode[i + UnitWidth(c, i)].status # "OK"
                    THEN decode[i + UnitWidth(c, i)]
               ELSE Done(UnitBytes(c, i) \o decode[i + UnitWidth(c, i)].value)
        /\ \A i \in 1 .. n + 12 : decode[i] \in Decoding
        /\ DecodeContent(c) = decode[1]
  BY DecodeReads
<1> DEFINE Means(k) == /\ decode[k].status = "OK" /\ decode[k].value \in Seq(Nat)
                       /\ Grammar!Unicode(decode[k].value) = h[k]
           P == {k \in D : h[k] \in Seq(Nat) => Means(k)}
<1>6. n \in Nat
  OBVIOUS
<1> HIDE DEF n, width, code
<1>7. ASSUME NEW k \in D, \A e \in D : rank[e] < rank[k] => e \in P, h[k] \in Seq(Nat)
      PROVE  Means(k)
  <2>1. k \in 1 .. n + 12 /\ k \in Nat
    BY <1>6
  <2>2. CASE k = n + 1
    <3>1. decode[k] = Done(<<>>) /\ h[k] = <<>>
      BY <1>3, <1>5, <1>6, <2>1, <2>2
    <3>2. decode[k].status = "OK" /\ decode[k].value = <<>>
      BY <3>1 DEF Done
    <3>3. <<>> \in Seq(Nat)
      OBVIOUS
    <3>4. Grammar!Unicode(decode[k].value) = h[k]
      BY <3>1, <3>2, UnicodeEmpty
    <3> QED  BY <3>2, <3>3, <3>4
  <2>3. CASE k # n + 1
    <3>1. k \in 1..n
      BY <1>6, <2>3
    <3> DEFINE w == width[k]
               m == k + w
    <3>2. w # 0 /\ w \in Nat /\ h[k] = <<code[k]>> \o h[m] /\ m \in D /\ h[m] \in Seq(Int)
          /\ code[k] \in Int
      <4>1. w # 0
        BY <1>3, <1>7, <3>1, NoNegative
      <4> QED  BY <1>3, <3>1, <4>1
    <3>3. h[m] \in Seq(Nat)
      <4> DEFINE x == code[k]
                 p == h[m]
      <4>1. x \in Int /\ p \in Seq(Int) /\ <<x>> \o p \in Seq(Nat)
        BY <1>7, <3>2
      <4> HIDE DEF x, p
      <4>2. p \in Seq(Nat)
        BY <4>1, FirstAndRest
      <4> QED  BY <4>2 DEF p
    <3>4. m > k /\ m \in Int
      BY <2>1, <3>2
    <3>5. c[k] # Quote /\ UnitWidth(c, k) = w
          /\ code[k] = Grammar!Denoted(SubSeq(c, k, k + w - 1))
      <4>1. w = ContentWidth(c, k) /\ ContentWidth(c, k) # 0
        BY <1>4, <3>1, <3>2
      <4>2. c[k] # Quote /\ UnitWidth(c, k) = w
        BY <4>1 DEF ContentWidth
      <4> HIDE DEF w
      <4> QED  BY <1>4, <3>1, <4>1, <4>2
    <3> HIDE DEF w, m
    <3>6. Means(m)
      <4>1. rank[m] < rank[k]
        BY <1>6, <2>1, <3>2, <3>4
      <4>2. m \in P
        <5> HIDE DEF D, P, rank
        <5> QED  BY <1>7, <3>2, <4>1
      <4> HIDE DEF Means
      <4> QED  BY <3>3, <4>2
    <3> DEFINE bytes == UnitBytes(c, k)
               rest == decode[m].value
    <3>7. bytes \in Seq(Nat) /\ bytes # <<>> /\ Grammar!CodePoint(bytes) = code[k]
      <4>1. k \in 1 .. Len(c) /\ w \in Nat \ {0}
        BY <3>1, <3>2 DEF n
      <4> QED  BY <3>5, <4>1, UnitsExact
    <3>8. decode[k] = Done(bytes \o rest)
      <4>1. ~(k > n) /\ UnitWidth(c, k) # 0 /\ k + UnitWidth(c, k) = m
        BY <1>6, <3>1, <3>2, <3>5 DEF m
      <4>2. decode[m].status = "OK"
        BY <3>6
      <4> HIDE DEF Done, bytes
      <4> QED  BY <1>5, <2>1, <4>1, <4>2 DEF bytes
    <3>9. code[k] >= 0
      <4> DEFINE x == code[k]
                 p == h[m]
      <4>1. x \in Int /\ p \in Seq(Int) /\ <<x>> \o p \in Seq(Nat)
        BY <1>7, <3>2
      <4> HIDE DEF x, p
      <4>2. x \in Nat
        BY <4>1, FirstAndRest
      <4>3. x >= 0
        BY <4>2
      <4> QED  BY <4>3 DEF x
    <3>10. rest \in Seq(Nat) /\ Grammar!Unicode(rest) = h[m]
      BY <3>6
    <3> HIDE DEF bytes, rest
    <3>11. Grammar!Unicode(bytes \o rest) = <<Grammar!CodePoint(bytes)>> \o Grammar!Unicode(rest)
      BY <3>7, <3>9, <3>10, UnicodeStep
    <3>12. decode[k].status = "OK" /\ decode[k].value = bytes \o rest
      BY <3>8 DEF Done
    <3>13. bytes \o rest \in Seq(Nat)
      BY <3>7, <3>10
    <3> QED  BY <3>2, <3>7, <3>10, <3>11, <3>12, <3>13
  <2> QED  BY <2>2, <2>3
<1>8. rank \in [D -> Nat]
  BY <1>6
<1>9. D \subseteq P
  <2>1. ASSUME NEW k \in D, \A e \in D : rank[e] < rank[k] => e \in P PROVE k \in P
    <3> HIDE DEF Means, D, rank
    <3> QED  BY <1>7, <2>1
  <2> HIDE DEF D, P, rank
  <2> QED  BY ONLY <2>1, <1>8, RankInduction
<1>10. h[1] \in Seq(Nat)
  BY <1>2, MeaningComplete
<1>11. Means(1)
  <2>1. 1 \in P
    <3>1. 1 \in D
      BY <1>6
    <3> HIDE DEF D, P
    <3> QED  BY <1>9, <3>1
  <2> HIDE DEF Means
  <2> QED  BY <1>10, <2>1
<1> QED  BY <1>2, <1>5, <1>11

-----------------------------------------------------------------------------
\* Numbers: the value and the form that the grammar gives an integer are those of
\* its digits.
LEMMA DecimalInteger ==
  ASSUME NEW raw \in Seq(Int)
  PROVE  \A i \in Sign(raw) .. Len(raw) : Decimals(raw)[i] \in Int
<1> DEFINE D == Sign(raw) .. Len(raw)
           rank == [j \in D |-> j]
           P == {j \in D : Decimals(raw)[j] \in Int}
<1>1. ASSUME NEW j \in D, \A e \in D : rank[e] < rank[j] => e \in P PROVE j \in P
  <2>1. CASE j = Sign(raw)
    BY <2>1, DecimalSteps
  <2>2. CASE j # Sign(raw)
    <3>1. j - 1 \in P /\ j \in Sign(raw) + 1 .. Len(raw)
      BY <1>1, <2>2, SignInside
    <3>2. Decimals(raw)[j] = 10 * Decimals(raw)[j - 1] + (raw[j] - 48)
      BY <3>1, DecimalSteps
    <3>3. PICK value \in Int : value = Decimals(raw)[j - 1]
      BY <3>1
    <3>4. raw[j] \in Int
      BY <3>1, SignInside
    <3> QED  BY SMTT(30), <3>2, <3>3, <3>4
  <2> QED  BY <2>1, <2>2
<1>2. D \subseteq P
  <2>1. rank \in [D -> Nat]
    BY SignInside
  <2> HIDE DEF D, P, rank
  <2> QED  BY ONLY <1>1, <2>1, RankInduction
<1> QED  BY <1>2

LEMMA IntegralIsValue ==
  ASSUME NEW raw \in Seq(Int), raw # <<>>
  PROVE  Grammar!Integral(raw) = IntegerValue(raw)
<1> DEFINE digits == IF raw[1] = 45 THEN Tail(raw) ELSE raw
           D == 0 .. Len(digits)
           Solves(f) == f = [k \in D |-> IF k = 0 THEN 0 ELSE 10 * f[k - 1] + digits[k] - 48]
           value == CHOOSE f : Solves(f)
           known == [k \in D |-> Decimals(raw)[k + Sign(raw)]]
<1>1. PICK sign \in {0, 1} : sign = Sign(raw) /\ (sign = 1 <=> raw[1] = 45)
  BY DEF Sign, At, Minus
<1>2. /\ Len(digits) \in Nat /\ Len(digits) + sign = Len(raw)
      /\ \A k \in 1 .. Len(digits) : digits[k] = raw[k + sign] /\ digits[k] \in Int
  BY <1>1
<1>3. Grammar!Integral(raw) = IF raw[1] = 45 THEN -value[Len(digits)] ELSE value[Len(digits)]
  BY DEF Grammar!Integral
<1> HIDE DEF digits
<1>4. /\ \A k \in D : known[k] = Decimals(raw)[k + sign] /\ known[k] \in Int
      /\ known[0] = 0
      /\ \A k \in 1 .. Len(digits) : known[k] = 10 * known[k - 1] + (digits[k] - 48)
  <2>1. ASSUME NEW k \in D PROVE known[k] = Decimals(raw)[k + sign] /\ known[k] \in Int
    <3>1. k + sign \in Sign(raw) .. Len(raw)
      BY <1>1, <1>2
    <3> QED  BY <1>1, <3>1, DecimalInteger
  <2>2. 0 \in D /\ \A k \in 1 .. Len(digits) : k \in D /\ k - 1 \in D
    BY <1>2
  <2>3. known[0] = 0
    BY <1>1, <2>1, <2>2, DecimalSteps
  <2>4. ASSUME NEW k \in 1 .. Len(digits)
        PROVE  known[k] = 10 * known[k - 1] + (digits[k] - 48)
    <3>1. k + sign \in Sign(raw) + 1 .. Len(raw) /\ (k + sign) - 1 = (k - 1) + sign
      BY SMTT(30), <1>1, <1>2
    <3>2. Decimals(raw)[k + sign] = 10 * Decimals(raw)[(k - 1) + sign] + (raw[k + sign] - 48)
      BY <3>1, DecimalSteps
    <3> HIDE DEF known, D
    <3> QED  BY <1>2, <2>1, <2>2, <3>2
  <2> HIDE DEF known, D
  <2> QED  BY <2>1, <2>3, <2>4
<1>5. Solves(known)
  <2>1. known = [k \in D |-> known[k]]
    OBVIOUS
  <2>2. ASSUME NEW k \in D
        PROVE  known[k] = IF k = 0 THEN 0 ELSE 10 * known[k - 1] + digits[k] - 48
    <3>1. CASE k = 0
      BY <1>4, <3>1
    <3>2. CASE k # 0
      <4>1. k \in 1 .. Len(digits) /\ k - 1 \in D
        BY <1>2, <3>2
      <4>2. known[k] = 10 * known[k - 1] + (digits[k] - 48)
        BY <1>4, <4>1
      <4>3. PICK x \in Int, y \in Int : x = known[k - 1] /\ y = digits[k]
        BY <1>2, <1>4, <4>1
      <4> HIDE DEF known
      <4> QED  BY <3>2, <4>2, <4>3
    <3> QED  BY <3>1, <3>2
  <2> HIDE DEF known, D
  <2> QED  BY <2>1, <2>2
<1>6. Solves(value)
  <2> HIDE DEF Solves, known
  <2> QED  BY <1>5
<1> HIDE DEF value, known
<1> DEFINE rank == [k \in D |-> k]
           P == {k \in D : value[k] = known[k]}
<1>7. ASSUME NEW k \in D, \A e \in D : rank[e] < rank[k] => e \in P PROVE k \in P
  <2>1. value[k] = IF k = 0 THEN 0 ELSE 10 * value[k - 1] + digits[k] - 48
    BY <1>6
  <2>2. known[k] = IF k = 0 THEN 0 ELSE 10 * known[k - 1] + digits[k] - 48
    BY <1>5
  <2>3. k # 0 => value[k - 1] = known[k - 1]
    <3>1. k # 0 => k - 1 \in D /\ rank[k - 1] < rank[k]
      BY <1>2
    <3> HIDE DEF D, rank
    <3> QED  BY <1>7, <3>1
  <2> HIDE DEF D
  <2> QED  BY <2>1, <2>2, <2>3
<1>8. D \subseteq P
  <2>1. rank \in [D -> Nat]
    BY <1>2
  <2> HIDE DEF D, P, rank
  <2> QED  BY ONLY <1>7, <2>1, RankInduction
<1>9. value[Len(digits)] = Decimals(raw)[Len(raw)]
  <2>1. Len(digits) \in D
    BY <1>2
  <2> HIDE DEF D
  <2> QED  BY <1>2, <1>4, <1>8, <2>1
<1> QED  BY <1>1, <1>3, <1>9 DEF IntegerValue

\* A number that was scanned is an integer of the grammar when it is all digits
\* behind its sign: the scan has refused a zero that another digit follows.
LEMMA ScannedInteger ==
  ASSUME NEW s \in Seq(Int), NEW i \in 1 .. Len(s), NEW e \in Int,
         ScanNumber(s, i) = e, e # 0
  PROVE  Grammar!IsInteger(SubSeq(s, i, e - 1)) <=>
           HasDigits(SubSeq(s, i, e - 1), Len(SubSeq(s, i, e - 1)))
<1> DEFINE raw == SubSeq(s, i, e - 1)
<1>1. e \in i + 1 .. Len(s) + 1
  BY NumberInside
<1>2. /\ raw \in Seq(Int) /\ Len(raw) = e - i
      /\ \A k \in 1 .. Len(raw) : raw[k] = s[i + k - 1]
  BY <1>1
<1>3. PICK sign \in {0, 1} : sign = Sign(raw) /\ (sign = 1 <=> raw[1] = 45)
  BY <1>1, <1>2 DEF Sign, At, Minus
<1> DEFINE int  == IF At(s, i) = Minus THEN i + 1 ELSE i
           frac == IF At(s, int) = Zero THEN int + 1 ELSE DigitsEnd(s, int)
<1>4. /\ At(s, int) \in Digit
      /\ At(s, int) = Zero => At(s, frac) \notin Digit
  BY DEF ScanNumber
<1>5. int = i + sign
  BY <1>1, <1>2, <1>3 DEF At, Minus
<1>6. int \in 1 .. Len(s) /\ s[int] \in Digit
  <2>1. int \in Int
    BY <1>5
  <2>2. At(s, int) # -1
    <3> HIDE DEF int, frac
    <3> QED  BY SMTT(30), <1>4 DEF Digit
  <2> HIDE DEF int
  <2>3. int \in 1 .. Len(s) /\ At(s, int) = s[int]
    BY <2>1, <2>2, ByteInside
  <2>4. At(s, int) \in Digit
    BY <1>4 DEF int
  <2> QED  BY <2>3, <2>4
<1>7. s[int] = 48 => At(s, int + 1) \notin Digit
  BY <1>4, <1>6 DEF At, Zero
<1>8. int < e
  <2>1. CASE sign = 0
    BY <1>1, <1>5, <2>1
  <2>2. CASE sign = 1
    <3>1. int = i + 1
      BY <1>5, <2>2
    <3>2. frac \in int + 1 .. Len(s) + 1
      <4> HIDE DEF int
      <4> QED  BY SMTT(30), <1>4, <1>6, DigitsEndInside
    <3> DEFINE exp   == IF At(s, frac) = 46 THEN DigitsEnd(s, frac + 1) ELSE frac
               power == IF At(s, exp + 1) \in {43, Minus} THEN exp + 2 ELSE exp + 1
    <3>3. e = exp \/ (e = DigitsEnd(s, power) /\ At(s, power) \in Digit)
      BY DEF ScanNumber
    <3> HIDE DEF int
    <3>4. exp \in frac .. Len(s) + 1
      <4> HIDE DEF frac
      <4>1. CASE At(s, frac) = 46
        <5>1. frac + 1 \in 1 .. Len(s) + 1
          BY <1>6, <3>2, <4>1, ByteInside
        <5> QED  BY <3>2, <4>1, <5>1, DigitsEndInside
      <4>2. CASE At(s, frac) # 46
        BY <3>2, <4>2
      <4> QED  BY <4>1, <4>2
    <3>5. power \in Int /\ power > exp
      <4> HIDE DEF exp, frac
      <4> QED  BY <1>6, <3>2, <3>4
    <3> HIDE DEF power, exp, frac
    <3>6. At(s, power) \in Digit => DigitsEnd(s, power) >= power
      <4>1. ASSUME At(s, power) \in Digit PROVE power \in 1 .. Len(s)
        BY <3>5, <4>1, ByteInside DEF Digit
      <4> QED  BY <3>5, <4>1, DigitsEndInside
    <3> QED  BY <1>6, <3>2, <3>3, <3>4, <3>5, <3>6
  <2> QED  BY <2>1, <2>2
<1> HIDE DEF int, frac
<1>9. sign + 1 \in 1 .. Len(raw) /\ raw[sign + 1] = s[int]
  BY <1>1, <1>2, <1>5, <1>6, <1>8
<1> HIDE DEF raw
<1> DEFINE t == IF raw[1] = 45 THEN Tail(raw) ELSE raw
<1>10. /\ t \in Seq(Int) /\ Len(t) = Len(raw) - sign /\ t # <<>>
       /\ \A k \in 1 .. Len(t) : t[k] = raw[k + sign]
  <2>1. CASE sign = 0
    BY <1>2, <1>3, <1>9, <2>1
  <2>2. CASE sign = 1
    <3>1. t = Tail(raw) /\ raw # <<>>
      BY <1>2, <1>3, <1>9, <2>2
    <3>2. /\ Tail(raw) \in Seq(Int) /\ Len(Tail(raw)) = Len(raw) - 1
          /\ \A k \in 1 .. Len(raw) - 1 : Tail(raw)[k] = raw[k + 1]
      BY <1>2, <3>1
    <3> HIDE DEF t
    <3>3. t \in Seq(Int) /\ Len(t) = Len(raw) - 1 /\ \A k \in 1 .. Len(t) : t[k] = raw[k + 1]
      BY <3>1, <3>2
    <3>4. t # <<>>
      BY <1>9, <2>2, <3>3
    <3> QED  BY <2>2, <3>3, <3>4
  <2> QED  BY <2>1, <2>2
<1>11. Grammar!IsInteger(raw) <=> Grammar!AllDigits(t) /\ (t[1] = 48 => Len(t) = 1)
  <2>1. raw # <<>>
    BY <1>2, <1>9
  <2>2. Grammar!IsInteger(raw) <=> Grammar!IsInt(t)
    BY <2>1 DEF Grammar!IsInteger
  <2> HIDE DEF t
  <2> QED  BY <2>2 DEF Grammar!IsInt
<1> HIDE DEF t
<1>12. Grammar!AllDigits(t) <=> HasDigits(raw, Len(raw))
  <2>1. Grammar!AllDigits(t) <=> \A k \in 1 .. Len(t) : t[k] \in 48..57
    <3>1. DOMAIN t = 1 .. Len(t)
      BY <1>10
    <3> QED  BY <1>10, <3>1 DEF Grammar!AllDigits
  <2>2. HasDigits(raw, Len(raw)) <=> \A k \in sign + 1 .. Len(raw) : raw[k] \in 48..57
    BY <1>3 DEF HasDigits, Digit
  <2>3. \A k \in sign + 1 .. Len(raw) : k - sign \in 1 .. Len(t) /\ t[k - sign] = raw[k]
    BY <1>2, <1>10
  <2>4. \A k \in 1 .. Len(t) : k + sign \in sign + 1 .. Len(raw)
    BY <1>2, <1>10
  <2> QED  BY <1>10, <2>1, <2>2, <2>3, <2>4
<1>13. ASSUME HasDigits(raw, Len(raw)), t[1] = 48 PROVE Len(t) = 1
  <2>1. s[int] = 48
    BY <1>9, <1>10, <1>13
  <2>2. ASSUME Len(t) # 1 PROVE FALSE
    <3>1. sign + 2 \in 1 .. Len(raw) /\ sign + 2 \in sign + 1 .. Len(raw)
      BY <1>2, <1>9, <1>10, <2>2
    <3>2. raw[sign + 2] \in Digit
      BY <1>3, <1>13, <3>1 DEF HasDigits
    <3>3. raw[sign + 2] = s[int + 1] /\ int + 1 \in 1 .. Len(s)
      BY <1>1, <1>2, <1>5, <3>1
    <3> QED  BY <1>7, <2>1, <3>2, <3>3 DEF At
  <2> QED  BY <2>2
<1>14. Grammar!IsInteger(raw) <=> HasDigits(raw, Len(raw))
  BY <1>11, <1>12, <1>13
<1> QED  BY <1>14 DEF raw

-----------------------------------------------------------------------------
\* A key has a name exactly when their code points agree and the name is not longer
\* than the scratch.
THEOREM KeysExact ==
  ASSUME NEW content \in Seq(Nat), ~Contains(Grammar!Meaning(content), -1), NEW m \in Seq(Nat)
  PROVE  KeyEquals(content, m) <=>
           Len(m) <= MaxKey /\ Grammar!Unicode(m) = Grammar!Meaning(content)
<1> DEFINE decoded == DecodeContent(content)
<1>1. /\ decoded.status = "OK" /\ decoded.value \in Seq(Nat)
      /\ Grammar!Unicode(decoded.value) = Grammar!Meaning(content)
  BY ContentsDecoded
<1>2. KeyEquals(content, m) <=>
        decoded.status = "OK" /\ Len(decoded.value) <= MaxKey /\ decoded.value = m
  BY DEF KeyEquals
<1>3. Grammar!Meaning(content) \in Seq(Nat)
  BY MeaningComplete
<1> HIDE DEF decoded
<1>4. Grammar!Unicode(m) = Grammar!Meaning(content) => decoded.value = m
  BY <1>1, <1>3, UnicodeInjective
<1> QED  BY <1>1, <1>2, <1>4

\* The content of a key that was scanned is complete.
LEMMA KeyContent ==
  ASSUME NEW s \in Seq(Nat), NEW from \in Nat, NEW to \in Nat,
         from - 1 \in 1 .. Len(s), from <= to + 1, to + 1 <= Len(s),
         ScanString(s, from - 1) = to + 2
  PROVE  /\ SubSeq(s, from, to) \in Seq(Nat)
         /\ ~Contains(Grammar!Meaning(SubSeq(s, from, to)), -1)
<1> DEFINE a == from - 1
           b == to + 1
           u == SubSeq(s, a, b)
<1>1. a \in 1 .. Len(s) /\ b \in a .. Len(s) /\ b + 1 = to + 2 /\ a \in Nat \ {0} /\ b \in Int
      /\ b - a + 1 >= 2 /\ b - a + 1 \in Nat
  OBVIOUS
<1>2. Grammar!IsString(u)
  <2>1. ScanString(s, a) = b + 1
    BY <1>1
  <2> HIDE DEF a, b
  <2> QED  BY <1>1, <2>1, StringsExact
<1>3. a + 2 - 1 = from /\ a + (b - a) - 1 = to
  OBVIOUS
<1>4. Len(u) = b - a + 1 /\ SubSeq(u, 2, Len(u) - 1) = SubSeq(s, from, to)
  <2> HIDE DEF a, b, u
  <2>1. Len(u) = b - a + 1
    BY <1>1, Piece DEF u
  <2>2. /\ 2 \in Nat \ {0} /\ b - a \in Int /\ 2 <= (b - a) + 1 /\ b - a <= b - a + 1
        /\ a <= b + 1 /\ b <= Len(s) /\ Len(u) - 1 = b - a
    BY <1>1, <2>1
  <2>3. SubSeq(u, 2, b - a) = SubSeq(s, a + 2 - 1, a + (b - a) - 1)
    BY <1>1, <2>2, Piece DEF u
  <2> QED  BY <1>3, <2>1, <2>2, <2>3
<1>5. ~Contains(Grammar!Meaning(SubSeq(s, from, to)), -1)
  <2> HIDE DEF u
  <2> QED  BY <1>2, <1>4 DEF Grammar!IsString, Grammar!Content, Contains, Grammar!Contains
<1>6. SubSeq(s, from, to) \in Seq(Nat)
  OBVIOUS
<1> QED  BY <1>5, <1>6

\* A string that was scanned is scanned again to its end, and decoded into the
\* bytes of what its characters and escapes denote.
THEOREM OwnedStringsExact ==
  ASSUME NEW s \in Seq(Nat), NEW i \in 1 .. Len(s), NEW e \in Int,
         ScanString(s, i) = e + 1, e + 1 # 0
  PROVE  LET raw == SubSeq(s, i, e)
             owned == ToOwnedString("string", raw)
         IN  /\ owned.status = "OK" /\ owned.value \in Seq(Nat)
             /\ Grammar!Unicode(owned.value) = Grammar!Meaning(Grammar!Content(raw))
<1> DEFINE raw == SubSeq(s, i, e)
<1>1. e \in i + 1 .. Len(s)
  <2>1. ScanString(s, i) \in {0} \cup (i + 2 .. Len(s) + 1)
    BY StringInside, NaturalsAreIntegers
  <2> QED  BY <2>1
<1>2. Grammar!IsString(raw)
  <2>1. e \in i .. Len(s)
    BY <1>1
  <2> QED  BY <2>1, StringsExact
<1>3. raw \in Seq(Nat) /\ Len(raw) = e - i + 1 /\ Len(raw) \in Nat /\ Len(raw) >= 2
  BY <1>1
<1> HIDE DEF raw
<1>4. ScanString(raw, 1) = Len(raw) + 1
  <2>1. SubSeq(raw, 1, Len(raw)) = raw
    BY <1>3
  <2>2. 1 \in 1 .. Len(raw) /\ Len(raw) \in 1 .. Len(raw)
    BY <1>3
  <2>3. Grammar!IsString(SubSeq(raw, 1, Len(raw)))
    BY <1>2, <2>1
  <2> QED  BY <1>3, <2>2, <2>3, StringsExact
<1>5. /\ Grammar!Content(raw) = SubSeq(raw, 2, Len(raw) - 1)
      /\ Grammar!Content(raw) \in Seq(Nat)
      /\ ~Contains(Grammar!Meaning(Grammar!Content(raw)), -1)
  <2>1. SubSeq(raw, 2, Len(raw) - 1) \in Seq(Nat)
    BY <1>3
  <2> QED  BY <1>2, <2>1 DEF Grammar!IsString, Grammar!Content, Contains, Grammar!Contains
<1>6. ToOwnedString("string", raw) = DecodeContent(Grammar!Content(raw))
  BY <1>4, <1>5 DEF ToOwnedString
<1>7. /\ DecodeContent(Grammar!Content(raw)).status = "OK"
      /\ DecodeContent(Grammar!Content(raw)).value \in Seq(Nat)
      /\ Grammar!Unicode(DecodeContent(Grammar!Content(raw)).value)
           = Grammar!Meaning(Grammar!Content(raw))
  BY <1>5, ContentsDecoded
<1> QED  BY <1>6, <1>7 DEF raw

-----------------------------------------------------------------------------
\* The inductive invariant.
Kinds == {"string", "object", "array", "boolean", "null", "number", "none"}

\* The values are what the steps compute with.
ReaderTyped ==
  /\ pc = "serialize" \/ document # None => document \in Document
  /\ json \in Seq(Nat)
  /\ member \in [key : Nat \X Nat, from : Nat, kind : Kinds]
  /\ visited \in Seq({visited[n] : n \in DOMAIN visited})
  /\ \A n \in DOMAIN visited :
       visited[n].key \in Nat \X Nat /\ visited[n].value \in Nat \X Nat

\* Before the scan nothing is read; inside, the outermost entry is the object, and
\* only behind a call of the visitor is it certain that no other is open.
Entered ==
  /\ pc \in {"serialize", "start"} =>
       cursor = 1 /\ stack = <<>> /\ member = NoMember /\ visited = <<>>
  /\ pc \in {"key", "value", "scanned"} => stack # <<>>
  /\ pc = "next" => Len(stack) = 1
  /\ stack # <<>> => stack[1] = "object"

\* Every call so far ended before position i.
After(i) ==
  /\ Len(visited) < i
  /\ \A n \in DOMAIN visited : visited[n].value[2] < i

\* The member lies behind the earlier calls, its key before its value, and its
\* value begins before the cursor.
MemberRead ==
  /\ After(member.key[1]) /\ member.key[1] > 1
  /\ member.key[1] <= member.key[2] + 1
  /\ member.key[2] + 1 < member.from
  /\ member.from <= cursor

MemberBehind ==
  /\ After(cursor)
  /\ pc \in {"value", "scanned"} \/ (pc = "key" /\ Len(stack) > 1) => MemberRead
  /\ pc = "scanned" \/ (pc \in {"key", "value"} /\ Len(stack) > 1) => member.from < cursor

\* What the visitor was called with lies inside the text: every key before its
\* value, and both behind the value of the call before.
VisitsInside ==
  \A n \in DOMAIN visited :
    LET v == visited[n]
    IN  /\ IF n = 1 THEN v.key[1] > 1 ELSE visited[n - 1].value[2] < v.key[1]
        /\ v.key[1] <= v.key[2] + 1
        /\ v.key[2] + 1 < v.value[1]
        /\ v.value[1] <= v.value[2]
        /\ v.value[2] <= Len(json)

\* An integer that the visitor gets is one that int64_t can hold.
IntegersFit ==
  \A n \in DOMAIN visited :
    visited[n].want = "number" /\ visited[n].got.status = "OK" =>
      visited[n].got.value \in (-Int64Max - 1) .. Int64Max

\* And it is the number that the text says.
IntegersExact ==
  \A n \in DOMAIN visited :
    visited[n].want = "number" /\ visited[n].kind = "number" =>
      ExactInteger(SubSeq(json, visited[n].value[1], visited[n].value[2]), visited[n].got)

ReaderInv ==
  /\ TypeOK /\ ReaderTyped /\ Entered /\ MemberBehind
  /\ VisitsInside /\ IntegersFit /\ IntegersExact

Wants == {"string", "number", "boolean", "nothing"}

LEMMA ConvertedResult ==
  ASSUME NEW want \in Wants, NEW kind, NEW raw \in Seq(Nat), NEW got \in Converted(want, kind, raw)
  PROVE  /\ got.status \in {"OK", "SCHEMA", "OVERFLOW", "OOM", "PARSE"}
         /\ want = "number" /\ got.status = "OK" => got.value \in (-Int64Max - 1) .. Int64Max
         /\ want = "number" /\ kind = "number" => ExactInteger(raw, got)
<1>1. CASE want = "string"
  <2>1. got \in {ToOwnedString(kind, raw), Refused("OOM")}
    BY <1>1 DEF Converted
  <2>2. /\ SubSeq(raw, 2, Len(raw) - 1) \in Seq(Nat)
        /\ Refused("OOM").status = "OOM" /\ Refused("SCHEMA").status = "SCHEMA"
        /\ Refused("PARSE").status = "PARSE"
    BY DEF Refused
  <2>3. DecodeContent(SubSeq(raw, 2, Len(raw) - 1)).status \in {"OK", "PARSE"}
    <3>1. DecodeContent(SubSeq(raw, 2, Len(raw) - 1)) \in Decoding
      <4>1. 1 \in 1 .. Len(SubSeq(raw, 2, Len(raw) - 1)) + 12
        BY <2>2
      <4> QED  BY <2>2, <4>1, DecodeReads
    <3> QED  BY <3>1, DecodingFields
  <2> QED  BY <1>1, <2>1, <2>2, <2>3 DEF ToOwnedString
<1>2. CASE want = "number"
  <2>1. got = ToI64(kind, raw)
    BY <1>2 DEF Converted
  <2>2. got \in IntegerResult /\ (kind = "number" => ExactInteger(raw, got))
    BY <2>1, IntegerConverted
  <2>3. /\ got.status \in {"OK", "SCHEMA", "OVERFLOW", "OOM"}
        /\ got.status = "OK" => got.value \in (-Int64Max - 1) .. Int64Max
    BY <2>2 DEF IntegerResult, Done, Refused
  <2> QED  BY <2>2, <2>3
<1>3. CASE want = "boolean"
  <2>1. got = ToBool(kind, raw)
    BY <1>3 DEF Converted
  <2> QED  BY <1>3, <2>1 DEF ToBool, Done, Refused
<1>4. CASE want = "nothing"
  <2>1. got = Done(None)
    BY <1>4 DEF Converted
  <2> QED  BY <1>4, <2>1 DEF Done
<1> QED  BY <1>1, <1>2, <1>3, <1>4 DEF Wants

LEMMA KindsOfValues ==
  ASSUME NEW b
  PROVE  KindOf(b) \in Kinds /\ KindOf(-1) = "none"
  BY DEF KindOf, Kinds, Quote, Digit, Minus

LEMMA ScalarInside ==
  ASSUME json \in Seq(Int), NEW i \in 1 .. Len(json)
  PROVE  ScanScalar(i) \in {0} \cup (i + 1 .. Len(json) + 1)
<1>1. ScanString(json, i) \in {0} \cup (i + 2 .. Len(json) + 1)
  BY StringInside
<1>2. ScanNumber(json, i) \in {0} \cup (i + 1 .. Len(json) + 1)
  BY NumberInside
<1>3. /\ ConsumeLiteral(json, i, Literal.true) \in {0} \cup (i + 1 .. Len(json) + 1)
      /\ ConsumeLiteral(json, i, Literal.false) \in {0} \cup (i + 1 .. Len(json) + 1)
      /\ ConsumeLiteral(json, i, Literal.null) \in {0} \cup (i + 1 .. Len(json) + 1)
  BY LiteralInside
<1>4. ScanScalar(i) \in {ScanString(json, i), ScanNumber(json, i),
                         ConsumeLiteral(json, i, Literal.true),
                         ConsumeLiteral(json, i, Literal.false),
                         ConsumeLiteral(json, i, Literal.null)}
  BY DEF ScanScalar, Quote
<1> QED  BY <1>1, <1>2, <1>3, <1>4

LEMMA WiderSequence ==
  ASSUME NEW S, NEW T, S \subseteq T, NEW seq \in Seq(S)
  PROVE  seq \in Seq(T)
<1>1. \A i \in 1 .. Len(seq) : seq[i] \in T
  BY ElementOfSeq
<1>2. Len(seq) \in Nat /\ seq = [i \in 1 .. Len(seq) |-> seq[i]]
  OBVIOUS
<1>3. [i \in 1 .. Len(seq) |-> seq[i]] \in Seq(T)
  BY <1>1, <1>2
<1> QED  BY <1>2, <1>3

LEMMA BytesAreNaturals ==
  ASSUME NEW bytes \in Seq(0..255)
  PROVE  bytes \in Seq(Nat)
<1> DEFINE Byte == 0..255
<1>1. Byte \subseteq Nat
  OBVIOUS
<1>2. bytes \in Seq(Byte)
  OBVIOUS
<1> HIDE DEF Byte
<1> QED  BY <1>1, <1>2, WiderSequence

LEMMA ReaderInvInit == Init => ReaderInv
<1> SUFFICES ASSUME Init PROVE ReaderInv
  OBVIOUS
<1> USE JsonReaderAssumption DEF Init
<1>1. json \in Seq(Nat)
  <2>1. CASE lexemes \in Input /\ json = FlattenSeq(lexemes)
    <3>1. lexemes \in Seq(Seq(0..255))
      BY <2>1
    <3>2. \A i \in 1 .. Len(lexemes) : lexemes[i] \in Seq(Nat)
      BY <3>1, BytesAreNaturals
    <3>3. lexemes \in Seq(Seq(Nat))
      BY <3>1, <3>2, SMTT(30)
    <3> QED  BY <2>1, <3>3, FlattenedBytes
  <2>2. CASE json = <<>>
    BY <2>2
  <2> QED  BY <2>1, <2>2
<1>2. /\ cursor = 1 /\ stack = <<>> /\ member = NoMember /\ visited = <<>>
      /\ status = "OK" /\ pc \in {"serialize", "start"}
      /\ (pc = "serialize" \/ document # None => document \in Document)
  OBVIOUS
<1>3. document # None => document.kind \in {"string", "number", "boolean"}
  BY <1>2
<1>4. TypeOK
  BY <1>1, <1>2, <1>3 DEF TypeOK, NoMember
<1>5. ReaderTyped
  BY <1>1, <1>2 DEF ReaderTyped, NoMember, Kinds
<1>6. Entered
  BY <1>2 DEF Entered
<1>7. MemberBehind
  BY <1>2 DEF MemberBehind, After
<1>8. VisitsInside /\ IntegersFit /\ IntegersExact
  BY <1>2 DEF VisitsInside, IntegersFit, IntegersExact
<1> QED  BY <1>4, <1>5, <1>6, <1>7, <1>8 DEF ReaderInv

LEMMA SerializeKeeps == ReaderInv /\ Serialize => ReaderInv'
<1> SUFFICES ASSUME ReaderInv, Serialize PROVE ReaderInv'
  OBVIOUS
<1> USE JsonReaderAssumption
<1>1. /\ pc = "serialize" /\ document \in Document
      /\ cursor = 1 /\ stack = <<>> /\ member = NoMember /\ visited = <<>>
      /\ json \in Seq(Nat) /\ status \in {"OK", "SERIALIZE", "PARSE", "SCHEMA", "OVERFLOW", "OOM"}
      /\ (pc # "done" => status = "OK")
  BY DEF Serialize, ReaderInv, ReaderTyped, Entered, TypeOK
<1>2. UNCHANGED <<document, cursor, stack, member, visited>>
  BY DEF Serialize
<1> DEFINE name  == WriteString(document.name)
           value == CASE document.kind = "string" -> WriteString(document.value)
                      [] document.kind = "number" -> WriteI64(document.value)
                      [] OTHER                    -> WriteBool(document.value)
<1>3. name \in Written
  <2>1. document.name \in Seq(Nat)
    BY <1>1, BytesAreNaturals
  <2> QED  BY <2>1, WrittenString
<1>4. value \in Written
  <2>1. CASE document.kind = "string"
    <3>1. document.value \in Seq(Nat)
      BY <1>1, <2>1, BytesAreNaturals
    <3>2. value = WriteString(document.value)
      BY <2>1
    <3> QED  BY <3>1, <3>2, WrittenString
  <2>2. CASE document.kind = "number"
    <3>1. document.value \in (-Int64Max - 1) .. Int64Max
      BY <1>1, <2>2
    <3>2. value = WriteI64(document.value)
      BY <2>2
    <3> QED  BY <3>1, <3>2, WrittenInteger
  <2>3. CASE document.kind = "boolean"
    <3>1. document.value \in BOOLEAN
      BY <1>1, <2>3
    <3>2. value = WriteBool(document.value)
      BY <2>3
    <3> QED  BY <3>1, <3>2, WrittenBoolean
  <2> QED  BY <1>1, <2>1, <2>2, <2>3
<1>5. /\ json' \in Seq(Nat)
      /\ \/ pc' = "done" /\ status' = "SERIALIZE"
         \/ pc' = "start" /\ status' = status
  <2>1. \/ pc' = "done" /\ status' = "SERIALIZE" /\ json' = json
        \/ /\ name.status = "OK" /\ value.status = "OK"
           /\ lexemes' = <<<<123>>, name.value, <<Colon>>, value.value, <<125>>>>
           /\ json' = FlattenSeq(lexemes')
           /\ pc' = "start" /\ UNCHANGED status
    BY DEF Serialize, Fail
  <2> HIDE DEF name, value
  <2>2. CASE /\ name.status = "OK" /\ value.status = "OK"
             /\ lexemes' = <<<<123>>, name.value, <<Colon>>, value.value, <<125>>>>
             /\ json' = FlattenSeq(lexemes')
             /\ pc' = "start" /\ UNCHANGED status
    <3>1. name.value \in Seq(Nat) /\ value.value \in Seq(Nat)
      BY <1>3, <1>4, <2>2, WrittenFields
    <3>2. <<123>> \in Seq(Nat) /\ <<Colon>> \in Seq(Nat) /\ <<125>> \in Seq(Nat)
      BY DEF Colon
    <3>3. lexemes' \in Seq(Seq(Nat))
      BY <2>2, <3>1, <3>2
    <3> QED  BY <2>2, <3>3, FlattenedBytes
  <2> QED  BY <1>1, <2>1, <2>2
<1>6. TypeOK'
  <2>1. document.kind \in {"string", "number", "boolean"}
    BY <1>1
  <2> QED  BY <1>1, <1>2, <1>5, <2>1 DEF TypeOK, NoMember
<1>7. ReaderTyped'
  BY <1>1, <1>2, <1>5 DEF ReaderTyped, NoMember, Kinds
<1>8. Entered'
  BY <1>1, <1>2, <1>5 DEF Entered
<1>9. MemberBehind'
  BY <1>1, <1>2, <1>5 DEF MemberBehind, After
<1>10. (VisitsInside /\ IntegersFit /\ IntegersExact)'
  BY <1>1, <1>2 DEF VisitsInside, IntegersFit, IntegersExact
<1> QED  BY <1>6, <1>7, <1>8, <1>9, <1>10 DEF ReaderInv

\* What every step of the scan starts from.
LEMMA ReaderFacts ==
  ASSUME ReaderInv
  PROVE  /\ json \in Seq(Nat) /\ json \in Seq(Int) /\ Len(json) \in Nat
         /\ cursor \in 1 .. Len(json) + 1
         /\ stack \in Seq({"object", "array"}) /\ Len(stack) <= MaxDepth
         /\ member.key[1] \in Nat /\ member.key[2] \in Nat /\ member.from \in Nat
         /\ member.kind \in Kinds
<1>1. json \in Seq(Nat)
  BY DEF ReaderInv, ReaderTyped
<1>2. json \in Seq(Int)
  BY <1>1, NaturalsAreIntegers
<1> QED  BY <1>1, <1>2 DEF ReaderInv, TypeOK, ReaderTyped

\* The calls are all before a later position too.
LEMMA AfterGrows ==
  ASSUME ReaderInv, NEW i \in Int, NEW j \in Int, After(i), i <= j
  PROVE  After(j)
<1>1. Len(visited) \in Nat
  BY DEF ReaderInv, ReaderTyped
<1>2. \A n \in DOMAIN visited : visited[n].value[2] \in Int
  BY DEF ReaderInv, ReaderTyped
<1> QED  BY <1>1, <1>2 DEF After

\* A step that moves the cursor on, calls nobody and keeps the member where it is
\* needed keeps the invariant.
LEMMA MoveKeeps ==
  ASSUME ReaderInv, UNCHANGED <<text, visited>>,
         cursor' \in cursor .. Len(json) + 1,
         stack' \in Seq({"object", "array"}), Len(stack') <= MaxDepth, Entered',
         pc' \in {"key", "value", "scanned", "next", "end", "done"},
         status' \in {"OK", "PARSE"}, pc' # "done" => status' = "OK",
         member' \in [key : Nat \X Nat, from : Nat, kind : Kinds],
         member'.key[1] \in 1 .. Len(json) + 1, member'.from \in 1 .. Len(json) + 1,
         pc' \in {"value", "scanned"} \/ (pc' = "key" /\ Len(stack') > 1) => MemberRead',
         pc' = "scanned" \/ (pc' \in {"key", "value"} /\ Len(stack') > 1) => member'.from < cursor',
         pc # "serialize"
  PROVE  ReaderInv'
<1> USE DEF text
<1>1. After(cursor)'
  <2>1. After(cursor)
    BY DEF ReaderInv, MemberBehind
  <2>2. cursor \in Int /\ cursor' \in Int /\ cursor <= cursor'
    BY ReaderFacts
  <2>3. After(cursor')
    BY <2>1, <2>2, AfterGrows
  <2> QED  BY <2>3 DEF After
<1>2. Len(visited) <= Len(json)
  <2>1. Len(visited) \in Nat /\ cursor' \in Int
    BY ReaderFacts DEF ReaderInv, ReaderTyped
  <2>2. Len(visited) < cursor'
    BY <1>1 DEF After
  <2> QED  BY <2>1, <2>2, ReaderFacts
<1>3. TypeOK'
  <2>1. document # None => document.kind \in {"string", "number", "boolean"}
    BY DEF ReaderInv, TypeOK
  <2>2. cursor' \in 1 .. Len(json) + 1
    BY ReaderFacts
  <2> QED  BY <1>2, <2>1, <2>2 DEF TypeOK
<1>4. ReaderTyped'
  BY DEF ReaderTyped, ReaderInv
<1>5. MemberBehind'
  BY <1>1 DEF MemberBehind
<1>6. (VisitsInside /\ IntegersFit /\ IntegersExact)'
  BY DEF ReaderInv, VisitsInside, IntegersFit, IntegersExact
<1> QED  BY <1>3, <1>4, <1>5, <1>6 DEF ReaderInv

\* So does one that ends the scan where it is.
LEMMA StopKeeps ==
  ASSUME ReaderInv, UNCHANGED <<text, visited, cursor, stack>>, pc' = "done",
         status' \in {"OK", "PARSE"}, pc # "serialize",
         member' \in [key : Nat \X Nat, from : Nat, kind : Kinds],
         member'.key = member.key, member'.from = member.from
  PROVE  ReaderInv'
<1>1. Entered'
  BY DEF ReaderInv, Entered
<1>2. member.key[1] \in 1 .. Len(json) + 1 /\ member.from \in 1 .. Len(json) + 1
  BY DEF ReaderInv, TypeOK
<1> QED  BY <1>1, <1>2, ReaderFacts, MoveKeeps

LEMMA FinishKeeps == ReaderInv /\ Finish => ReaderInv'
<1> SUFFICES ASSUME ReaderInv, Finish PROVE ReaderInv'
  OBVIOUS
<1>1. UNCHANGED <<text, cursor, stack, member, visited>> /\ pc = "end" /\ pc' = "done"
      /\ status' \in {status, "PARSE"}
  BY DEF Finish, Fail
<1>2. status = "OK"
  BY <1>1 DEF ReaderInv, TypeOK
<1>3. member \in [key : Nat \X Nat, from : Nat, kind : Kinds]
  BY DEF ReaderInv, ReaderTyped
<1> QED  BY <1>1, <1>2, <1>3, StopKeeps

\* The bracket at i is behind the cursor that it leaves.
LEMMA EnterMoves ==
  ASSUME json \in Seq(Int), NEW call \in {"object", "array"}, NEW i \in 1 .. Len(json),
         stack \in Seq({"object", "array"}), Enter(call, i)
  PROVE  /\ cursor' \in i + 1 .. Len(json) + 1
         /\ \/ stack' = stack /\ pc' = IF stack = <<>> THEN "end" ELSE "scanned"
            \/ /\ stack' = Append(stack, call)
               /\ pc' = IF call = "object" THEN "key" ELSE "value"
<1> DEFINE first == SkipWhitespace(json, i + 1)
<1>1. first \in i + 1 .. Len(json) + 1
  BY WhitespaceEnd
<1>2. CASE At(json, first) = Brace(call)
  <2>1. first \in 1 .. Len(json)
    <3> HIDE DEF first
    <3> QED  BY <1>1, <1>2 DEF At, Brace
  <2>2. cursor' = first + 1 /\ stack' = stack /\ pc' = IF stack = <<>> THEN "end" ELSE "scanned"
    BY <1>2 DEF Enter
  <2> HIDE DEF first
  <2> QED  BY <1>1, <2>1, <2>2
<1>3. CASE At(json, first) # Brace(call)
  <2>1. cursor' = first /\ stack' = Append(stack, call)
        /\ pc' = IF call = "object" THEN "key" ELSE "value"
    BY <1>3 DEF Enter
  <2> QED  BY <1>1, <2>1
<1> QED  BY <1>2, <1>3

LEMMA StartKeeps == ReaderInv /\ Start => ReaderInv'
<1> SUFFICES ASSUME ReaderInv, Start PROVE ReaderInv'
  OBVIOUS
<1> DEFINE first == SkipWhitespace(json, 1)
<1>1. pc = "start" /\ UNCHANGED <<text, member, visited>>
  BY DEF Start
<1>2. /\ cursor = 1 /\ stack = <<>> /\ member = NoMember /\ visited = <<>> /\ status = "OK"
      /\ member \in [key : Nat \X Nat, from : Nat, kind : Kinds]
      /\ member.key[1] \in 1 .. Len(json) + 1 /\ member.from \in 1 .. Len(json) + 1
  BY <1>1 DEF ReaderInv, TypeOK, Entered, ReaderTyped
<1>3. CASE Fail("PARSE") /\ UNCHANGED <<cursor, stack>>
  BY <1>1, <1>2, <1>3, StopKeeps DEF Fail
<1>4. CASE At(json, first) = 123 /\ Enter("object", first) /\ UNCHANGED status
  <2>1. first \in 1 .. Len(json)
    <3>1. first \in 1 .. Len(json) + 1
      BY ReaderFacts, WhitespaceEnd
    <3> HIDE DEF first
    <3> QED  BY <1>4, <3>1, ReaderFacts DEF At
  <2> HIDE DEF first
  <2>2. /\ cursor' \in first + 1 .. Len(json) + 1
        /\ \/ stack' = <<>> /\ pc' = "end"
           \/ stack' = <<"object">> /\ pc' = "key"
    <3>1. Append(<<>>, "object") = <<"object">>
      OBVIOUS
    <3> QED  BY <1>2, <1>4, <2>1, <3>1, ReaderFacts, EnterMoves
  <2>3. cursor' \in cursor .. Len(json) + 1
    BY <1>2, <2>1, <2>2, ReaderFacts
  <2>4. stack' \in Seq({"object", "array"}) /\ Len(stack') <= 1
    <3>1. <<>> \in Seq({"object", "array"}) /\ Len(<<>>) = 0
      OBVIOUS
    <3>2. <<"object">> \in Seq({"object", "array"}) /\ Len(<<"object">>) = 1
      OBVIOUS
    <3>3. CASE stack' = <<>>
      BY <3>1, <3>3
    <3>4. CASE stack' = <<"object">>
      BY <3>2, <3>4
    <3> QED  BY <2>2, <3>3, <3>4
  <2>5. Len(stack') <= MaxDepth
    BY <2>2, <2>4, JsonReaderAssumption
  <2>6. Entered'
    BY <2>2 DEF Entered
  <2>7. ~(Len(stack') > 1)
    BY <2>2
  <2> QED  BY <1>1, <1>2, <1>4, <2>2, <2>3, <2>4, <2>5, <2>6, <2>7, MoveKeeps
<1> QED  BY <1>3, <1>4 DEF Start

LEMMA ScanKeyKeeps == ReaderInv /\ ScanKey => ReaderInv'
<1> SUFFICES ASSUME ReaderInv, ScanKey PROVE ReaderInv'
  OBVIOUS
<1> DEFINE end   == ScanString(json, cursor)
           colon == SkipWhitespace(json, end)
           behind == SkipWhitespace(json, colon + 1)
<1>1. pc = "key" /\ UNCHANGED <<text, stack, visited>> /\ stack # <<>> /\ status = "OK"
      /\ member \in [key : Nat \X Nat, from : Nat, kind : Kinds]
  BY DEF ScanKey, ReaderInv, Entered, ReaderTyped, TypeOK
<1>2. CASE Fail("PARSE") /\ UNCHANGED <<cursor, member>>
  BY <1>1, <1>2, StopKeeps DEF Fail
<1>3. CASE /\ end # 0 /\ At(json, colon) = Colon /\ cursor' = behind
           /\ member' = IF Len(stack) > 1 THEN member
                        ELSE [member EXCEPT !.key = <<cursor + 1, end - 2>>, !.from = behind]
           /\ pc' = "value" /\ UNCHANGED status
  <2>1. end \in cursor + 2 .. Len(json) + 1
    <3>1. end \in {0} \cup (cursor + 2 .. Len(json) + 1)
      BY ReaderFacts, StringInside
    <3> HIDE DEF end
    <3> QED  BY <1>3, <3>1
  <2>2. colon \in end .. Len(json) /\ colon \in 1 .. Len(json)
    <3> HIDE DEF end
    <3>1. colon \in end .. Len(json) + 1
      BY <2>1, ReaderFacts, WhitespaceEnd
    <3>2. colon \in Int
      BY <2>1, <3>1, ReaderFacts
    <3> HIDE DEF colon
    <3>3. colon \in 1 .. Len(json)
      BY <1>3, <3>2, ReaderFacts, ByteInside DEF Colon
    <3> QED  BY <2>1, <3>1, <3>3, ReaderFacts
  <2>3. behind \in colon + 1 .. Len(json) + 1
    <3> HIDE DEF colon
    <3> QED  BY <2>2, ReaderFacts, WhitespaceEnd, SMTT(20)
  <2> HIDE DEF end, colon, behind
  <2>4. cursor' \in cursor .. Len(json) + 1
    BY <1>3, <2>1, <2>2, <2>3, ReaderFacts
  <2>5. Entered'
    BY <1>1, <1>3 DEF ReaderInv, Entered
  <2>6. /\ member' \in [key : Nat \X Nat, from : Nat, kind : Kinds]
        /\ member'.key[1] \in 1 .. Len(json) + 1 /\ member'.from \in 1 .. Len(json) + 1
        /\ MemberRead'
        /\ Len(stack') > 1 => member'.from < cursor'
    <3>1. CASE Len(stack) > 1
      <4>1. MemberRead /\ member.from < cursor /\ member' = member
        BY <1>1, <1>3, <3>1 DEF ReaderInv, MemberBehind
      <4>2. member.key[1] \in 1 .. Len(json) + 1 /\ member.from \in 1 .. Len(json) + 1
        BY DEF ReaderInv, TypeOK
      <4>3. member.from < cursor'
        BY <2>4, <4>1, ReaderFacts
      <4>4. MemberRead'
        <5>1. After(member.key[1])'
          BY <1>1, <4>1 DEF MemberRead, After
        <5>2. member.from <= cursor'
          BY <2>4, <4>3, ReaderFacts
        <5> QED  BY <4>1, <5>1, <5>2 DEF MemberRead
      <4> QED  BY <1>1, <4>1, <4>2, <4>3, <4>4
    <3>2. CASE ~(Len(stack) > 1)
      <4>1. member' = [member EXCEPT !.key = <<cursor + 1, end - 2>>, !.from = behind]
        BY <1>3, <3>2
      <4>2. cursor \in Nat /\ end \in Nat /\ end >= cursor + 2 /\ end - 2 \in Nat
            /\ cursor + 1 \in 1 .. Len(json) + 1
        BY <2>1, ReaderFacts, SMTT(20)
      <4>3. colon \in Nat /\ behind \in 1 .. Len(json) + 1 /\ behind \in Nat
            /\ (end - 2) + 1 < behind /\ cursor + 1 <= (end - 2) + 1 /\ cursor + 1 > 1
            /\ behind <= behind
        BY <2>2, <2>3, <4>2, ReaderFacts
      <4>4. <<cursor + 1, end - 2>> \in Nat \X Nat
        BY <4>2
      <4>5. member' \in [key : Nat \X Nat, from : Nat, kind : Kinds]
        BY <1>1, <4>1, <4>3, <4>4
      <4>6. /\ member'.key[1] = cursor + 1 /\ member'.key[2] = end - 2
            /\ member'.from = behind
        BY <1>1, <4>1
      <4>7. After(cursor + 1)
        <5>1. After(cursor)
          BY DEF ReaderInv, MemberBehind
        <5> QED  BY <4>2, <5>1, AfterGrows
      <4>8. MemberRead'
        <5>1. After(member.key[1])'
          BY <1>1, <4>6, <4>7 DEF After
        <5>2. cursor' = behind
          BY <1>3
        <5> QED  BY <4>3, <4>6, <5>1, <5>2 DEF MemberRead
      <4> QED  BY <1>1, <3>2, <4>2, <4>3, <4>5, <4>6, <4>8
    <3> QED  BY <3>1, <3>2
  <2> QED  BY <1>1, <1>3, <2>4, <2>5, <2>6, ReaderFacts, MoveKeeps
<1> QED  BY <1>2, <1>3 DEF ScanKey

LEMMA ScanValueKeeps == ReaderInv /\ ScanValue => ReaderInv'
<1> SUFFICES ASSUME ReaderInv, ScanValue PROVE ReaderInv'
  OBVIOUS
<1> DEFINE first == SkipWhitespace(json, cursor)
           kind  == KindOf(At(json, first))
           end   == ScanScalar(first)
<1>1. /\ pc = "value" /\ UNCHANGED <<text, visited>> /\ stack # <<>> /\ status = "OK"
      /\ member \in [key : Nat \X Nat, from : Nat, kind : Kinds]
      /\ member.key[1] \in 1 .. Len(json) + 1 /\ member.from \in 1 .. Len(json) + 1
  BY DEF ScanValue, ReaderInv, Entered, ReaderTyped, TypeOK
<1>2. kind \in Kinds
  BY KindsOfValues
<1>3. /\ member' \in [key : Nat \X Nat, from : Nat, kind : Kinds]
      /\ member'.key = member.key /\ member'.from = member.from
  <2>1. member' = IF Len(stack) > 1 THEN member ELSE [member EXCEPT !.kind = kind]
    BY DEF ScanValue
  <2> HIDE DEF kind
  <2> QED  BY <1>1, <1>2, <2>1
<1>4. MemberRead
  BY <1>1 DEF ReaderInv, MemberBehind
<1>5. first \in cursor .. Len(json) + 1
  BY ReaderFacts, WhitespaceEnd
<1>6. kind # "none" => first \in 1 .. Len(json)
  <2>1. kind # "none" => At(json, first) # -1
    BY KindsOfValues
  <2> HIDE DEF kind, first
  <2>2. first \in Int
    BY <1>5, ReaderFacts
  <2> QED  BY <2>1, <2>2, ReaderFacts, ByteInside
\* The member stays where it is and the cursor moves behind its first byte.
<1>7. ASSUME cursor' \in first + 1 .. Len(json) + 1
      PROVE  /\ cursor' \in cursor .. Len(json) + 1
             /\ MemberRead' /\ member'.from < cursor'
  <2> HIDE DEF first
  <2>1. cursor' \in cursor .. Len(json) + 1
    BY <1>5, <1>7, ReaderFacts
  <2>2. member.from < cursor'
    BY <1>4, <1>5, <1>7, ReaderFacts DEF MemberRead
  <2>3. MemberRead'
    BY <1>1, <1>3, <1>4, <2>1, <2>2, ReaderFacts DEF MemberRead, After
  <2> QED  BY <1>3, <2>1, <2>2, <2>3
<1>8. CASE Fail("PARSE") /\ UNCHANGED <<cursor, stack>>
  BY <1>1, <1>3, <1>8, StopKeeps DEF Fail
<1>9. CASE kind \in {"object", "array"} /\ ~TooDeep /\ Enter(kind, first) /\ UNCHANGED status
  <2> HIDE DEF kind, first
  <2>1. /\ cursor' \in first + 1 .. Len(json) + 1
        /\ \/ stack' = stack /\ pc' = "scanned"
           \/ stack' = Append(stack, kind) /\ pc' \in {"key", "value"}
    BY <1>1, <1>6, <1>9, ReaderFacts, EnterMoves
  <2>2. /\ stack' \in Seq({"object", "array"}) /\ Len(stack') <= MaxDepth
        /\ stack' # <<>> /\ stack'[1] = "object"
    <3>1. stack[1] = "object" /\ Len(stack) >= 1
      BY <1>1, ReaderFacts DEF ReaderInv, Entered
    <3>2. CASE stack' = stack
      BY <3>1, <3>2, ReaderFacts
    <3>3. CASE stack' = Append(stack, kind)
      <4>1. /\ Len(stack) \in Nat /\ Len(stack') = Len(stack) + 1
            /\ stack' \in Seq({"object", "array"}) /\ stack'[1] = stack[1]
        BY <1>9, <3>1, <3>3, ReaderFacts
      <4>2. Len(stack) < MaxDepth
        <5>1. ~(Len(stack) >= MaxDepth)
          BY <1>9 DEF TooDeep
        <5> QED  BY <4>1, <5>1, JsonReaderAssumption
      <4>3. Len(stack') <= MaxDepth
        BY <4>1, <4>2, JsonReaderAssumption
      <4>4. stack' # <<>>
        BY <4>1
      <4> QED  BY <3>1, <4>1, <4>3, <4>4
    <3> QED  BY <2>1, <3>2, <3>3
  <2>3. Entered'
    BY <2>1, <2>2 DEF Entered
  <2>4. /\ cursor' \in cursor .. Len(json) + 1 /\ MemberRead' /\ member'.from < cursor'
    BY <1>7, <2>1
  <2> QED  BY <1>1, <1>3, <1>9, <2>1, <2>2, <2>3, <2>4, MoveKeeps
<1>10. CASE /\ kind \notin {"none", "object", "array"} /\ end # 0
            /\ cursor' = end /\ pc' = "scanned" /\ UNCHANGED <<stack, status>>
  <2>1. cursor' \in first + 1 .. Len(json) + 1
    <3>1. end \in {0} \cup (first + 1 .. Len(json) + 1)
      BY <1>6, <1>10, ReaderFacts, ScalarInside
    <3> HIDE DEF end, first
    <3> QED  BY <1>10, <3>1
  <2> HIDE DEF kind, first, end
  <2>2. Entered'
    BY <1>1, <1>10 DEF ReaderInv, Entered
  <2>3. /\ cursor' \in cursor .. Len(json) + 1 /\ MemberRead' /\ member'.from < cursor'
    BY <1>7, <2>1
  <2> QED  BY <1>1, <1>3, <1>10, <2>2, <2>3, ReaderFacts, MoveKeeps
<1> QED  BY <1>8, <1>9, <1>10 DEF ScanValue

LEMMA NextItemKeeps == ReaderInv /\ NextItem => ReaderInv'
<1> SUFFICES ASSUME ReaderInv, NextItem PROVE ReaderInv'
  OBVIOUS
<1> DEFINE at   == SkipWhitespace(json, cursor)
           byte == At(json, at)
           end  == Brace(Last(stack))
           next == SkipWhitespace(json, at + 1)
<1>1. /\ pc = "next" \/ (pc = "scanned" /\ Len(stack) > 1)
      /\ UNCHANGED <<text, member, visited>> /\ status = "OK" /\ stack # <<>>
      /\ pc = "next" => Len(stack) = 1
      /\ member \in [key : Nat \X Nat, from : Nat, kind : Kinds]
      /\ member.key[1] \in 1 .. Len(json) + 1 /\ member.from \in 1 .. Len(json) + 1
      /\ stack[1] = "object"
  <2>1. pc = "next" \/ (pc = "scanned" /\ Len(stack) > 1)
    BY DEF NextItem
  <2>2. stack # <<>>
    <3>1. pc = "scanned" => stack # <<>>
      BY DEF ReaderInv, Entered
    <3>2. Len(stack) = 1 => stack # <<>>
      OBVIOUS
    <3> QED  BY <2>1, <3>1, <3>2 DEF ReaderInv, Entered
  <2> QED  BY <2>1, <2>2 DEF NextItem, ReaderInv, Entered, ReaderTyped, TypeOK
<1>2. at \in cursor .. Len(json) + 1 /\ at \in Int
  <2>1. at \in cursor .. Len(json) + 1
    BY ReaderFacts, WhitespaceEnd
  <2> HIDE DEF at
  <2> QED  BY <2>1, ReaderFacts
<1>3. Len(stack) > 1 => MemberRead /\ member.from < cursor
  <2>1. pc = "scanned" => MemberRead /\ member.from < cursor
    BY DEF ReaderInv, MemberBehind
  <2>2. Len(stack) > 1 => pc = "scanned"
    <3>1. Len(stack) > 1 => Len(stack) # 1
      <4>1. Len(stack) \in Nat
        <5>1. stack \in Seq({"object", "array"})
          BY DEF ReaderInv, TypeOK
        <5> QED  BY ONLY <5>1
      <4>2. PICK n \in Nat : n = Len(stack)
        BY ONLY <4>1
      <4>3. n > 1 => n # 1
        BY ONLY n \in Nat
      <4> QED  BY ONLY <4>2, <4>3
    <3>2. (pc = "next" \/ pc = "scanned") /\ (pc = "next" => Len(stack) = 1)
      BY <1>1
    <3> QED  BY ONLY <3>1, <3>2
  <2> QED  BY <2>1, <2>2
<1>4. ASSUME cursor' \in cursor .. Len(json) + 1, Len(stack) > 1
      PROVE  MemberRead' /\ member'.from < cursor'
  <2>1. member.from < cursor' /\ member.from <= cursor'
    BY <1>3, <1>4, ReaderFacts
  <2>2. After(member.key[1])'
    BY <1>1, <1>3, <1>4 DEF MemberRead, After
  <2> QED  BY <1>1, <1>3, <1>4, <2>1, <2>2 DEF MemberRead
<1>5. CASE /\ byte = end /\ cursor' = at + 1 /\ stack' = Front(stack)
           /\ pc' = IF Len(stack) = 1 THEN "end" ELSE "scanned"
           /\ UNCHANGED status
  <2>1. cursor' \in cursor .. Len(json) + 1
    <3>1. at \in 1 .. Len(json)
      <4>1. At(json, at) # -1
        <5>1. end # -1
          BY DEF Brace
        <5> QED  BY <1>5, <5>1
      <4> HIDE DEF at
      <4> QED  BY <1>2, <4>1, ReaderFacts, ByteInside
    <3> HIDE DEF at
    <3> QED  BY <1>2, <1>5, <3>1, ReaderFacts
  <2>2. /\ stack' \in Seq({"object", "array"}) /\ Len(stack') = Len(stack) - 1
        /\ Len(stack') <= MaxDepth
        /\ Len(stack) > 1 => stack' # <<>> /\ stack'[1] = "object"
        /\ Len(stack) = 1 => stack' = <<>>
    <3>1. Len(stack) >= 1
      BY <1>1, ReaderFacts
    <3>2. stack' = SubSeq(stack, 1, Len(stack) - 1)
      BY <1>5 DEF Front
    <3>3. Len(stack) \in Nat /\ Len(stack) <= MaxDepth /\ MaxDepth \in Nat
          /\ stack \in Seq({"object", "array"})
      BY ReaderFacts, JsonReaderAssumption
    <3>4. stack' \in Seq({"object", "array"}) /\ Len(stack') = Len(stack) - 1
          /\ \A i \in 1 .. Len(stack) - 1 : stack'[i] = stack[i]
      <4> DEFINE Call == {"object", "array"}
      <4>1. stack \in Seq(Call)
        BY <3>3
      <4> HIDE DEF Call
      <4>2. stack' \in Seq(Call) /\ Len(stack') = Len(stack) - 1
            /\ \A i \in 1 .. Len(stack) - 1 : stack'[i] = stack[i]
        <5> DEFINE n == Len(stack) - 1
        <5>1. n \in Int /\ n >= 0 /\ \A i \in 1..n : stack[i] \in Call
          BY <3>1, <3>3, <4>1
        <5>2. stack' = SubSeq(stack, 1, n)
          BY <3>2
        <5> HIDE DEF n
        <5>3. /\ SubSeq(stack, 1, n) \in Seq(Call)
              /\ Len(SubSeq(stack, 1, n)) = IF 1 <= n THEN n - 1 + 1 ELSE 0
              /\ \A i \in 1 .. n - 1 + 1 : SubSeq(stack, 1, n)[i] = stack[1 + i - 1]
          BY <5>1, SubSeqProperties
        <5>4. \A i \in 1..n : i \in 1 .. n - 1 + 1 /\ 1 + i - 1 = i
          BY <5>1
        <5>5. stack' \in Seq(Call) /\ Len(stack') = n /\ \A i \in 1..n : stack'[i] = stack[i]
          BY <5>1, <5>2, <5>3, <5>4
        <5> QED  BY <5>5 DEF n
      <4> QED  BY <4>2 DEF Call
    <3>5. Len(stack) > 1 => stack' # <<>> /\ stack'[1] = "object"
      BY <1>1, <3>3, <3>4
    <3>6. Len(stack) = 1 => stack' = <<>>
      BY <3>4
    <3> QED  BY <3>3, <3>4, <3>5, <3>6
  <2>3. Len(stack) > 1 \/ Len(stack) = 1
    BY <1>1
  <2>4. Entered'
    BY <1>5, <2>2, <2>3 DEF Entered
  <2> QED  BY <1>1, <1>4, <1>5, <2>1, <2>2, <2>3, <2>4, MoveKeeps
<1>6. CASE /\ byte = Comma /\ cursor' = next
           /\ pc' = IF Last(stack) = "object" THEN "key" ELSE "value"
           /\ UNCHANGED <<stack, status>>
  <2>1. cursor' \in cursor .. Len(json) + 1
    <3>1. at \in 1 .. Len(json)
      <4> HIDE DEF at
      <4> QED  BY <1>2, <1>6, ReaderFacts, ByteInside DEF Comma
    <3>2. next \in at + 1 .. Len(json) + 1
      <4> HIDE DEF at
      <4> QED  BY <3>1, ReaderFacts, WhitespaceEnd, SMTT(20)
    <3> HIDE DEF at, next
    <3> QED  BY <1>2, <1>6, <3>1, <3>2, ReaderFacts
  <2>2. pc' \in {"key", "value"} /\ (pc' = "value" => Len(stack) > 1)
    <3>1. Len(stack) = 1 => Last(stack) = "object"
      BY <1>1 DEF Last
    <3> QED  BY <1>1, <1>6, <3>1
  <2>3. Entered'
    BY <1>1, <1>6, <2>2 DEF Entered
  <2> QED  BY <1>1, <1>4, <1>6, <2>1, <2>2, <2>3, ReaderFacts, MoveKeeps
<1>7. CASE Fail("PARSE") /\ UNCHANGED <<cursor, stack>>
  BY <1>1, <1>7, StopKeeps DEF Fail
<1> QED  BY <1>5, <1>6, <1>7 DEF NextItem

\* The call of the visitor is added behind the others.
LEMMA VisitKeeps == ReaderInv /\ Visit => ReaderInv'
<1> SUFFICES ASSUME ReaderInv, Visit PROVE ReaderInv'
  OBVIOUS
<1> DEFINE raw == SubSeq(json, member.from, cursor - 1)
<1>1. /\ pc = "scanned" /\ Len(stack) = 1 /\ UNCHANGED <<text, cursor, stack, member>>
      /\ status = "OK" /\ MemberRead /\ member.from < cursor
      /\ member \in [key : Nat \X Nat, from : Nat, kind : Kinds]
      /\ member.key[1] \in 1 .. Len(json) + 1 /\ member.from \in 1 .. Len(json) + 1
  BY DEF Visit, ReaderInv, TypeOK, ReaderTyped, MemberBehind
<1>2. raw \in Seq(Nat)
  BY <1>1, ReaderFacts
<1> DEFINE Called(want, got, names) ==
             /\ got \in Converted(want, member.kind, raw)
             /\ visited' = Append(visited, [key |-> member.key, value |-> <<member.from, cursor - 1>>,
                                            kind |-> member.kind, names |-> names,
                                            want |-> want, got |-> got])
             /\ \/ pc' = "next" /\ status' = status /\ got.status = "OK"
                \/ pc' = "done" /\ status' = got.status
<1>3. PICK want \in Wants : \E got, names : Called(want, got, names)
  BY DEF Visit, Fail, Wants
<1>4. PICK got, names : Called(want, got, names)
  BY <1>3
<1> HIDE DEF raw
<1>5. /\ got.status \in {"OK", "SCHEMA", "OVERFLOW", "OOM", "PARSE"}
      /\ want = "number" /\ got.status = "OK" => got.value \in (-Int64Max - 1) .. Int64Max
      /\ want = "number" /\ member.kind = "number" => ExactInteger(raw, got)
  BY <1>2, <1>4, ConvertedResult
<1> DEFINE call == [key |-> member.key, value |-> <<member.from, cursor - 1>>,
                    kind |-> member.kind, names |-> names, want |-> want, got |-> got]
           old == Len(visited)
<1>6. /\ call.key = member.key /\ call.value = <<member.from, cursor - 1>>
      /\ call.want = want /\ call.got = got /\ call.kind = member.kind
  OBVIOUS
<1>7. visited' = Append(visited, call)
  BY <1>4
<1> HIDE DEF call
<1>8. /\ old \in Nat /\ DOMAIN visited = 1..old
      /\ Len(visited') = old + 1 /\ DOMAIN visited' = 1 .. old + 1
      /\ visited'[old + 1] = call /\ \A n \in 1..old : visited'[n] = visited[n]
      /\ visited' \in Seq({visited'[n] : n \in DOMAIN visited'})
  <2> DEFINE S == {visited[n] : n \in DOMAIN visited}
  <2>1. visited \in Seq(S)
    BY DEF ReaderInv, ReaderTyped
  <2> HIDE DEF S
  <2>2. /\ old \in Nat /\ DOMAIN visited = 1..old
        /\ Len(visited') = old + 1 /\ DOMAIN visited' = 1 .. old + 1
        /\ visited'[old + 1] = call /\ \A n \in 1..old : visited'[n] = visited[n]
        /\ visited' \in Seq(S \cup {call})
    <3>1. visited \in Seq(S \cup {call})
      BY <2>1, WiderSequence
    <3> QED  BY <1>7, <3>1
  <2>3. \A n \in DOMAIN visited' : visited'[n] \in {visited'[m] : m \in DOMAIN visited'}
    OBVIOUS
  <2>4. visited' = [n \in 1 .. old + 1 |-> visited'[n]]
    BY <2>2
  <2>5. visited' \in Seq({visited'[n] : n \in DOMAIN visited'})
    <3> DEFINE T == {visited'[n] : n \in DOMAIN visited'}
    <3>1. \A n \in 1 .. old + 1 : visited'[n] \in T
      BY <2>2
    <3> HIDE DEF T
    <3>2. [n \in 1 .. old + 1 |-> visited'[n]] \in Seq(T)
      BY <2>2, <3>1
    <3> QED  BY <2>4, <3>2 DEF T
  <2> QED  BY <2>2, <2>5
<1> HIDE DEF old
<1>9. /\ call.key[1] = member.key[1] /\ call.key[2] = member.key[2]
      /\ call.value[1] = member.from /\ call.value[2] = cursor - 1
      /\ call.key \in Nat \X Nat /\ call.value \in Nat \X Nat
  <2>1. member.from \in Nat /\ cursor - 1 \in Nat
    BY <1>1, ReaderFacts
  <2> QED  BY <1>1, <1>6, <2>1
<1>10. /\ old < member.key[1] /\ \A n \in 1..old : visited[n].value[2] < member.key[1]
      /\ member.key[1] > 1 /\ member.key[1] <= member.key[2] + 1
      /\ member.key[2] + 1 < member.from
  BY <1>1, <1>8 DEF MemberRead, After, old
<1>11. After(cursor)'
  <2>1. old + 1 < cursor
    BY <1>1, <1>8, <1>10, ReaderFacts
  <2>2. \A n \in 1..old : visited[n].value[2] < cursor
    <3>1. After(cursor)
      BY DEF ReaderInv, MemberBehind
    <3> QED  BY <1>8, <3>1 DEF After
  <2>3. call.value[2] < cursor
    BY <1>9, ReaderFacts
  <2>4. \A n \in 1 .. old + 1 : n \in 1..old \/ n = old + 1
    BY <1>8
  <2> QED  BY <1>1, <1>8, <2>1, <2>2, <2>3, <2>4 DEF After
<1>12. TypeOK'
  <2>1. Len(visited') <= Len(json)
    BY <1>1, <1>8, <1>10, ReaderFacts
  <2>2. /\ document # None => document.kind \in {"string", "number", "boolean"}
        /\ status \in {"OK", "SERIALIZE", "PARSE", "SCHEMA", "OVERFLOW", "OOM"}
    BY DEF ReaderInv, TypeOK
  <2> QED  BY <1>1, <1>4, <1>5, <2>1, <2>2, ReaderFacts DEF TypeOK, text
<1>13. ReaderTyped'
  <2>1. \A n \in 1 .. old + 1 :
          visited'[n].key \in Nat \X Nat /\ visited'[n].value \in Nat \X Nat
    <3>1. \A n \in 1..old : visited[n].key \in Nat \X Nat /\ visited[n].value \in Nat \X Nat
      BY <1>8 DEF ReaderInv, ReaderTyped
    <3>2. \A n \in 1 .. old + 1 : n \in 1..old \/ n = old + 1
      BY <1>8
    <3> QED  BY <1>8, <1>9, <3>1, <3>2
  <2>2. /\ pc = "serialize" \/ document # None => document \in Document
        /\ json \in Seq(Nat)
    BY DEF ReaderInv, ReaderTyped
  <2>3. pc = "scanned" /\ pc' # "serialize" /\ UNCHANGED <<document, json, member>>
    BY <1>1, <1>4 DEF text
  <2> QED  BY <1>1, <1>8, <2>1, <2>2, <2>3 DEF ReaderTyped
<1>14. Entered'
  BY <1>1, <1>4 DEF ReaderInv, Entered
<1>15. MemberBehind'
  BY <1>4, <1>11 DEF MemberBehind
<1>16. VisitsInside'
  <2>1. \A n \in 1..old :
          /\ IF n = 1 THEN visited[n].key[1] > 1
                      ELSE visited[n - 1].value[2] < visited[n].key[1]
          /\ visited[n].key[1] <= visited[n].key[2] + 1
          /\ visited[n].key[2] + 1 < visited[n].value[1]
          /\ visited[n].value[1] <= visited[n].value[2]
          /\ visited[n].value[2] <= Len(json)
    BY <1>8 DEF ReaderInv, VisitsInside
  <2>2. \A n \in 1..old : n # 1 => n - 1 \in 1..old
    BY <1>8
  <2>3. ASSUME NEW n \in 1..old
        PROVE  /\ IF n = 1 THEN visited'[n].key[1] > 1
                           ELSE visited'[n - 1].value[2] < visited'[n].key[1]
               /\ visited'[n].key[1] <= visited'[n].key[2] + 1
               /\ visited'[n].key[2] + 1 < visited'[n].value[1]
               /\ visited'[n].value[1] <= visited'[n].value[2]
               /\ visited'[n].value[2] <= Len(json)
    BY <1>8, <2>1, <2>2
  <2>4. /\ IF old + 1 = 1 THEN call.key[1] > 1
                          ELSE visited'[(old + 1) - 1].value[2] < call.key[1]
        /\ call.key[1] <= call.key[2] + 1 /\ call.key[2] + 1 < call.value[1]
        /\ call.value[1] <= call.value[2] /\ call.value[2] <= Len(json)
    <3>1. old + 1 # 1 => (old + 1) - 1 \in 1..old
      BY <1>8
    <3>2. member.from <= cursor - 1 /\ cursor - 1 <= Len(json)
      BY <1>1, ReaderFacts
    <3> QED  BY <1>8, <1>9, <1>10, <3>1, <3>2
  <2>5. \A n \in 1 .. old + 1 : n \in 1..old \/ n = old + 1
    BY <1>8
  <2>6. json' = json
    BY <1>1 DEF text
  <2> QED  BY <1>8, <2>3, <2>4, <2>5, <2>6 DEF VisitsInside
<1>17. IntegersFit'
  <2>1. \A n \in 1..old : visited[n].want = "number" /\ visited[n].got.status = "OK" =>
          visited[n].got.value \in (-Int64Max - 1) .. Int64Max
    BY <1>8 DEF ReaderInv, IntegersFit
  <2>2. \A n \in 1 .. old + 1 : n \in 1..old \/ n = old + 1
    BY <1>8
  <2> QED  BY <1>5, <1>6, <1>8, <2>1, <2>2 DEF IntegersFit
<1>18. IntegersExact'
  <2>1. \A n \in 1..old : visited[n].want = "number" /\ visited[n].kind = "number" =>
          ExactInteger(SubSeq(json, visited[n].value[1], visited[n].value[2]), visited[n].got)
    BY <1>8 DEF ReaderInv, IntegersExact
  <2>2. SubSeq(json, call.value[1], call.value[2]) = raw
    BY <1>9 DEF raw
  <2>3. call.want = "number" /\ call.kind = "number" =>
          ExactInteger(SubSeq(json, call.value[1], call.value[2]), call.got)
    BY <1>5, <1>6, <2>2
  <2>4. json' = json
    BY <1>1 DEF text
  <2>5. \A n \in 1 .. old + 1 : n \in 1..old \/ n = old + 1
    BY <1>8
  <2>6. ASSUME NEW n \in 1 .. old + 1,
               visited'[n].want = "number" /\ visited'[n].kind = "number"
        PROVE  ExactInteger(SubSeq(json', visited'[n].value[1], visited'[n].value[2]),
                            visited'[n].got)
    <3>1. CASE n = old + 1
      BY <1>8, <2>3, <2>4, <2>6, <3>1
    <3>2. CASE n \in 1..old
      <4>1. visited'[n] = visited[n]
        BY <1>8, <3>2
      <4> QED  BY <2>1, <2>4, <2>6, <3>2, <4>1
    <3> QED  BY <2>5, <3>1, <3>2
  <2> QED  BY <1>8, <2>6 DEF IntegersExact
<1> QED  BY <1>12, <1>13, <1>14, <1>15, <1>16, <1>17, <1>18 DEF ReaderInv

LEMMA ReaderInvNext == ReaderInv /\ [Next]_vars => ReaderInv'
<1> SUFFICES ASSUME ReaderInv, [Next]_vars PROVE ReaderInv'
  OBVIOUS
<1>1. CASE Serialize
  BY <1>1, SerializeKeeps
<1>2. CASE Start
  BY <1>2, StartKeeps
<1>3. CASE ScanKey
  BY <1>3, ScanKeyKeeps
<1>4. CASE ScanValue
  BY <1>4, ScanValueKeeps
<1>5. CASE Visit
  BY <1>5, VisitKeeps
<1>6. CASE NextItem
  BY <1>6, NextItemKeeps
<1>7. CASE Finish
  BY <1>7, FinishKeeps
<1>8. CASE UNCHANGED vars
  BY <1>8 DEF vars, ReaderInv, TypeOK, ReaderTyped, Entered, MemberBehind, MemberRead, After,
              VisitsInside, IntegersFit, IntegersExact
<1> QED  BY <1>1, <1>2, <1>3, <1>4, <1>5, <1>6, <1>7, <1>8 DEF Next, Returned

LEMMA ReaderInvAlways == Spec => []ReaderInv
  BY ReaderInvInit, ReaderInvNext, PTL DEF Spec

\* The scanner stays inside its text and its recursion inside MaxDepth, whatever
\* the bytes are (scan_value, scan_object and scan_array).
THEOREM TypeCorrect == Spec => []TypeOK
<1>1. ReaderInv => TypeOK
  BY DEF ReaderInv
<1> QED  BY <1>1, ReaderInvAlways, PTL

\* Every slice that the visitor of sdkcc_v1_json_object_visit gets lies inside the
\* text, its key before its value, and the calls come in the order of the text
\* without touching each other, however deep the values nest.
THEOREM VisitsInsideText == Spec => []VisitsInside
<1>1. ReaderInv => VisitsInside
  BY DEF ReaderInv
<1> QED  BY <1>1, ReaderInvAlways, PTL

\* Whatever digits a text has, an integer that sdkcc_v1_json_value_to_i64 gives is
\* in the range of int64_t.
THEOREM IntegersInRange == Spec => []IntegersFit
<1>1. ReaderInv => IntegersFit
  BY DEF ReaderInv
<1> QED  BY <1>1, ReaderInvAlways, PTL

\* sdkcc_v1_json_value_to_i64 is exact for every number in a text: bytes that are
\* all digits behind the sign give the number they denote in base ten, or OVERFLOW
\* exactly when int64_t cannot hold it; other bytes never give a value.
THEOREM IntegersAreExact == Spec => []IntegersExact
<1>1. ReaderInv => IntegersExact
  BY DEF ReaderInv
<1> QED  BY <1>1, ReaderInvAlways, PTL

-----------------------------------------------------------------------------
\* What the visitor gets: the second invariant, on top of the first.

\* The key was scanned as a string before its value, and a value that stands before
\* the visitor was scanned from its first byte to the cursor; what nests is in one
\* that has parts.
KeyScanned ==
  pc \in {"value", "scanned"} \/ (pc = "key" /\ Len(stack) > 1) =>
    ScanString(json, member.key[1] - 1) = member.key[2] + 2

ValueScanned ==
  /\ pc = "value" /\ Len(stack) = 1 =>
       member.from = cursor /\ At(json, cursor) \notin Space
  /\ Len(stack) > 1 => member.kind \in {"object", "array"}
  /\ pc = "scanned" /\ Len(stack) = 1 =>
       /\ member.kind = "string" => ScanString(json, member.from) = cursor
       /\ member.kind = "number" => ScanNumber(json, member.from) = cursor

\* What ValuesExact says of the last call, of one.
CallExact(v) ==
  LET bytes   == SubSeq(json, v.value[1], v.value[2])
      content == SubSeq(json, v.key[1], v.key[2])
      fits    == Grammar!Integral(bytes) \in (-Int64Max - 1) .. Int64Max
  IN  /\ v.names = {m \in Name : /\ Len(m) <= MaxKey
                                 /\ Grammar!Unicode(m) = Grammar!Meaning(content)}
      /\ v.want \notin {v.kind, "nothing"} => v.got.status = "SCHEMA"
      /\ v.want = "string" /\ v.kind = "string" =>
           \/ v.got.status = "OK"
              /\ Grammar!Unicode(v.got.value) = Grammar!Meaning(Grammar!Content(bytes))
           \/ v.got.status = "OOM"
      /\ v.want = "number" /\ v.kind = "number" =>
           IF Grammar!IsInteger(bytes)
           THEN IF fits THEN v.got = Done(Grammar!Integral(bytes))
                ELSE v.got.status = "OVERFLOW"
           ELSE v.got.status \in {"SCHEMA", "OVERFLOW"}
      /\ v.want = "boolean" /\ v.kind = "boolean" => v.got = Done(bytes = Grammar!True)

VisitedExact == \A n \in DOMAIN visited : CallExact(visited[n])

ScannedInv == KeyScanned /\ ValueScanned /\ VisitedExact

LEMMA WhitespaceSkipped ==
  ASSUME NEW s \in Seq(Int), NEW i \in 1 .. Len(s) + 1
  PROVE  /\ At(s, SkipWhitespace(s, i)) \notin Space
         /\ At(s, i) \notin Space => SkipWhitespace(s, i) = i
<1> DEFINE S == {j \in i .. Len(s) + 1 : At(s, j) \notin Space}
<1>1. Len(s) + 1 \in S
  BY DEF At, Space
<1>2. /\ S \subseteq i .. Len(s) + 1 /\ \A j \in S : At(s, j) \notin Space
      /\ At(s, i) \notin Space => i \in S
  OBVIOUS
<1>3. SkipWhitespace(s, i) = Min(S)
  BY DEF SkipWhitespace
<1> HIDE DEF S
<1>4. Min(S) \in S /\ \A j \in S : Min(S) <= j
  <2>1. i \in Int /\ Len(s) + 1 \in Int /\ S # {}
    BY <1>1
  <2> QED  BY <1>2, <2>1, FirstFrom
<1>5. i \in S => Min(S) = i
  <2>1. ASSUME i \in S PROVE Min(S) = i
    <3>1. PICK m \in i .. Len(s) + 1 : m = Min(S)
      BY <1>2, <1>4
    <3>2. m <= i
      BY <1>4, <2>1, <3>1
    <3> QED  BY <3>1, <3>2
  <2> QED  BY <2>1
<1> QED  BY <1>2, <1>3, <1>4, <1>5

\* A string is scanned as a string and a number as a number.
LEMMA ScalarByKind ==
  ASSUME NEW i \in 1 .. Len(json)
  PROVE  /\ KindOf(At(json, i)) = "string" => ScanScalar(i) = ScanString(json, i)
         /\ KindOf(At(json, i)) = "number" => ScanScalar(i) = ScanNumber(json, i)
<1>1. At(json, i) = json[i]
  BY DEF At
<1>2. KindOf(At(json, i)) = "string" => json[i] = Quote
  BY <1>1 DEF KindOf
<1>3. KindOf(At(json, i)) = "number" => json[i] \notin {Quote, 116, 102, 110}
  BY SMTT(30), <1>1 DEF KindOf, Quote, Digit, Minus
<1>4. json[i] = Quote => ScanScalar(i) = ScanString(json, i)
  BY DEF ScanScalar, Quote
<1>5. json[i] \notin {Quote, 116, 102, 110} => ScanScalar(i) = ScanNumber(json, i)
  BY DEF ScanScalar
<1> QED  BY <1>2, <1>3, <1>4, <1>5

\* Where nobody is called, the calls stay what they were.
LEMMA CallsStay ==
  ASSUME VisitedExact, UNCHANGED <<text, visited>>
  PROVE  VisitedExact'
  BY DEF VisitedExact, CallExact, text

\* A call with what has been scanned is exact.
LEMMA CallIsExact ==
  ASSUME ReaderInv, ScannedInv, pc = "scanned", Len(stack) = 1,
         NEW want \in Wants,
         NEW got \in Converted(want, member.kind, SubSeq(json, member.from, cursor - 1)),
         NEW v, v.key = member.key, v.value = <<member.from, cursor - 1>>, v.kind = member.kind,
         v.want = want, v.got = got,
         v.names = {n \in Name : KeyEquals(SubSeq(json, member.key[1], member.key[2]), n)}
  PROVE  CallExact(v)
<1> DEFINE bytes   == SubSeq(json, member.from, cursor - 1)
           content == SubSeq(json, member.key[1], member.key[2])
<1>1. /\ json \in Seq(Nat) /\ json \in Seq(Int) /\ MemberRead /\ member.from < cursor
      /\ member.key[1] \in Nat /\ member.key[2] \in Nat /\ member.from \in Nat
      /\ cursor \in 1 .. Len(json) + 1 /\ Len(json) \in Nat
  BY ReaderFacts DEF ReaderInv, MemberBehind
<1>2. /\ member.from \in 1 .. Len(json) /\ member.key[1] - 1 \in 1 .. Len(json)
      /\ member.key[1] <= member.key[2] + 1 /\ member.key[2] + 1 <= Len(json)
  <2>1. PICK n \in Nat, a \in Nat, b \in Nat, f \in Nat, c \in Nat :
          /\ n = Len(json) /\ a = member.key[1] /\ b = member.key[2]
          /\ f = member.from /\ c = cursor
    BY SMTT(30), <1>1
  <2>2. a > 1 /\ a <= b + 1 /\ b + 1 < f /\ f < c /\ c <= n + 1
    BY <1>1, <2>1 DEF MemberRead
  <2>3. f \in 1..n /\ a - 1 \in 1..n /\ a <= b + 1 /\ b + 1 <= n
    BY ONLY <2>2, n \in Nat, a \in Nat, b \in Nat, f \in Nat, c \in Nat
  <2> QED  BY <2>1, <2>3
<1>3. bytes \in Seq(Nat) /\ bytes \in Seq(Int) /\ bytes # <<>>
  <2>1. PICK f \in 1 .. Len(json), e \in 1 .. Len(json) : f = member.from /\ e = cursor - 1 /\ f <= e
    BY SMTT(30), <1>1, <1>2
  <2>2. bytes \in Seq(Nat) /\ Len(bytes) = e - f + 1
    BY <1>1, <2>1
  <2> HIDE DEF bytes
  <2>4. Len(bytes) # 0
    BY SMTT(30), <1>1, <2>1, <2>2
  <2>3. bytes # <<>>
    BY <2>4
  <2> QED  BY <2>2, <2>3, NaturalsAreIntegers
<1>4. content \in Seq(Nat) /\ ~Contains(Grammar!Meaning(content), -1)
  <2>1. ScanString(json, member.key[1] - 1) = member.key[2] + 2
    BY DEF ScannedInv, KeyScanned
  <2> QED  BY <1>1, <1>2, <2>1, KeyContent
<1>5. SubSeq(json, v.value[1], v.value[2]) = bytes /\ SubSeq(json, v.key[1], v.key[2]) = content
  <2>1. v.value[1] = member.from /\ v.value[2] = cursor - 1
    OBVIOUS
  <2>2. v.key[1] = member.key[1] /\ v.key[2] = member.key[2]
    OBVIOUS
  <2> QED  BY <2>1, <2>2
<1> HIDE DEF bytes
<1>6. v.names = {m \in Name : Len(m) <= MaxKey /\ Grammar!Unicode(m) = Grammar!Meaning(content)}
  <2>1. \A m \in Name : m \in Seq(Nat)
    BY BytesAreNaturals, JsonReaderAssumption
  <2>2. v.names = {m \in Name : KeyEquals(content, m)}
    OBVIOUS
  <2> HIDE DEF content
  <2>3. \A m \in Name : KeyEquals(content, m) <=>
          Len(m) <= MaxKey /\ Grammar!Unicode(m) = Grammar!Meaning(content)
    BY <1>4, <2>1, KeysExact
  <2> QED  BY <2>2, <2>3
<1> HIDE DEF content
<1>7. ASSUME want \notin {member.kind, "nothing"} PROVE got.status = "SCHEMA"
  <2>1. got \in Converted(want, member.kind, bytes)
    BY DEF bytes
  <2>2. Refused("SCHEMA").status = "SCHEMA"
    BY DEF Refused
  <2>3. CASE want = "string"
    BY <1>7, <2>1, <2>2, <2>3 DEF Converted, ToOwnedString
  <2>4. CASE want = "number"
    <3>1. got = ToI64(member.kind, bytes)
      BY <2>1, <2>4 DEF Converted
    <3>2. ToI64(member.kind, bytes) = Refused("SCHEMA")
      BY <1>7, <2>4 DEF ToI64
    <3> QED  BY <2>2, <3>1, <3>2
  <2>5. CASE want = "boolean"
    BY <1>7, <2>1, <2>2, <2>5 DEF Converted, ToBool
  <2> QED  BY <1>7, <2>3, <2>4, <2>5 DEF Wants
<1>8. ASSUME want = "string", member.kind = "string"
      PROVE  \/ /\ got.status = "OK"
                /\ Grammar!Unicode(got.value) = Grammar!Meaning(Grammar!Content(bytes))
             \/ got.status = "OOM"
  <2>1. got \in {ToOwnedString("string", bytes), Refused("OOM")}
    BY <1>8 DEF Converted, bytes
  <2>2. Refused("OOM").status = "OOM"
    BY DEF Refused
  <2>3. ScanString(json, member.from) = cursor
    BY <1>8 DEF ScannedInv, ValueScanned
  <2>4. cursor - 1 \in Int /\ cursor = (cursor - 1) + 1 /\ (cursor - 1) + 1 # 0
    BY <1>1
  <2>5. /\ ToOwnedString("string", bytes).status = "OK"
        /\ Grammar!Unicode(ToOwnedString("string", bytes).value)
             = Grammar!Meaning(Grammar!Content(bytes))
    BY <1>1, <1>2, <2>3, <2>4, OwnedStringsExact DEF bytes
  <2> QED  BY <2>1, <2>2, <2>5
<1>9. ASSUME want = "number", member.kind = "number"
      PROVE  IF Grammar!IsInteger(bytes)
             THEN IF Grammar!Integral(bytes) \in (-Int64Max - 1) .. Int64Max
                  THEN got = Done(Grammar!Integral(bytes)) ELSE got.status = "OVERFLOW"
             ELSE got.status \in {"SCHEMA", "OVERFLOW"}
  <2>1. got = ToI64("number", bytes)
    BY <1>9 DEF Converted, bytes
  <2>2. ExactInteger(bytes, got)
    BY <1>3, <2>1, IntegerConverted
  <2>3. ScanNumber(json, member.from) = cursor
    BY <1>9 DEF ScannedInv, ValueScanned
  <2>4. cursor \in Int /\ cursor # 0
    BY <1>1
  <2>5. Grammar!IsInteger(bytes) <=> HasDigits(bytes, Len(bytes))
    BY <1>1, <1>2, <2>3, <2>4, ScannedInteger DEF bytes
  <2>6. Grammar!Integral(bytes) = IntegerValue(bytes)
    BY <1>3, IntegralIsValue
  <2>7. Refused("SCHEMA").status = "SCHEMA" /\ Refused("OVERFLOW").status = "OVERFLOW"
    BY DEF Refused
  <2> QED  BY <2>2, <2>5, <2>6, <2>7 DEF ExactInteger
<1>10. ASSUME want = "boolean", member.kind = "boolean"
       PROVE  got = Done(bytes = Grammar!True)
  <2>1. got = ToBool("boolean", bytes)
    BY <1>10 DEF Converted, bytes
  <2>2. Literal.true = Grammar!True
    BY DEF Literal, Grammar!True
  <2> QED  BY <2>1, <2>2 DEF ToBool
<1> QED  BY <1>5, <1>6, <1>7, <1>8, <1>9, <1>10 DEF CallExact

LEMMA ScannedInit == Init => ScannedInv
  BY DEF Init, ScannedInv, KeyScanned, ValueScanned, VisitedExact

LEMMA SerializeScans == ReaderInv /\ ScannedInv /\ Serialize => ScannedInv'
<1> SUFFICES ASSUME ReaderInv, ScannedInv, Serialize PROVE ScannedInv'
  OBVIOUS
<1>1. /\ pc = "serialize" /\ pc' \in {"done", "start"}
      /\ UNCHANGED <<cursor, stack, member, visited>>
  BY DEF Serialize, Fail
<1>2. stack = <<>> /\ visited = <<>>
  BY <1>1 DEF ReaderInv, Entered
<1> QED  BY <1>1, <1>2 DEF ScannedInv, KeyScanned, ValueScanned, VisitedExact

LEMMA StartScans == ReaderInv /\ ScannedInv /\ Start => ScannedInv'
<1> SUFFICES ASSUME ReaderInv, ScannedInv, Start PROVE ScannedInv'
  OBVIOUS
<1>1. /\ pc = "start" /\ stack = <<>> /\ UNCHANGED <<text, member, visited>>
  BY DEF Start, ReaderInv, Entered
<1>2. pc' \in {"done", "end", "key"} /\ ~(Len(stack') > 1)
  <2>1. stack' \in {<<>>, <<"object">>}
    <3>1. Append(<<>>, "object") = <<"object">>
      OBVIOUS
    <3> QED  BY <1>1, <3>1 DEF Start, Enter, Fail
  <2>2. Len(<<>>) = 0 /\ Len(<<"object">>) = 1
    OBVIOUS
  <2>3. pc' \in {"done", "end", "key"}
    BY <1>1 DEF Start, Enter, Fail
  <2>4. Len(stack') \in {0, 1}
    BY <2>1, <2>2
  <2> QED  BY <2>3, <2>4
<1>3. VisitedExact'
  BY <1>1, CallsStay DEF ScannedInv
<1> QED  BY <1>1, <1>2, <1>3 DEF ScannedInv, KeyScanned, ValueScanned

LEMMA ScanKeyScans == ReaderInv /\ ScannedInv /\ ScanKey => ScannedInv'
<1> SUFFICES ASSUME ReaderInv, ScannedInv, ScanKey PROVE ScannedInv'
  OBVIOUS
<1> DEFINE end   == ScanString(json, cursor)
           colon == SkipWhitespace(json, end)
           behind == SkipWhitespace(json, colon + 1)
<1>1. /\ pc = "key" /\ UNCHANGED <<text, stack, visited>>
      /\ member \in [key : Nat \X Nat, from : Nat, kind : Kinds]
  BY DEF ScanKey, ReaderInv, ReaderTyped
<1>2. VisitedExact'
  BY <1>1, CallsStay DEF ScannedInv
<1>3. CASE Fail("PARSE") /\ UNCHANGED <<cursor, member>>
  BY <1>1, <1>2, <1>3 DEF Fail, ScannedInv, KeyScanned, ValueScanned
<1>4. CASE /\ end # 0 /\ At(json, colon) = Colon /\ cursor' = behind
           /\ member' = IF Len(stack) > 1 THEN member
                        ELSE [member EXCEPT !.key = <<cursor + 1, end - 2>>, !.from = behind]
           /\ pc' = "value"
  <2>1. CASE Len(stack) > 1
    <3>1. member' = member /\ ScanString(json, member.key[1] - 1) = member.key[2] + 2
      BY <1>1, <1>4, <2>1 DEF ScannedInv, KeyScanned
    <3>2. KeyScanned'
      BY <1>1, <3>1 DEF KeyScanned, text
    <3>3. Len(stack) # 1
      <4>1. PICK depth \in Nat : depth = Len(stack)
        BY ReaderFacts
      <4> QED  BY <2>1, <4>1
    <3>4. ValueScanned'
      BY <1>1, <1>4, <2>1, <3>1, <3>3 DEF ScannedInv, ValueScanned
    <3> QED  BY <1>2, <3>2, <3>4 DEF ScannedInv
  <2>2. CASE ~(Len(stack) > 1)
    <3>1. end \in cursor + 2 .. Len(json) + 1
      <4>1. end \in {0} \cup (cursor + 2 .. Len(json) + 1)
        BY ReaderFacts, StringInside
      <4> HIDE DEF end
      <4> QED  BY <1>4, <4>1
    <3>2. colon \in 1 .. Len(json)
      <4> HIDE DEF end
      <4>1. colon \in end .. Len(json) + 1
        BY <3>1, ReaderFacts, WhitespaceEnd
      <4>2. colon \in Int /\ At(json, colon) # -1
        BY <1>4, <3>1, <4>1, ReaderFacts DEF Colon
      <4> HIDE DEF colon
      <4> QED  BY <4>2, ReaderFacts, ByteInside
    <3>3. At(json, behind) \notin Space
      <4>1. colon + 1 \in 1 .. Len(json) + 1
        <5> HIDE DEF colon
        <5> QED  BY <3>2, ReaderFacts
      <4> HIDE DEF colon
      <4> QED  BY <4>1, ReaderFacts, WhitespaceSkipped
    <3>4. member' = [member EXCEPT !.key = <<cursor + 1, end - 2>>, !.from = behind]
      BY <1>4, <2>2
    <3>5. ScanString(json, cursor) = end
      OBVIOUS
    <3> HIDE DEF end, colon, behind
    <3>6. /\ member'.key[1] = cursor + 1 /\ member'.key[2] = end - 2 /\ member'.from = behind
      BY <1>1, <3>4
    <3>7. (cursor + 1) - 1 = cursor /\ (end - 2) + 2 = end
      BY <3>1, ReaderFacts
    <3>8. KeyScanned'
      BY <1>1, <3>5, <3>6, <3>7 DEF KeyScanned, text
    <3>9. ValueScanned'
      BY <1>1, <1>4, <2>2, <3>3, <3>6 DEF ValueScanned, text
    <3> QED  BY <1>2, <3>8, <3>9 DEF ScannedInv
  <2> QED  BY <2>1, <2>2
<1> QED  BY <1>3, <1>4 DEF ScanKey

LEMMA ScanValueScans == ReaderInv /\ ScannedInv /\ ScanValue => ScannedInv'
<1> SUFFICES ASSUME ReaderInv, ScannedInv, ScanValue PROVE ScannedInv'
  OBVIOUS
<1> DEFINE first == SkipWhitespace(json, cursor)
           kind  == KindOf(At(json, first))
           end   == ScanScalar(first)
<1>1. /\ pc = "value" /\ UNCHANGED <<text, visited>> /\ stack # <<>>
      /\ member \in [key : Nat \X Nat, from : Nat, kind : Kinds]
  BY DEF ScanValue, ReaderInv, Entered, ReaderTyped
<1>2. VisitedExact'
  BY <1>1, CallsStay DEF ScannedInv
<1>3. PICK depth \in Nat : depth = Len(stack) /\ depth >= 1
  BY <1>1, ReaderFacts
<1>4. /\ member'.key = member.key /\ member'.from = member.from
      /\ depth > 1 => member'.kind = member.kind
      /\ ~(depth > 1) => member'.kind = kind
  <2>1. member' = IF depth > 1 THEN member ELSE [member EXCEPT !.kind = kind]
    BY <1>3 DEF ScanValue
  <2> HIDE DEF kind
  <2> QED  BY <1>1, <2>1
<1>5. KeyScanned'
  BY <1>1, <1>4 DEF ScannedInv, KeyScanned, text
<1>6. depth > 1 => member.kind \in {"object", "array"}
  BY <1>3 DEF ScannedInv, ValueScanned
<1>7. CASE Fail("PARSE") /\ UNCHANGED <<cursor, stack>>
  <2>1. ValueScanned'
    BY <1>3, <1>4, <1>6, <1>7 DEF Fail, ValueScanned
  <2> QED  BY <1>2, <1>5, <2>1 DEF ScannedInv
<1>8. CASE kind \in {"object", "array"} /\ ~TooDeep /\ Enter(kind, first) /\ UNCHANGED status
  <2>1. kind # "none" => first \in 1 .. Len(json)
    <3>1. kind # "none" => At(json, first) # -1
      BY KindsOfValues
    <3>2. first \in cursor .. Len(json) + 1
      BY ReaderFacts, WhitespaceEnd
    <3> HIDE DEF kind, first
    <3>3. first \in Int
      BY <3>2, ReaderFacts
    <3> QED  BY <3>1, <3>3, ReaderFacts, ByteInside
  <2> HIDE DEF kind, first
  <2>2. \/ stack' = stack /\ pc' = "scanned"
        \/ stack' = Append(stack, kind) /\ pc' \in {"key", "value"}
    BY <1>1, <1>8, <2>1, ReaderFacts, EnterMoves
  <2>3. member'.kind \in {"object", "array"}
    BY <1>4, <1>6, <1>8
  <2>4. stack' = Append(stack, kind) => Len(stack') # 1
    <3>1. stack' = Append(stack, kind) => Len(stack') = depth + 1
      BY <1>3, <1>8, ReaderFacts
    <3> QED  BY <1>3, <3>1
  <2>5. ValueScanned'
    BY <2>2, <2>3, <2>4 DEF ValueScanned
  <2> QED  BY <1>2, <1>5, <2>5 DEF ScannedInv
<1>9. CASE /\ kind \notin {"none", "object", "array"} /\ end # 0
           /\ cursor' = end /\ pc' = "scanned" /\ UNCHANGED <<stack, status>>
  <2>1. CASE depth > 1
    <3>1. Len(stack') # 1 /\ member'.kind \in {"object", "array"}
      BY <1>3, <1>4, <1>6, <1>9, <2>1
    <3>2. ValueScanned'
      BY <1>9, <3>1 DEF ValueScanned
    <3> QED  BY <1>2, <1>5, <3>2 DEF ScannedInv
  <2>2. CASE ~(depth > 1)
    <3>1. depth = 1
      BY <1>3, <2>2
    <3>2. first = member.from
      <4>1. member.from = cursor /\ At(json, cursor) \notin Space
        BY <1>1, <1>3, <3>1 DEF ScannedInv, ValueScanned
      <4> QED  BY <4>1, ReaderFacts, WhitespaceSkipped
    <3>3. first \in 1 .. Len(json)
      <4>1. At(json, first) # -1
        BY <1>9, KindsOfValues
      <4> HIDE DEF kind, first, end
      <4> QED  BY <3>2, <4>1, ReaderFacts, ByteInside
    <3>4. /\ kind = "string" => end = ScanString(json, first)
          /\ kind = "number" => end = ScanNumber(json, first)
      <4> HIDE DEF first
      <4> QED  BY <3>3, ScalarByKind
    <3> HIDE DEF kind, first, end
    <3>5. ~(Len(stack') > 1)
      BY <1>3, <1>9, <3>1
    <3>6. ValueScanned'
      BY <1>1, <1>4, <1>9, <2>2, <3>2, <3>4, <3>5 DEF ValueScanned, text
    <3> QED  BY <1>2, <1>5, <3>6 DEF ScannedInv
  <2> QED  BY <2>1, <2>2
<1> QED  BY <1>7, <1>8, <1>9 DEF ScanValue

LEMMA VisitScans == ReaderInv /\ ScannedInv /\ Visit => ScannedInv'
<1> SUFFICES ASSUME ReaderInv, ScannedInv, Visit PROVE ScannedInv'
  OBVIOUS
<1> DEFINE names == {n \in Name : KeyEquals(SubSeq(json, member.key[1], member.key[2]), n)}
           Called(want, got) ==
             /\ got \in Converted(want, member.kind, SubSeq(json, member.from, cursor - 1))
             /\ visited' = Append(visited,
                  [key |-> member.key, value |-> <<member.from, cursor - 1>>,
                   kind |-> member.kind, names |-> names, want |-> want, got |-> got])
<1>1. /\ pc = "scanned" /\ Len(stack) = 1 /\ UNCHANGED <<text, cursor, stack, member>>
      /\ pc' \in {"next", "done"}
  BY DEF Visit, Fail
<1>2. PICK want \in Wants : \E got : Called(want, got)
  BY DEF Visit, Wants
<1>3. PICK got : Called(want, got)
  BY <1>2
<1> DEFINE call == [key |-> member.key, value |-> <<member.from, cursor - 1>>,
                    kind |-> member.kind, names |-> names, want |-> want, got |-> got]
<1>4. CallExact(call)
  <2>1. /\ call.key = member.key /\ call.value = <<member.from, cursor - 1>>
        /\ call.kind = member.kind /\ call.want = want /\ call.got = got /\ call.names = names
    OBVIOUS
  <2>2. got \in Converted(want, member.kind, SubSeq(json, member.from, cursor - 1))
    BY <1>3
  <2> HIDE DEF call
  <2> QED  BY <1>1, <2>1, <2>2, CallIsExact
<1>5. visited' = Append(visited, call)
  BY <1>3
<1> HIDE DEF call, names
<1>6. /\ Len(visited) \in Nat /\ DOMAIN visited = 1 .. Len(visited)
      /\ DOMAIN visited' = 1 .. Len(visited) + 1
      /\ visited'[Len(visited) + 1] = call
      /\ \A n \in 1 .. Len(visited) : visited'[n] = visited[n]
  <2> DEFINE S == {visited[n] : n \in DOMAIN visited}
  <2>1. visited \in Seq(S)
    BY DEF ReaderInv, ReaderTyped
  <2> HIDE DEF S
  <2>2. visited \in Seq(S \cup {call})
    BY <2>1, WiderSequence
  <2> QED  BY <1>5, <2>2
<1>7. \A n \in DOMAIN visited' : CallExact(visited'[n])
  <2>1. \A n \in 1 .. Len(visited) : CallExact(visited[n])
    BY <1>6 DEF ScannedInv, VisitedExact
  <2>2. \A n \in 1 .. Len(visited) + 1 : n \in 1 .. Len(visited) \/ n = Len(visited) + 1
    BY <1>6
  <2> QED  BY <1>4, <1>6, <2>1, <2>2
<1>8. VisitedExact'
  BY <1>1, <1>7 DEF VisitedExact, CallExact, text
<1>9. KeyScanned' /\ ValueScanned'
  <2>1. stack' = stack /\ ~(Len(stack') > 1)
    BY <1>1
  <2> QED  BY <1>1, <2>1 DEF KeyScanned, ValueScanned
<1> QED  BY <1>8, <1>9 DEF ScannedInv

LEMMA NextItemScans == ReaderInv /\ ScannedInv /\ NextItem => ScannedInv'
<1> SUFFICES ASSUME ReaderInv, ScannedInv, NextItem PROVE ScannedInv'
  OBVIOUS
<1>1. UNCHANGED <<text, member, visited>> /\ (pc = "next" \/ (pc = "scanned" /\ Len(stack) > 1))
  BY DEF NextItem
<1>2. VisitedExact'
  BY <1>1, CallsStay DEF ScannedInv
<1>3. PICK depth \in Nat : depth = Len(stack)
  BY ReaderFacts
<1>4. /\ pc = "next" => depth = 1 /\ stack # <<>> /\ stack[1] = "object"
      /\ ~(pc = "next") => depth > 1
  BY <1>1, <1>3 DEF ReaderInv, Entered
<1>5. depth > 1 => /\ member.kind \in {"object", "array"}
                   /\ ScanString(json, member.key[1] - 1) = member.key[2] + 2
  <2>1. depth > 1 => pc = "scanned"
    BY <1>1, <1>4
  <2> QED  BY <1>3, <2>1 DEF ScannedInv, KeyScanned, ValueScanned
<1>6. CASE stack' = Front(stack) /\ pc' = IF Len(stack) = 1 THEN "end" ELSE "scanned"
  <2>1. CASE depth = 1
    <3>1. pc' = "end" /\ ~(Len(stack') > 1)
      <4>1. stack' = SubSeq(stack, 1, 0) /\ Len(SubSeq(stack, 1, 0)) = 0
        BY <1>3, <1>6, <2>1, ReaderFacts DEF Front
      <4> QED  BY <1>3, <1>6, <2>1, <4>1
    <3> QED  BY <1>2, <3>1 DEF ScannedInv, KeyScanned, ValueScanned
  <2>2. CASE depth > 1
    <3>1. pc' = "scanned"
      BY <1>3, <1>6, <2>2
    <3>2. KeyScanned' /\ ValueScanned'
      BY <1>1, <1>5, <2>2, <3>1 DEF KeyScanned, ValueScanned, text
    <3> QED  BY <1>2, <3>2 DEF ScannedInv
  <2> QED  BY <1>4, <2>1, <2>2
<1>7. CASE stack' = stack /\ pc' = IF Last(stack) = "object" THEN "key" ELSE "value"
  <2>1. CASE depth = 1
    <3>1. Last(stack) = "object"
      BY <1>3, <1>4, <2>1 DEF Last
    <3>2. pc' = "key" /\ ~(Len(stack') > 1)
      BY <1>3, <1>7, <2>1, <3>1
    <3> QED  BY <1>2, <3>2 DEF ScannedInv, KeyScanned, ValueScanned
  <2>2. CASE depth > 1
    <3>1. pc' \in {"key", "value"} /\ Len(stack') # 1
      BY <1>3, <1>7, <2>2
    <3>2. KeyScanned' /\ ValueScanned'
      BY <1>1, <1>5, <2>2, <3>1 DEF KeyScanned, ValueScanned, text
    <3> QED  BY <1>2, <3>2 DEF ScannedInv
  <2> QED  BY <1>4, <2>1, <2>2
<1>8. CASE pc' = "done" /\ stack' = stack
  <2>1. KeyScanned' /\ ValueScanned'
    BY <1>1, <1>3, <1>5, <1>8 DEF KeyScanned, ValueScanned
  <2> QED  BY <1>2, <2>1 DEF ScannedInv
<1> QED  BY <1>6, <1>7, <1>8 DEF NextItem, Fail

LEMMA FinishScans == ScannedInv /\ Finish => ScannedInv'
<1> SUFFICES ASSUME ScannedInv, Finish PROVE ScannedInv'
  OBVIOUS
<1>1. UNCHANGED <<text, cursor, stack, member, visited>> /\ pc' = "done"
  BY DEF Finish, Fail
<1>2. VisitedExact'
  BY <1>1, CallsStay DEF ScannedInv
<1> QED  BY <1>1, <1>2 DEF ScannedInv, KeyScanned, ValueScanned

LEMMA ScannedInvNext == ReaderInv /\ ScannedInv /\ [Next]_vars => ScannedInv'
<1> SUFFICES ASSUME ReaderInv, ScannedInv, [Next]_vars PROVE ScannedInv'
  OBVIOUS
<1>1. CASE UNCHANGED vars
  <2>1. UNCHANGED <<text, cursor, stack, member, visited, pc>>
    BY <1>1 DEF vars, text
  <2>2. VisitedExact'
    BY <2>1, CallsStay DEF ScannedInv
  <2>3. KeyScanned' /\ ValueScanned'
    BY <2>1 DEF ScannedInv, KeyScanned, ValueScanned, text
  <2> QED  BY <2>2, <2>3 DEF ScannedInv
<1> QED  BY <1>1, SerializeScans, StartScans, ScanKeyScans, ScanValueScans, VisitScans,
            NextItemScans, FinishScans DEF Next, Returned

\* What a visitor of sdkcc_v1_json_object_visit gets is what the text says, whatever
\* the text, the name and the type asked for: a key has a name exactly when their
\* code points agree and the name fits the scratch, an owned string has the code
\* points that its characters and escapes denote, and an integer its value.
THEOREM VisitsAreExact == Spec => []ValuesExact
<1>1. ReaderInv /\ ScannedInv => ValuesExact
  <2> SUFFICES ASSUME ReaderInv, ScannedInv, visited # <<>> PROVE CallExact(Last(visited))
    BY DEF ValuesExact, CallExact
  <2>1. visited \in Seq({visited[n] : n \in DOMAIN visited})
    BY DEF ReaderInv, ReaderTyped
  <2>2. Len(visited) \in DOMAIN visited
    <3> DEFINE S == {visited[n] : n \in DOMAIN visited}
    <3>1. visited \in Seq(S)
      BY <2>1
    <3> HIDE DEF S
    <3> QED  BY <3>1
  <2>3. CallExact(visited[Len(visited)])
    BY <2>2 DEF ScannedInv, VisitedExact
  <2> QED  BY <2>3 DEF Last
<1> QED  BY <1>1, ReaderInvAlways, ScannedInit, ScannedInvNext, PTL DEF Spec
=============================================================================
