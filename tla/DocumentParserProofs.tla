------------------------ MODULE DocumentParserProofs ------------------------
(***************************************************************************)
(* Proofs about the front end's parser, for every description and every    *)
(* limit, whatever graph the aliases of the description make: what it      *)
(* refuses it refuses for cause, and what it accepts it has translated     *)
(* whole.                                                                  *)
(*                                                                         *)
(* Built says what the recursion has made so far: the running calls are a  *)
(* walk from the root, each with its node of the document half filled, and *)
(* the finished nodes are translated with everything below them.           *)
(***************************************************************************)
EXTENDS DocumentParser, FiniteSetTheorems, TLAPS

-----------------------------------------------------------------------------
\* Induction over the numbers, with a set for the property.
LEMMA LeastElement ==
  ASSUME NEW S, S \subseteq Nat, S # {}
  PROVE  \E least \in S : \A n \in S : least <= n
<1> DEFINE Less == {pair \in Nat \X Nat : pair[1] < pair[2]}
<1>1. OpToRel(<, Nat) = Less
  BY DEF OpToRel
<1>2. IsWellFoundedOn(Less, Nat)
  BY <1>1, NatLessThanWellFounded
<1> HIDE DEF Less
<1>3. PICK least \in S : \A n \in S : <<n, least>> \notin Less
  BY <1>2, WFMin
<1>4. \A n \in S : ~(n < least)
  BY <1>3 DEF Less
<1> QED  BY <1>4

LEMMA Induction ==
  ASSUME NEW S, 0 \in S, \A n \in Nat : n \in S => n + 1 \in S
  PROVE  Nat \subseteq S
<1> SUFFICES ASSUME Nat \ S # {} PROVE FALSE
  OBVIOUS
<1>1. PICK least \in Nat \ S : \A n \in Nat \ S : least <= n
  BY LeastElement
<1>2. least # 0 /\ least - 1 \in Nat /\ least - 1 \in S
  BY <1>1
<1> QED  BY <1>1, <1>2

\* A step from values to values can be iterated.
LEMMA Iteration ==
  ASSUME NEW S, NEW first \in S, NEW step \in [S -> S]
  PROVE  \E f \in [Nat -> S] : f[0] = first /\ \A n \in Nat : f[n + 1] = step[f[n]]
<1> DEFINE UpTo(n, f) == /\ f \in [0..n -> S]
                         /\ f[0] = first
                         /\ \A i \in 0..(n - 1) : f[i + 1] = step[f[i]]
           Reached == {n \in Nat : \E f : UpTo(n, f)}
<1>1. 0 \in Reached
  <2>1. UpTo(0, [i \in 0..0 |-> first])
    OBVIOUS
  <2> QED  BY <2>1
<1>2. ASSUME NEW n \in Nat, n \in Reached PROVE n + 1 \in Reached
  <2>1. PICK f : UpTo(n, f)
    BY <1>2
  <2> DEFINE g == [i \in 0..(n + 1) |-> IF i = n + 1 THEN step[f[n]] ELSE f[i]]
  <2>2. UpTo(n + 1, g)
    <3>1. g \in [0..(n + 1) -> S] /\ g[0] = first
      BY <2>1
    <3>2. ASSUME NEW i \in 0..n PROVE g[i + 1] = step[g[i]]
      BY <2>1
    <3> QED  BY <3>1, <3>2
  <2>3. \E h : UpTo(n + 1, h)
    <3> HIDE DEF g, UpTo
    <3> QED  BY <2>2
  <2> QED  BY <2>3
<1>3. Nat \subseteq Reached
  <2> HIDE DEF Reached
  <2> QED  BY <1>1, <1>2, Induction
<1> DEFINE Until(n) == CHOOSE f : UpTo(n, f)
           iterates == [n \in Nat |-> Until(n)[n]]
<1>4. \A n \in Nat : UpTo(n, Until(n))
  BY <1>3
<1>5. ASSUME NEW n \in Nat PROVE Until(n + 1)[n] = Until(n)[n]
  <2> DEFINE Same == {i \in Nat : i <= n => Until(n + 1)[i] = Until(n)[i]}
  <2> HIDE DEF Until
  <2>1. UpTo(n, Until(n)) /\ UpTo(n + 1, Until(n + 1))
    BY <1>4
  <2>2. 0 \in Same
    BY <2>1
  <2>3. ASSUME NEW i \in Nat, i \in Same PROVE i + 1 \in Same
    BY <2>1, <2>3
  <2>4. Nat \subseteq Same
    <3> HIDE DEF Same
    <3> QED  BY <2>2, <2>3, Induction
  <2> QED  BY <2>4
<1>6. iterates \in [Nat -> S] /\ iterates[0] = first
  <2> HIDE DEF Until
  <2> QED  BY <1>4
<1>7. ASSUME NEW n \in Nat PROVE iterates[n + 1] = step[iterates[n]]
  <2> HIDE DEF Until
  <2>1. UpTo(n + 1, Until(n + 1))
    BY <1>4
  <2>2. Until(n + 1)[n + 1] = step[Until(n + 1)[n]]
    BY <2>1
  <2> QED  BY <1>5, <2>2
<1> QED  BY <1>6, <1>7

-----------------------------------------------------------------------------
\* The walks of the source from its root.
Node == DOMAIN source.node
Items(n) == source.node[n].items

LEMMA SourceShape ==
  ASSUME source \in Source
  PROVE  /\ Size \in Nat /\ Node = 1..Size /\ IsFiniteSet(Node)
         /\ \A n \in Node : /\ Items(n) \in Seq([key : Key \cup {NoKey}, value : Node])
                            /\ \A i \in DOMAIN Items(n) :
                                 Items(n)[i] \in [key : Key \cup {NoKey}, value : Node]
                            /\ References(n) \subseteq Node
                            /\ source.node[n].kind \in Kind \cup {"wide"}
                            /\ source.node[n].kind \in ScalarKind => Items(n) = << >>
<1>1. /\ IsFiniteSet(Node) /\ Node = 1..Size
      /\ \A n \in Node : /\ source.node[n].kind \in Kind \cup {"wide"}
                         /\ Items(n) \in Seq([key : Key \cup {NoKey}, value : Node])
                         /\ source.node[n].kind \notin {"array", "object"} => Items(n) = << >>
  BY SourceAssumption DEF Node, Items, Size
<1>2. Size \in Nat
  BY <1>1, FS_CardinalityType DEF Size, Node
<1>3. ASSUME NEW n \in Node, NEW i \in DOMAIN Items(n)
      PROVE  Items(n)[i] \in [key : Key \cup {NoKey}, value : Node]
  <2> DEFINE Element == [key : Key \cup {NoKey}, value : Node]
  <2>1. Items(n) \in Seq(Element)
    BY <1>1
  <2> HIDE DEF Element, Items
  <2>2. Items(n)[i] \in Element
    BY <2>1
  <2> QED  BY <2>2 DEF Element
<1>4. {"array", "object"} \cap ScalarKind = {}
  BY DEF ScalarKind
<1>5. ASSUME NEW n \in Node PROVE References(n) \subseteq Node
  BY <1>3 DEF References, Items
<1> QED  BY <1>1, <1>2, <1>3, <1>4, <1>5

LEMMA Walks ==
  ASSUME source \in Source, Node # {}
  PROVE  /\ AtDepth \in [Nat -> SUBSET Node]
         /\ AtDepth[0] = {1}
         /\ \A d \in Nat : AtDepth[d + 1] = UNION {References(n) : n \in AtDepth[d]}
<1> DEFINE step == [S \in SUBSET Node |-> UNION {References(n) : n \in S}]
           Def(f) == [d \in Nat |-> IF d = 0 THEN {1}
                                    ELSE UNION {References(n) : n \in f[d - 1]}]
<1>1. /\ {1} \in SUBSET Node
      /\ \A S \in SUBSET Node : UNION {References(n) : n \in S} \in SUBSET Node
  BY SourceShape
<1>2. step \in [SUBSET Node -> SUBSET Node]
  BY <1>1
<1>3. PICK f \in [Nat -> SUBSET Node] :
        f[0] = {1} /\ \A d \in Nat : f[d + 1] = step[f[d]]
  <2>1. PICK S, next : S = SUBSET Node /\ next = step
    OBVIOUS
  <2>2. {1} \in S /\ next \in [S -> S]
    BY <1>1, <1>2, <2>1
  <2>3. \E f \in [Nat -> S] : f[0] = {1} /\ \A d \in Nat : f[d + 1] = next[f[d]]
    BY <2>2, Iteration
  <2> QED  BY ONLY <2>1, <2>3
<1>4. f = Def(f)
  <2>1. ASSUME NEW d \in Nat, d # 0
        PROVE  f[d] = UNION {References(n) : n \in f[d - 1]}
    <3>1. PICK e \in Nat : d = e + 1 /\ d - 1 = e
      BY <2>1
    <3>2. f[d] = step[f[e]] /\ f[e] \in SUBSET Node
      BY <1>3, <3>1
    <3> QED  BY <3>1, <3>2
  <2>2. f[0] = {1}
    BY <1>3
  <2> QED  BY <1>3, <2>1, <2>2
<1>5. AtDepth = CHOOSE g : g = Def(g)
  BY DEF AtDepth
<1>6. AtDepth = Def(AtDepth)
  <2> HIDE DEF Def
  <2> QED  BY <1>4, <1>5
<1>7. /\ AtDepth[0] = {1}
      /\ \A d \in Nat : AtDepth[d + 1] = UNION {References(n) : n \in AtDepth[d]}
  BY <1>6
<1>8. \A d \in Nat : AtDepth[d] \in SUBSET Node
  <2> DEFINE Typed == {d \in Nat : AtDepth[d] \in SUBSET Node}
  <2>1. 0 \in Typed
    BY <1>1, <1>7
  <2>2. ASSUME NEW d \in Nat, d \in Typed PROVE d + 1 \in Typed
    BY <1>1, <1>7, <2>2
  <2>3. Nat \subseteq Typed
    <3> HIDE DEF Typed
    <3> QED  BY <2>1, <2>2, Induction
  <2> QED  BY <2>3
<1>9. AtDepth = [d \in Nat |-> AtDepth[d]]
  BY <1>6
<1> QED  BY <1>7, <1>8, <1>9

-----------------------------------------------------------------------------
\* What the recursion has made: the frames st of the running calls, the states
\* sts, the ids tr of the finished nodes and the document tg.
Frame == [node : Node, id : Nat, at : Nat]
DocumentNode == [kind : Kind, items : Seq([key : Key \cup {NoKey}, value : Nat])]

Typed(st, sts, tr, tg) ==
  /\ st \in Seq(Frame)
  /\ sts \in [Node -> 0..2]
  /\ tr \in [Node -> 0..Len(tg)]
  /\ tg \in Seq(DocumentNode)
  /\ \A j \in DOMAIN st : /\ st[j].id \in 1..Len(tg)
                          /\ st[j].at \in 1..(Len(Items(st[j].node)) + 1)

\* The first items of a mapping have keys of their own.
KeysDiffer(n, upto) ==
  source.node[n].kind = "object" =>
    \A i, j \in 1..upto : Items(n)[i].key = Items(n)[j].key => i = j

\* The call with that frame has come to an item whose value is n.
Awaits(frame, n) ==
  /\ frame.at \in DOMAIN Items(frame.node)
  /\ Items(frame.node)[frame.at].value = n
  /\ KeysDiffer(frame.node, frame.at)

\* The running calls are a walk from the root, through nodes under way only.
Path(st, sts) ==
  /\ \A j \in 1..(Len(st) - 1) : Awaits(st[j], st[j + 1].node)
  /\ \A j \in DOMAIN st : sts[st[j].node] = 1 /\ st[j].node \in AtDepth[j - 1]
  /\ \A j, k \in DOMAIN st : st[j].node = st[k].node => j = k
  /\ \A n \in Node : sts[n] = 1 => \E j \in DOMAIN st : st[j].node = n

\* Every node that was met has a node of the document of its own.
Met(sts) == {n \in Node : sts[n] # 0}

OwnIds(st, sts, tr, tg) ==
  /\ \A n \in Node : sts[n] = 2 => tr[n] # 0
  /\ \A m, n \in Node : sts[m] = 2 /\ sts[n] = 2 /\ tr[m] = tr[n] => m = n
  /\ \A j, k \in DOMAIN st : st[j].id = st[k].id => j = k
  /\ \A n \in Node, j \in DOMAIN st : sts[n] = 2 => tr[n] # st[j].id
  /\ Cardinality(Met(sts)) = Len(tg)
  /\ Met(sts) \subseteq Reachable

\* The document's node with that id is n with its first items.
Translates(id, n, upto, sts, tr, tg) ==
  /\ tg[id] = [kind  |-> source.node[n].kind,
               items |-> [i \in 1..upto |-> [key   |-> Items(n)[i].key,
                                             value |-> tr[Items(n)[i].value]]]]
  /\ \A i \in 1..upto : sts[Items(n)[i].value] = 2
  /\ KeysDiffer(n, upto)

Contents(st, sts, tr, tg) ==
  /\ \A n \in Node : sts[n] = 2 => Translates(tr[n], n, Len(Items(n)), sts, tr, tg)
  /\ \A j \in DOMAIN st : Translates(st[j].id, st[j].node, st[j].at - 1, sts, tr, tg)

\* The finished nodes can be ranked, each above those it refers to.
Finished(sts) == {n \in Node : sts[n] = 2}

Ranked(sts) ==
  \E rank \in [Node -> Nat] :
    \A n \in Finished(sts) : /\ rank[n] < Cardinality(Finished(sts))
                             /\ \A m \in References(n) : rank[m] < rank[n]

\* In a tree, what hangs below an item that is still to come was not met.
Unmet(st, sts) ==
  source.format = "json" =>
    /\ \A n \in Node : sts[n] = 0 => \A i \in DOMAIN Items(n) : sts[Items(n)[i].value] = 0
    /\ \A j \in DOMAIN st : \A i \in DOMAIN Items(st[j].node) :
         i > st[j].at => sts[Items(st[j].node)[i].value] = 0

Built(st, sts, tr, tg) ==
  /\ Typed(st, sts, tr, tg)
  /\ Path(st, sts)
  /\ OwnIds(st, sts, tr, tg)
  /\ Contents(st, sts, tr, tg)
  /\ Ranked(sts)
  /\ Unmet(st, sts)

\* What each stage of parse_document can rely on.
Stages ==
  /\ stage \in {"start", "load", "build", "trailing", "accepted", "refused"}
  /\ stage \in {"start", "load"} \/ (stage = "build" /\ stack = << >>) =>
       stack = << >> /\ target = << >> /\ Met(states) = {}
  /\ stage \in {"build", "trailing", "accepted"} => source.loads /\ Node # {}
  /\ stage \in {"trailing", "accepted"} => stack = << >> /\ states[1] = 2
  /\ stage = "accepted" => source.trailing = "none"
  /\ (stage = "refused") <=> (reason # "none")
  /\ source.format = "json" /\ stage = "build" /\ stack # << >> =>
       (Top.at \in DOMAIN Items(Top.node) => states[Items(Top.node)[Top.at].value] = 0)

ParserInv ==
  /\ source \in Source
  /\ Built(stack, states, translated, target)
  /\ Len(stack) <= MaxDepth + 1 /\ Len(target) <= MaxNodes
  /\ Stages
  /\ RefusedForCause

\* The node that the running calls have come to is n.
Awaited(st, n) == IF st = << >> THEN n = 1 ELSE Awaits(st[Len(st)], n)

\* And in a tree it was not met.
AwaitsUnmet(st, sts) ==
  source.format = "json" /\ st # << >> /\ st[Len(st)].at \in DOMAIN Items(st[Len(st)].node) =>
    sts[Items(st[Len(st)].node)[st[Len(st)].at].value] = 0

-----------------------------------------------------------------------------
\* The recursion is never deeper than the source is large, and what it comes to
\* is at the end of a walk of its depth.
LEMMA ReachedByWalk ==
  ASSUME source \in Source, NEW st, NEW sts, NEW tr, NEW tg, Built(st, sts, tr, tg),
         NEW n \in Node, Awaited(st, n)
  PROVE  n \in AtDepth[Len(st)] /\ n \in Reachable /\ Len(st) <= Size
<1>1. /\ Size \in Nat /\ IsFiniteSet(Node) /\ Cardinality(Node) = Size
      /\ st \in Seq(Frame) /\ Len(st) \in Nat /\ DOMAIN st = 1..Len(st)
      /\ AtDepth[0] = {1}
      /\ \A d \in Nat : AtDepth[d + 1] = UNION {References(m) : m \in AtDepth[d]}
  <2>1. /\ Size \in Nat /\ IsFiniteSet(Node) /\ AtDepth[0] = {1}
        /\ \A d \in Nat : AtDepth[d + 1] = UNION {References(m) : m \in AtDepth[d]}
    BY SourceShape, Walks
  <2>2. Cardinality(Node) = Size
    BY DEF Size, Node
  <2>3. st \in Seq(Frame) /\ Len(st) \in Nat /\ DOMAIN st = 1..Len(st)
    BY DEF Built, Typed
  <2> QED  BY <2>1, <2>2, <2>3
<1>2. n \in AtDepth[Len(st)]
  <2>1. CASE st = << >>
    BY <1>1, <2>1 DEF Awaited
  <2>2. CASE st # << >>
    <3>1. PICK d \in Nat : Len(st) = d + 1 /\ Len(st) - 1 = d /\ Len(st) \in DOMAIN st
      <4>1. Len(st) # 0
        BY <1>1, <2>2
      <4>2. Len(st) - 1 \in Nat /\ Len(st) = (Len(st) - 1) + 1
        BY <1>1, <4>1
      <4> QED  BY <1>1, <4>1, <4>2
    <3>2. st[Len(st)].node \in AtDepth[d]
      BY <3>1 DEF Built, Path
    <3>3. n \in References(st[Len(st)].node)
      BY <2>2 DEF Awaited, Awaits, References, Items
    <3> QED  BY <1>1, <3>1, <3>2, <3>3
  <2> QED  BY <2>1, <2>2
<1>3. Len(st) <= Size
  <2> DEFINE nodes == [j \in 1..Len(st) |-> st[j].node]
  <2>1. \A j \in 1..Len(st) : st[j] \in Frame
    BY <1>1
  <2>2. nodes \in [1..Len(st) -> Node]
    BY <2>1 DEF Frame
  <2>3. \A i, j \in 1..Len(st) : nodes[i] = nodes[j] => i = j
    BY <1>1 DEF Built, Path
  <2>4. nodes \in Injection(1..Len(st), Node)
    BY <2>2, <2>3 DEF Injection, IsInjective
  <2>5. Cardinality(1..Len(st)) <= Cardinality(Node)
    BY <1>1, <2>4, FS_Injection
  <2>6. Cardinality(1..Len(st)) = Len(st)
    BY <1>1, FS_Interval
  <2> QED  BY <1>1, <2>5, <2>6
<1>4. Len(st) \in 0..Size
  BY <1>1, <1>3
<1> QED  BY <1>2, <1>3, <1>4 DEF Reachable

\* No item of a tree but the one that led to it has a node as its value.
LEMMA OnlyWay ==
  ASSUME source \in Source, source.format = "json", NEW st, NEW sts, NEW tr, NEW tg,
         Built(st, sts, tr, tg), NEW n \in Node, Awaited(st, n),
         NEW m \in Node, NEW i \in DOMAIN Items(m), Items(m)[i].value = n
  PROVE  st # << >> /\ m = st[Len(st)].node /\ i = st[Len(st)].at
<1>1. Tree(source.node)
  BY SourceAssumption
<1>2. n # 1
  BY <1>1 DEF Tree, Node, Items
<1>3. st # << >> /\ Awaits(st[Len(st)], n)
  BY <1>2 DEF Awaited
<1>4. st[Len(st)].node \in Node
  <2>1. st \in Seq(Frame) /\ Len(st) \in 1..Len(st)
    BY <1>3 DEF Built, Typed
  <2>2. st[Len(st)] \in Frame
    BY <2>1
  <2> QED  BY <2>2 DEF Frame
<1>5. \A a, b \in Node : \A x \in DOMAIN Items(a), y \in DOMAIN Items(b) :
        Items(a)[x].value = Items(b)[y].value => a = b /\ x = y
  BY <1>1 DEF Tree, Node, Items
<1>6. /\ st[Len(st)].at \in DOMAIN Items(st[Len(st)].node)
      /\ Items(st[Len(st)].node)[st[Len(st)].at].value = n
  BY <1>3 DEF Awaits
<1> QED  BY ONLY <1>3, <1>4, <1>5, <1>6, m \in Node, i \in DOMAIN Items(m), Items(m)[i].value = n

\* What a call begins with: its frame, and its node of the document.
FirstFrame(n, tg) == [node |-> n, id |-> Len(tg) + 1, at |-> 1]
Unfilled(n) == [kind |-> source.node[n].kind, items |-> << >>]

\* The frame of the call that runs, those it returns to, and the note that it
\* leaves about a node.
Running(st) == st[Len(st)]
Callers(st) == SubSeq(st, 1, Len(st) - 1)
Noted(f, n, value) == [f EXCEPT ![n] = value]

LEMMA PushTyped ==
  ASSUME source \in Source, NEW st, NEW sts, NEW tr, NEW tg, Typed(st, sts, tr, tg),
         NEW n \in Node, source.node[n].kind \in Kind
  PROVE  LET st2 == Append(st, FirstFrame(n, tg))
             tg2 == Append(tg, [kind |-> source.node[n].kind, items |-> << >>])
         IN  /\ Typed(st2, [sts EXCEPT ![n] = 1], tr, tg2)
             /\ Len(st) \in Nat /\ DOMAIN st = 1..Len(st) /\ Len(st2) = Len(st) + 1
             /\ DOMAIN st2 = 1..(Len(st) + 1)
             /\ \A j \in 1..Len(st) : st2[j] = st[j]
             /\ st2[Len(st) + 1] = FirstFrame(n, tg)
             /\ Len(tg) \in Nat /\ Len(tg2) = Len(tg) + 1
             /\ \A id \in 1..Len(tg) : tg2[id] = tg[id]
             /\ tg2[Len(tg) + 1] = [kind |-> source.node[n].kind, items |-> << >>]
             /\ \A m \in Node : [sts EXCEPT ![n] = 1][m] = IF m = n THEN 1 ELSE sts[m]
<1> DEFINE new == [kind |-> source.node[n].kind, items |-> << >>]
           st2 == Append(st, FirstFrame(n, tg))
           tg2 == Append(tg, new)
<1>1. st \in Seq(Frame) /\ tg \in Seq(DocumentNode) /\ Len(tg) \in Nat /\ Len(st) \in Nat
  BY DEF Typed
<1>2. FirstFrame(n, tg) \in Frame /\ new \in DocumentNode
  BY <1>1 DEF FirstFrame, Frame, DocumentNode
<1>3. /\ st2 \in Seq(Frame) /\ DOMAIN st = 1..Len(st) /\ Len(st2) = Len(st) + 1
      /\ DOMAIN st2 = 1..(Len(st) + 1)
      /\ \A j \in 1..Len(st) : st2[j] = st[j]
      /\ st2[Len(st) + 1] = FirstFrame(n, tg)
  BY <1>1, <1>2
<1>4. /\ tg2 \in Seq(DocumentNode) /\ Len(tg2) = Len(tg) + 1
      /\ \A id \in 1..Len(tg) : tg2[id] = tg[id]
      /\ tg2[Len(tg) + 1] = new
  <2> HIDE DEF new
  <2> QED  BY <1>1, <1>2
<1>5. [sts EXCEPT ![n] = 1] \in [Node -> 0..2]
      /\ \A m \in Node : [sts EXCEPT ![n] = 1][m] = IF m = n THEN 1 ELSE sts[m]
  BY DEF Typed
<1>6. tr \in [Node -> 0..Len(tg2)]
  BY <1>1, <1>4 DEF Typed
<1>7. ASSUME NEW j \in DOMAIN st2
      PROVE  st2[j].id \in 1..Len(tg2) /\ st2[j].at \in 1..(Len(Items(st2[j].node)) + 1)
  <2>1. CASE j \in 1..Len(st)
    <3>1. st[j].id \in 1..Len(tg) /\ st[j].at \in 1..(Len(Items(st[j].node)) + 1)
      BY <1>3, <2>1 DEF Typed
    <3> QED  BY <1>1, <1>3, <1>4, <2>1, <3>1
  <2>2. CASE j = Len(st) + 1
    <3>1. Len(Items(n)) \in Nat
      BY SourceShape
    <3> QED  BY <1>1, <1>3, <1>4, <2>2, <3>1 DEF FirstFrame
  <2> QED  BY <1>1, <1>3, <2>1, <2>2
<1>8. Typed(st2, [sts EXCEPT ![n] = 1], tr, tg2)
  BY <1>3, <1>4, <1>5, <1>6, <1>7 DEF Typed
<1> QED  BY <1>1, <1>3, <1>4, <1>5, <1>8

\* A call for a node that was not met gives it a node of the document and takes
\* it under way.
LEMMA PushKeeps ==
  ASSUME source \in Source, NEW st, NEW sts, NEW tr, NEW tg, Built(st, sts, tr, tg),
         NEW n \in Node, source.node[n].kind \in Kind, sts[n] = 0, Awaited(st, n)
  PROVE  /\ Built(Append(st, FirstFrame(n, tg)), Noted(sts, n, 1), tr, Append(tg, Unfilled(n)))
         /\ AwaitsUnmet(Append(st, FirstFrame(n, tg)), Noted(sts, n, 1))
<1> DEFINE new  == [kind |-> source.node[n].kind, items |-> << >>]
           st2  == Append(st, FirstFrame(n, tg))
           sts2 == [sts EXCEPT ![n] = 1]
           tg2  == Append(tg, new)
<1>1. /\ Typed(st2, sts2, tr, tg2)
      /\ Len(st) \in Nat /\ DOMAIN st = 1..Len(st) /\ Len(st2) = Len(st) + 1
      /\ DOMAIN st2 = 1..(Len(st) + 1)
      /\ \A j \in 1..Len(st) : st2[j] = st[j]
      /\ st2[Len(st) + 1] = FirstFrame(n, tg)
      /\ Len(tg) \in Nat /\ Len(tg2) = Len(tg) + 1
      /\ \A id \in 1..Len(tg) : tg2[id] = tg[id]
      /\ tg2[Len(tg) + 1] = new
      /\ \A m \in Node : sts2[m] = IF m = n THEN 1 ELSE sts[m]
  BY PushTyped DEF Built
<1>2. n \in AtDepth[Len(st)] /\ n \in Reachable
  BY ReachedByWalk
<1>3. /\ \A j \in DOMAIN st : st[j].node \in Node /\ sts[st[j].node] = 1
      /\ \A j \in DOMAIN st : st[j].id \in 1..Len(tg)
      /\ \A m \in Node : tr[m] \in 0..Len(tg)
  <2>1. \A j \in DOMAIN st : st[j] \in Frame
    BY <1>1 DEF Built, Typed
  <2> QED  BY <2>1 DEF Built, Typed, Path, Frame
<1>4. FirstFrame(n, tg).node = n /\ FirstFrame(n, tg).id = Len(tg) + 1 /\ FirstFrame(n, tg).at = 1
  BY DEF FirstFrame
<1> HIDE DEF new, st2, sts2, tg2
<1>5. Path(st2, sts2)
  <2>1. ASSUME NEW j \in 1..(Len(st2) - 1) PROVE Awaits(st2[j], st2[j + 1].node)
    <3>1. j \in 1..Len(st)
      BY <1>1
    <3>2. CASE j = Len(st)
      <4>1. st # << >>
        BY <3>1, <3>2
      <4> QED  BY <1>1, <1>4, <3>1, <3>2, <4>1 DEF Awaited
    <3>3. CASE j # Len(st)
      <4>1. j \in 1..(Len(st) - 1) /\ j + 1 \in 1..Len(st)
        <5>1. Len(st) \in Nat
          BY <1>1
        <5> QED  BY ONLY <3>1, <3>3, <5>1
      <4> QED  BY <1>1, <4>1 DEF Built, Path
    <3> QED  BY <3>2, <3>3
  <2>2. ASSUME NEW j \in DOMAIN st2 PROVE sts2[st2[j].node] = 1 /\ st2[j].node \in AtDepth[j - 1]
    <3>1. CASE j \in 1..Len(st)
      BY <1>1, <1>3, <3>1 DEF Built, Path
    <3>2. CASE j = Len(st) + 1
      BY <1>1, <1>2, <1>4, <3>2
    <3> QED  BY <1>1, <3>1, <3>2
  <2>3. ASSUME NEW j \in DOMAIN st2, NEW k \in DOMAIN st2, st2[j].node = st2[k].node PROVE j = k
    <3>1. ASSUME NEW i \in 1..Len(st) PROVE st2[i].node = st[i].node /\ st[i].node # n
      <4>1. i \in DOMAIN st /\ st2[i] = st[i]
        BY <1>1
      <4>2. sts[st[i].node] = 1 /\ sts[n] = 0
        BY <1>3, <4>1
      <4> QED  BY <4>1, <4>2
    <3>2. \A i, l \in 1..Len(st) : st[i].node = st[l].node => i = l
      BY <1>1 DEF Built, Path
    <3>3. /\ j \in 1..Len(st) \/ (j = Len(st) + 1 /\ st2[j].node = n)
          /\ k \in 1..Len(st) \/ (k = Len(st) + 1 /\ st2[k].node = n)
      BY <1>1, <1>4
    <3> QED  BY ONLY <2>3, <3>1, <3>2, <3>3
  <2>4. ASSUME NEW m \in Node, sts2[m] = 1 PROVE \E j \in DOMAIN st2 : st2[j].node = m
    <3>1. CASE m = n
      <4>1. Len(st) + 1 \in DOMAIN st2
        BY <1>1
      <4> QED  BY <1>1, <1>4, <3>1, <4>1
    <3>2. CASE m # n
      <4>1. PICK j \in DOMAIN st : st[j].node = m
        BY <1>1, <2>4, <3>2 DEF Built, Path
      <4>2. j \in DOMAIN st2
        BY <1>1
      <4> QED  BY <1>1, <4>1, <4>2
    <3> QED  BY <3>1, <3>2
  <2> QED  BY <2>1, <2>2, <2>3, <2>4 DEF Path
<1>6. OwnIds(st2, sts2, tr, tg2)
  <2>1. Met(sts2) = Met(sts) \cup {n} /\ n \notin Met(sts)
    BY <1>1 DEF Met
  <2>2. IsFiniteSet(Met(sts))
    BY SourceShape, FS_Subset DEF Met
  <2>3. Cardinality(Met(sts2)) = Cardinality(Met(sts)) + 1
    <3>1. PICK met : met = Met(sts)
      OBVIOUS
    <3>2. Cardinality(met \cup {n}) = Cardinality(met) + 1
      BY <2>1, <2>2, <3>1, FS_AddElement
    <3> QED  BY <2>1, <3>1, <3>2
  <2>4. Cardinality(Met(sts2)) = Len(tg2) /\ Met(sts2) \subseteq Reachable
    BY <1>1, <1>2, <2>1, <2>3 DEF Built, OwnIds
  <2>5. ASSUME NEW m \in Node, sts2[m] = 2 PROVE sts[m] = 2
    BY <1>1, <2>5
  <2>6. ASSUME NEW j \in DOMAIN st2
        PROVE  \/ j \in DOMAIN st /\ st2[j] = st[j]
               \/ j = Len(st) + 1 /\ st2[j].id = Len(tg) + 1
    BY <1>1, <1>4
  <2>7. \A j, k \in DOMAIN st2 : st2[j].id = st2[k].id => j = k
    BY <1>1, <1>3, <2>5, <2>6 DEF Built, OwnIds
  <2>8. \A m \in Node, j \in DOMAIN st2 : sts2[m] = 2 => tr[m] # st2[j].id
    BY <1>1, <1>3, <2>5, <2>6 DEF Built, OwnIds
  <2>9. /\ \A m \in Node : sts2[m] = 2 => tr[m] # 0
        /\ \A l, m \in Node : sts2[l] = 2 /\ sts2[m] = 2 /\ tr[l] = tr[m] => l = m
    BY <2>5 DEF Built, OwnIds
  <2> QED  BY <2>4, <2>7, <2>8, <2>9 DEF OwnIds
<1>7. Contents(st2, sts2, tr, tg2)
  <2>1. ASSUME NEW id \in 1..Len(tg), NEW m \in Node, NEW upto \in 0..Len(Items(m)),
               Translates(id, m, upto, sts, tr, tg)
        PROVE  Translates(id, m, upto, sts2, tr, tg2)
    <3>1. ASSUME NEW i \in 1..upto PROVE sts2[Items(m)[i].value] = 2
      <4>1. i \in DOMAIN Items(m)
        BY SourceShape
      <4>2. Items(m)[i].value \in Node
        BY <4>1, SourceShape
      <4>3. sts[Items(m)[i].value] = 2
        BY <2>1 DEF Translates
      <4> QED  BY <1>1, <4>2, <4>3
    <3>2. \A i \in 1..upto : sts2[Items(m)[i].value] = 2
      BY ONLY <3>1
    <3> QED  BY <1>1, <2>1, <3>2 DEF Translates
  <2>2. \A m \in Node : Len(Items(m)) \in Nat
    BY SourceShape
  <2>3. ASSUME NEW m \in Node, sts2[m] = 2
        PROVE  Translates(tr[m], m, Len(Items(m)), sts2, tr, tg2)
    <3>1. sts[m] = 2 /\ tr[m] \in 1..Len(tg)
      BY <1>1, <1>3, <2>3 DEF Built, OwnIds
    <3>2. Translates(tr[m], m, Len(Items(m)), sts, tr, tg)
      BY <3>1 DEF Built, Contents
    <3> QED  BY <2>1, <2>2, <3>1, <3>2
  <2>4. ASSUME NEW j \in DOMAIN st2
        PROVE  Translates(st2[j].id, st2[j].node, st2[j].at - 1, sts2, tr, tg2)
    <3>1. CASE j \in 1..Len(st)
      <4>1. Translates(st[j].id, st[j].node, st[j].at - 1, sts, tr, tg)
        BY <1>1, <3>1 DEF Built, Contents
      <4>2. st[j].at - 1 \in 0..Len(Items(st[j].node))
        BY <1>1, <1>3, <2>2, <3>1 DEF Built, Typed
      <4> QED  BY <1>1, <1>3, <2>1, <3>1, <4>1, <4>2
    <3>2. CASE j = Len(st) + 1
      <4>1. st2[j].id = Len(tg) + 1 /\ st2[j].node = n /\ st2[j].at - 1 = 0
        BY <1>1, <1>4, <3>2
      <4>2. tg2[Len(tg) + 1] = [kind |-> source.node[n].kind, items |-> << >>]
        BY <1>1 DEF new
      <4>3. << >> = [i \in 1..0 |-> [key   |-> Items(n)[i].key,
                                      value |-> tr[Items(n)[i].value]]]
        OBVIOUS
      <4> QED  BY <4>1, <4>2, <4>3 DEF Translates, KeysDiffer
    <3> QED  BY <1>1, <3>1, <3>2
  <2> QED  BY <2>3, <2>4 DEF Contents
<1>8. Ranked(sts2)
  <2>1. Finished(sts2) = Finished(sts)
    BY <1>1 DEF Finished
  <2> QED  BY <2>1 DEF Built, Ranked
<1>9. ASSUME source.format = "json", NEW m \in Node, NEW i \in DOMAIN Items(m),
             Items(m)[i].value = n
      PROVE  sts[m] = 1 /\ m # n
             /\ \A j \in DOMAIN st : st[j].node = m => i = st[j].at
  <2>1. st # << >> /\ m = st[Len(st)].node /\ i = st[Len(st)].at
    BY <1>9, OnlyWay
  <2>2. Len(st) \in DOMAIN st
    <3>1. st \in Seq(Frame)
      BY DEF Built, Typed
    <3> QED  BY <2>1, <3>1
  <2> QED  BY <1>3, <2>1, <2>2 DEF Built, Path
<1>10. Unmet(st2, sts2) /\ AwaitsUnmet(st2, sts2)
  <2> SUFFICES ASSUME source.format = "json" PROVE Unmet(st2, sts2) /\ AwaitsUnmet(st2, sts2)
    BY DEF Unmet, AwaitsUnmet
  <2>1. \A m \in Node : \A i \in DOMAIN Items(m) : Items(m)[i].value \in Node
    BY SourceShape
  <2>2. ASSUME NEW m \in Node, NEW i \in DOMAIN Items(m), sts[m] = 0
        PROVE  sts2[Items(m)[i].value] = 0
    <3>1. sts[Items(m)[i].value] = 0
      BY <2>2 DEF Built, Unmet
    <3>2. Items(m)[i].value # n
      BY <1>9, <2>2
    <3> QED  BY <1>1, <2>1, <3>1, <3>2
  <2>3. ASSUME NEW m \in Node, sts2[m] = 0 PROVE sts[m] = 0
    BY <1>1, <2>3
  <2>4. ASSUME NEW j \in DOMAIN st2, NEW i \in DOMAIN Items(st2[j].node), i > st2[j].at
        PROVE  sts2[Items(st2[j].node)[i].value] = 0
    <3>1. CASE j \in 1..Len(st)
      <4>1. st2[j] = st[j] /\ j \in DOMAIN st /\ st[j].node \in Node
        BY <1>1, <1>3, <3>1
      <4>2. sts[Items(st[j].node)[i].value] = 0
        BY <2>4, <4>1 DEF Built, Unmet
      <4>3. st[j].at \in Nat /\ i # st[j].at
        BY <2>4, <4>1 DEF Built, Typed
      <4>4. Items(st[j].node)[i].value # n
        BY <1>9, <2>4, <4>1, <4>3
      <4> QED  BY <1>1, <2>1, <2>4, <4>1, <4>2, <4>4
    <3>2. CASE j = Len(st) + 1
      BY <1>1, <1>4, <2>2, <2>4, <3>2
    <3> QED  BY <1>1, <3>1, <3>2
  <2>5. AwaitsUnmet(st2, sts2)
    BY <1>1, <1>4, <2>2 DEF AwaitsUnmet
  <2> QED  BY <2>2, <2>3, <2>4, <2>5 DEF Unmet
<1>11. Built(st2, sts2, tr, tg2) /\ AwaitsUnmet(st2, sts2)
  BY <1>1, <1>5, <1>6, <1>7, <1>8, <1>10 DEF Built
<1> QED  BY <1>11 DEF st2, sts2, tg2, new, Noted, Unfilled

\* A call that is through with its items finishes its node, which is what the
\* call before it had come to.
LEMMA PopKeeps ==
  ASSUME source \in Source, NEW st, NEW sts, NEW tr, NEW tg, Built(st, sts, tr, tg),
         st # << >>, Running(st).at > Len(Items(Running(st).node))
  PROVE  LET n  == Running(st).node
             id == Running(st).id
         IN  /\ Built(Callers(st), Noted(sts, n, 2), Noted(tr, n, id), tg)
             /\ Awaited(Callers(st), n) /\ n \in Node
             /\ Noted(sts, n, 2)[n] = 2 /\ Noted(tr, n, id)[n] = id
             /\ Len(Callers(st)) = Len(st) - 1 /\ Len(st) \in Nat
<1>a. PICK k, n : k = Len(st) /\ n = st[k].node /\ st[k].at > Len(Items(n))
  BY DEF Running
<1> DEFINE st2  == SubSeq(st, 1, k - 1)
           sts2 == [sts EXCEPT ![n] = 2]
           tr2  == [tr EXCEPT ![n] = st[k].id]
<1>1. /\ st \in Seq(Frame) /\ k \in Nat /\ k \in 1..k /\ DOMAIN st = 1..k
      /\ k - 1 \in Nat
  <2>1. st \in Seq(Frame)
    BY DEF Built, Typed
  <2>2. Len(st) \in Nat /\ Len(st) # 0 /\ DOMAIN st = 1..Len(st)
    BY <2>1
  <2> QED  BY <1>a, <2>1, <2>2
<1>2. /\ st2 \in Seq(Frame) /\ Len(st2) = k - 1 /\ DOMAIN st2 = 1..(k - 1)
      /\ \A j \in 1..(k - 1) : j \in DOMAIN st /\ j # k /\ st2[j] = st[j]
  <2>1. \A j \in 1..(k - 1) : j \in 1..k /\ j # k
    BY <1>1
  <2>2. /\ SubSeq(st, 1, k - 1) \in Seq(Frame) /\ Len(SubSeq(st, 1, k - 1)) = k - 1
        /\ \A j \in 1..(k - 1) : SubSeq(st, 1, k - 1)[j] = st[j]
    BY <1>1
  <2> QED  BY <1>1, <2>1, <2>2
<1>3. /\ \A j \in DOMAIN st : st[j].node \in Node /\ sts[st[j].node] = 1
      /\ \A j \in DOMAIN st : st[j].id \in 1..Len(tg)
      /\ Len(tg) \in Nat
  <2>1. \A j \in DOMAIN st : st[j] \in Frame
    BY <1>1
  <2> QED  BY <2>1 DEF Built, Typed, Path, Frame
<1>4. n \in Node /\ sts[n] = 1 /\ st[k].id \in 1..Len(tg)
  BY <1>a, <1>1, <1>3
<1>5. /\ sts2 \in [Node -> 0..2] /\ tr2 \in [Node -> 0..Len(tg)]
      /\ \A m \in Node : /\ sts2[m] = IF m = n THEN 2 ELSE sts[m]
                         /\ tr2[m] = IF m = n THEN st[k].id ELSE tr[m]
  BY <1>3, <1>4 DEF Built, Typed
<1> HIDE DEF st2, sts2, tr2
<1>6. Typed(st2, sts2, tr2, tg)
  BY <1>2, <1>5 DEF Built, Typed
<1>7. \A j \in 1..(k - 1) : st[j].node # n
  BY <1>a, <1>1, <1>2 DEF Built, Path
<1>8. Path(st2, sts2)
  <2>1. ASSUME NEW j \in 1..(Len(st2) - 1) PROVE Awaits(st2[j], st2[j + 1].node)
    <3>1. j \in 1..(k - 1) /\ j + 1 \in 1..(k - 1)
      BY <1>1, <1>2
    <3> QED  BY <1>2, <3>1 DEF Built, Path
  <2>2. ASSUME NEW j \in DOMAIN st2 PROVE sts2[st2[j].node] = 1 /\ st2[j].node \in AtDepth[j - 1]
    <3>1. st2[j] = st[j] /\ j \in DOMAIN st /\ st[j].node # n
      BY <1>2, <1>7
    <3>2. st[j].node \in AtDepth[j - 1] /\ st[j].node \in Node /\ sts[st[j].node] = 1
      BY <1>3, <3>1 DEF Built, Path
    <3> QED  BY <1>5, <3>1, <3>2
  <2>3. \A i, j \in DOMAIN st2 : st2[i].node = st2[j].node => i = j
    BY <1>2 DEF Built, Path
  <2>4. ASSUME NEW m \in Node, sts2[m] = 1 PROVE \E j \in DOMAIN st2 : st2[j].node = m
    <3>1. m # n /\ sts[m] = 1
      BY <1>5, <2>4
    <3>2. PICK j \in DOMAIN st : st[j].node = m
      BY <3>1 DEF Built, Path
    <3>3. j \in 1..(k - 1)
      BY <1>a, <1>1, <3>1, <3>2
    <3> QED  BY <1>2, <3>2, <3>3
  <2> QED  BY <2>1, <2>2, <2>3, <2>4 DEF Path
<1>9. OwnIds(st2, sts2, tr2, tg)
  <2>1. Met(sts2) = Met(sts)
    BY <1>4, <1>5 DEF Met
  <2>2. \A m \in Node : sts2[m] = 2 => tr2[m] # 0
    BY <1>4, <1>5 DEF Built, OwnIds
  <2>3. ASSUME NEW l \in Node, NEW m \in Node, sts2[l] = 2, sts2[m] = 2, tr2[l] = tr2[m]
        PROVE  l = m
    <3>1. \A e \in Node : sts[e] = 2 => tr[e] # st[k].id
      BY <1>1 DEF Built, OwnIds
    <3>2. \A a, b \in Node : sts[a] = 2 /\ sts[b] = 2 /\ tr[a] = tr[b] => a = b
      BY DEF Built, OwnIds
    <3>3. /\ l = n \/ (sts[l] = 2 /\ tr2[l] = tr[l])
          /\ m = n \/ (sts[m] = 2 /\ tr2[m] = tr[m])
          /\ tr2[n] = st[k].id
      BY <1>4, <1>5, <2>3
    <3> QED  BY <2>3, <3>1, <3>2, <3>3
  <2>4. \A i, j \in DOMAIN st2 : st2[i].id = st2[j].id => i = j
    BY <1>2 DEF Built, OwnIds
  <2>5. ASSUME NEW m \in Node, NEW j \in DOMAIN st2, sts2[m] = 2 PROVE tr2[m] # st2[j].id
    <3>1. st2[j] = st[j] /\ j \in DOMAIN st /\ j # k /\ k \in DOMAIN st
      BY <1>1, <1>2
    <3>2. st[j].id # st[k].id /\ (sts[m] = 2 => tr[m] # st[j].id)
      BY <3>1 DEF Built, OwnIds
    <3> QED  BY <1>5, <2>5, <3>1, <3>2
  <2> QED  BY <2>1, <2>2, <2>3, <2>4, <2>5 DEF Built, OwnIds
<1>10. \A m \in Node : /\ Len(Items(m)) \in Nat
                       /\ \A i \in 1..Len(Items(m)) : Items(m)[i].value \in Node
                       /\ DOMAIN Items(m) = 1..Len(Items(m))
  BY SourceShape
<1>11. st[k].at - 1 = Len(Items(n)) /\ Translates(st[k].id, n, Len(Items(n)), sts, tr, tg)
  <2>1. st[k].at - 1 = Len(Items(n))
    <3>1. st[k].at \in 1..(Len(Items(n)) + 1)
      BY <1>a, <1>1 DEF Built, Typed
    <3>2. Len(Items(n)) \in Nat
      BY <1>4, <1>10
    <3> QED  BY ONLY <1>a, <3>1, <3>2
  <2>2. Translates(st[k].id, st[k].node, st[k].at - 1, sts, tr, tg)
    BY <1>1 DEF Built, Contents
  <2> QED  BY <1>a, <2>1, <2>2
<1>12. Contents(st2, sts2, tr2, tg)
  <2>1. ASSUME NEW id, NEW m \in Node, NEW upto \in 0..Len(Items(m)),
               Translates(id, m, upto, sts, tr, tg)
        PROVE  Translates(id, m, upto, sts2, tr2, tg)
    <3>1. \A i \in 1..upto : Items(m)[i].value \in Node
      BY <1>10
    <3>2. \A i \in 1..upto : sts[Items(m)[i].value] = 2 /\ Items(m)[i].value # n
      BY <1>4, <2>1 DEF Translates
    <3>3. \A i \in 1..upto : /\ sts2[Items(m)[i].value] = 2
                             /\ tr2[Items(m)[i].value] = tr[Items(m)[i].value]
      BY <1>5, <3>1, <3>2
    <3> QED  BY <2>1, <3>3 DEF Translates
  <2>2. ASSUME NEW m \in Node, sts2[m] = 2
        PROVE  Translates(tr2[m], m, Len(Items(m)), sts2, tr2, tg)
    <3>1. Translates(tr2[m], m, Len(Items(m)), sts, tr, tg)
      BY <1>5, <1>11, <2>2 DEF Built, Contents
    <3> QED  BY <1>10, <2>1, <3>1
  <2>3. ASSUME NEW j \in DOMAIN st2
        PROVE  Translates(st2[j].id, st2[j].node, st2[j].at - 1, sts2, tr2, tg)
    <3>1. st2[j] = st[j] /\ j \in DOMAIN st /\ st[j].node \in Node
      BY <1>2, <1>3
    <3>2. Translates(st[j].id, st[j].node, st[j].at - 1, sts, tr, tg)
      BY <3>1 DEF Built, Contents
    <3>3. st[j].at - 1 \in 0..Len(Items(st[j].node))
      BY <1>10, <3>1 DEF Built, Typed
    <3> QED  BY <2>1, <3>1, <3>2, <3>3
  <2> QED  BY <2>2, <2>3 DEF Contents
<1>13. Ranked(sts2)
  <2> DEFINE F == Finished(sts)
  <2>1. PICK rank \in [Node -> Nat] :
          \A m \in F : /\ rank[m] < Cardinality(F)
                       /\ \A l \in References(m) : rank[l] < rank[m]
    BY DEF Built, Ranked
  <2>2. IsFiniteSet(F) /\ n \notin F /\ Finished(sts2) = F \cup {n} /\ F \subseteq Node
    BY <1>4, <1>5, SourceShape, FS_Subset DEF Finished
  <2>3. Cardinality(F) \in Nat /\ Cardinality(Finished(sts2)) = Cardinality(F) + 1
    BY <2>2, FS_CardinalityType, FS_AddElement
  <2>4. ASSUME NEW m \in F \cup {n}, NEW l \in References(m) PROVE l \in F
    <3>1. m \in Node
      BY <1>4, <2>2
    <3>2. PICK i \in 1..Len(Items(m)) : l = Items(m)[i].value
      BY <1>10, <2>4, <3>1 DEF References, Items
    <3>3. PICK id : Translates(id, m, Len(Items(m)), sts, tr, tg)
      BY <1>11, <2>4 DEF Built, Contents, Finished
    <3>4. sts[l] = 2
      BY <3>2, <3>3 DEF Translates
    <3> QED  BY <1>10, <3>1, <3>2, <3>4 DEF Finished
  <2> DEFINE rank2 == [rank EXCEPT ![n] = Cardinality(F)]
  <2> HIDE DEF F
  <2>5. /\ rank2 \in [Node -> Nat] /\ rank2[n] = Cardinality(F)
        /\ \A m \in F : rank2[m] = rank[m] /\ rank[m] \in Nat
    BY <1>4, <2>2, <2>3
  <2>6. ASSUME NEW m \in F \cup {n}
        PROVE  rank2[m] < Cardinality(F) + 1 /\ \A l \in References(m) : rank2[l] < rank2[m]
    <3>1. CASE m \in F
      BY <2>1, <2>3, <2>4, <2>5, <3>1
    <3>2. CASE m = n
      BY <2>1, <2>3, <2>4, <2>5, <3>2
    <3> QED  BY <3>1, <3>2
  <2> HIDE DEF rank2
  <2> QED  BY <2>2, <2>3, <2>5, <2>6 DEF Ranked
<1>14. Unmet(st2, sts2)
  <2>1. \A m \in Node : sts2[m] = 0 <=> sts[m] = 0
    BY <1>4, <1>5
  <2> SUFFICES ASSUME source.format = "json" PROVE Unmet(st2, sts2)
    BY DEF Unmet
  <2>2. ASSUME NEW m \in Node, NEW i \in DOMAIN Items(m), sts2[m] = 0
        PROVE  sts2[Items(m)[i].value] = 0
    <3>1. sts[Items(m)[i].value] = 0
      BY <2>1, <2>2 DEF Built, Unmet
    <3> QED  BY <1>10, <2>1, <3>1
  <2>3. ASSUME NEW j \in DOMAIN st2, NEW i \in DOMAIN Items(st2[j].node), i > st2[j].at
        PROVE  sts2[Items(st2[j].node)[i].value] = 0
    <3>1. st2[j] = st[j] /\ j \in DOMAIN st /\ st[j].node \in Node
      BY <1>2, <1>3
    <3>2. sts[Items(st[j].node)[i].value] = 0
      BY <2>3, <3>1 DEF Built, Unmet
    <3> QED  BY <1>10, <2>1, <2>3, <3>1, <3>2
  <2> QED  BY <2>2, <2>3 DEF Unmet
<1>15. Awaited(st2, n)
  <2>1. CASE k = 1
    <3>1. n \in AtDepth[0] /\ AtDepth[0] = {1}
      BY <1>1, <1>4, <2>1, Walks DEF Built, Path
    <3>2. st2 = << >>
      BY <1>2, <2>1
    <3> QED  BY <3>1, <3>2 DEF Awaited
  <2>2. CASE k # 1
    <3>1. k - 1 \in 1..(k - 1) /\ (k - 1) + 1 = k
      BY <1>1, <2>2
    <3>2. Awaits(st[k - 1], st[k].node)
      BY <1>a, <3>1 DEF Built, Path
    <3>3. st2 # << >> /\ st2[Len(st2)] = st[k - 1]
      BY <1>2, <3>1
    <3> QED  BY <1>a, <3>2, <3>3 DEF Awaited
  <2> QED  BY <2>1, <2>2
<1>16. Built(st2, sts2, tr2, tg) /\ sts2[n] = 2 /\ tr2[n] = st[k].id
  BY <1>4, <1>5, <1>6, <1>8, <1>9, <1>12, <1>13, <1>14 DEF Built
<1>17. Callers(st) = st2 /\ Noted(sts, n, 2) = sts2 /\ Noted(tr, n, st[k].id) = tr2
  BY <1>a DEF st2, sts2, tr2, Callers, Noted
<1>18. Running(st).node = n /\ Running(st).id = st[k].id
  BY <1>a DEF Running
<1> QED  BY <1>a, <1>1, <1>2, <1>4, <1>15, <1>16, <1>17, <1>18

\* A finished node is added to the node of the call that had come to it, and
\* the call goes on with its next item; the root's call is the parser's own.
LEMMA ReturnKeeps ==
  ASSUME source \in Source, NEW st, NEW sts, NEW tr, NEW tg, Built(st, sts, tr, tg),
         NEW n \in Node, Awaited(st, n), sts[n] = 2
  PROVE  /\ Built(Advanced(st), sts, tr, Added(tg, st, tr[n]))
         /\ AwaitsUnmet(Advanced(st), sts)
         /\ Len(Advanced(st)) = Len(st) /\ Len(Added(tg, st, tr[n])) = Len(tg)
         /\ st = << >> => n = 1 /\ Advanced(st) = << >>
         /\ st # << >> => Advanced(st) # << >>
<1>a. CASE st = << >>
  BY <1>a DEF Added, Advanced, AwaitsUnmet, Awaited
<1> SUFFICES ASSUME st # << >>
             PROVE  /\ Built(Advanced(st), sts, tr, Added(tg, st, tr[n]))
                    /\ AwaitsUnmet(Advanced(st), sts) /\ Advanced(st) # << >>
                    /\ Len(Advanced(st)) = Len(st) /\ Len(Added(tg, st, tr[n])) = Len(tg)
  BY <1>a
<1>b. PICK k : k = Len(st)
  OBVIOUS
<1> DEFINE item == [key |-> Items(st[k].node)[st[k].at].key, value |-> tr[n]]
           st2  == [st EXCEPT ![k].at = @ + 1]
           tg2  == [tg EXCEPT ![st[k].id].items = Append(@, item)]
<1>1. /\ st \in Seq(Frame) /\ k \in Nat /\ k \in 1..k /\ DOMAIN st = 1..k
  <2>1. st \in Seq(Frame)
    BY DEF Built, Typed
  <2>2. Len(st) \in Nat /\ Len(st) # 0 /\ DOMAIN st = 1..Len(st)
    BY <2>1
  <2> QED  BY <1>b, <2>1, <2>2
<1>2. PICK m \in Node, id \in 1..Len(tg), at \in Nat :
        st[k] = [node |-> m, id |-> id, at |-> at]
  <2>1. st[k] \in Frame
    BY <1>1
  <2>2. st[k].id \in 1..Len(tg)
    BY <1>1 DEF Built, Typed
  <2> QED  BY <2>1, <2>2 DEF Frame
<1>3. /\ at \in DOMAIN Items(m) /\ Items(m)[at].value = n /\ KeysDiffer(m, at)
      /\ at \in 1..Len(Items(m)) /\ Len(Items(m)) \in Nat
      /\ Items(m)[at].key \in Key \cup {NoKey}
  <2>1. at \in DOMAIN Items(m) /\ Items(m)[at].value = n /\ KeysDiffer(m, at)
    BY <1>2, <1>b DEF Awaited, Awaits
  <2>2. Items(m)[at] \in [key : Key \cup {NoKey}, value : Node]
    BY <2>1, SourceShape
  <2>3. Len(Items(m)) \in Nat /\ DOMAIN Items(m) = 1..Len(Items(m))
    BY SourceShape
  <2> QED  BY <2>1, <2>2, <2>3
<1>4. /\ st2 \in Seq(Frame) /\ Len(st2) = k /\ DOMAIN st2 = 1..k
      /\ st2[k] = [node |-> m, id |-> id, at |-> at + 1]
      /\ \A j \in 1..k : j # k => st2[j] = st[j]
  <2>1. [node |-> m, id |-> id, at |-> at + 1] \in Frame
    BY DEF Frame
  <2>2. st2 = [st EXCEPT ![k] = [node |-> m, id |-> id, at |-> at + 1]]
    <3>1. [st[k] EXCEPT !.at = @ + 1] = [node |-> m, id |-> id, at |-> at + 1]
      BY <1>2
    <3>2. [st EXCEPT ![k].at = @ + 1] = [st EXCEPT ![k] = [st[k] EXCEPT !.at = @ + 1]]
      OBVIOUS
    <3> QED  BY <3>1, <3>2
  <2> DEFINE frame == [node |-> m, id |-> id, at |-> at + 1]
  <2> HIDE DEF frame, Frame
  <2> QED  BY <1>1, <2>1, <2>2 DEF frame
<1>5. /\ tg \in Seq(DocumentNode) /\ Len(tg) \in Nat /\ DOMAIN tg = 1..Len(tg)
      /\ tr[n] \in Nat
  BY DEF Built, Typed
<1> DEFINE image(upto) == [i \in 1..upto |-> [key   |-> Items(m)[i].key,
                                              value |-> tr[Items(m)[i].value]]]
           filled == [kind |-> source.node[m].kind, items |-> image(at)]
<1>6. /\ tg[id] = [kind |-> source.node[m].kind, items |-> image(at - 1)]
      /\ \A i \in 1..(at - 1) : sts[Items(m)[i].value] = 2
  <2>1. Translates(st[k].id, st[k].node, st[k].at - 1, sts, tr, tg)
    BY <1>1 DEF Built, Contents
  <2> QED  BY <1>2, <2>1 DEF Translates
<1>7. Append(image(at - 1), item) = image(at)
  <2>1. \A i \in 1..(at - 1) : Items(m)[i].value \in Node /\ Items(m)[i].key \in Key \cup {NoKey}
    <3>1. \A i \in 1..(at - 1) : i \in DOMAIN Items(m)
      BY <1>3, SourceShape
    <3>2. \A i \in 1..(at - 1) : Items(m)[i] \in [key : Key \cup {NoKey}, value : Node]
      BY <3>1, SourceShape
    <3> QED  BY <3>2
  <2> DEFINE Image == {[key |-> Items(m)[i].key, value |-> tr[Items(m)[i].value]] : i \in 1..at}
             entry(i) == [key |-> Items(m)[i].key, value |-> tr[Items(m)[i].value]]
  <2>2. item = entry(at)
    BY <1>2, <1>3
  <2>3. image(at - 1) = [i \in 1..(at - 1) |-> entry(i)] /\ image(at) = [i \in 1..at |-> entry(i)]
    OBVIOUS
  <2>4. at \in Nat /\ at - 1 \in Nat /\ (at - 1) + 1 = at
    BY <1>3
  <2> HIDE DEF image, item, entry
  <2>5. Append([i \in 1..(at - 1) |-> entry(i)], entry(at)) = [i \in 1..at |-> entry(i)]
    BY <2>4
  <2> QED  BY <2>2, <2>3, <2>5
<1>8. tg2 = [tg EXCEPT ![id] = filled]
  <2>1. st[k].id = id
    BY <1>2
  <2> HIDE DEF image, item
  <2>2. [tg[id] EXCEPT !.items = Append(@, item)] = filled
    <3>1. PICK kind, items : kind = source.node[m].kind /\ items = image(at - 1)
      OBVIOUS
    <3>2. tg[id] = [kind |-> kind, items |-> items]
      BY <1>6, <3>1
    <3>3. [tg[id] EXCEPT !.items = Append(@, item)] = [kind |-> kind, items |-> Append(items, item)]
      BY ONLY <3>2
    <3> QED  BY <1>7, <3>1, <3>3
  <2>3. [tg EXCEPT ![id].items = Append(@, item)]
          = [tg EXCEPT ![id] = [tg[id] EXCEPT !.items = Append(@, item)]]
    OBVIOUS
  <2> QED  BY <2>1, <2>2, <2>3
<1>9. filled \in DocumentNode
  <2>1. tg[id] \in DocumentNode
    BY <1>5
  <2>2. source.node[m].kind \in Kind /\ image(at - 1) \in Seq([key : Key \cup {NoKey}, value : Nat])
    BY <1>6, <2>1 DEF DocumentNode
  <2>3. item \in [key : Key \cup {NoKey}, value : Nat]
    BY <1>2, <1>3, <1>5
  <2> DEFINE Element == [key : Key \cup {NoKey}, value : Nat]
  <2> HIDE DEF Element, item, image
  <2>4. Append(image(at - 1), item) \in Seq(Element)
    BY <2>2, <2>3 DEF Element
  <2>5. image(at) \in Seq(Element)
    BY <1>7, <2>4
  <2> QED  BY <2>2, <2>5 DEF DocumentNode, Element
<1>10. /\ tg2 \in Seq(DocumentNode) /\ Len(tg2) = Len(tg) /\ tg2[id] = filled
       /\ \A i \in 1..Len(tg) : i # id => tg2[i] = tg[i]
  <2> HIDE DEF filled, tg2, DocumentNode
  <2> QED  BY <1>5, <1>8, <1>9
<1> HIDE DEF st2, tg2, item, image, filled
<1>11. Typed(st2, sts, tr, tg2)
  <2>1. ASSUME NEW j \in 1..k
        PROVE  st2[j].id \in 1..Len(tg2) /\ st2[j].at \in 1..(Len(Items(st2[j].node)) + 1)
    <3>1. CASE j = k
      BY <1>3, <1>4, <1>10, <3>1
    <3>2. CASE j # k
      BY <1>1, <1>4, <1>10, <3>2 DEF Built, Typed
    <3> QED  BY <3>1, <3>2
  <2> QED  BY <1>4, <1>10, <2>1 DEF Built, Typed
<1>12. \A j \in 1..k : st2[j].node = st[j].node /\ st2[j].id = st[j].id
  BY <1>2, <1>4
<1>13. Path(st2, sts)
  <2>1. ASSUME NEW j \in 1..(Len(st2) - 1) PROVE Awaits(st2[j], st2[j + 1].node)
    <3>1. j \in 1..k /\ j # k /\ j + 1 \in 1..k /\ j \in 1..(Len(st) - 1)
      <4>1. j \in 1..(k - 1) /\ k \in Nat
        BY <1>1, <1>4
      <4> QED  BY ONLY <1>b, <4>1
    <3>2. Awaits(st[j], st[j + 1].node)
      BY <3>1 DEF Built, Path
    <3> QED  BY <1>4, <1>12, <3>1, <3>2
  <2>2. ASSUME NEW j \in DOMAIN st2 PROVE sts[st2[j].node] = 1 /\ st2[j].node \in AtDepth[j - 1]
    <3>1. j \in DOMAIN st /\ st2[j].node = st[j].node
      BY <1>1, <1>4, <1>12
    <3> QED  BY <3>1 DEF Built, Path
  <2>3. \A i, j \in DOMAIN st2 : st2[i].node = st2[j].node => i = j
    BY <1>1, <1>4, <1>12 DEF Built, Path
  <2>4. \A l \in Node : sts[l] = 1 => \E j \in DOMAIN st2 : st2[j].node = l
    BY <1>1, <1>4, <1>12 DEF Built, Path
  <2> QED  BY <2>1, <2>2, <2>3, <2>4 DEF Path
<1>14. OwnIds(st2, sts, tr, tg2)
  BY <1>1, <1>4, <1>10, <1>12 DEF Built, OwnIds
<1>15. Contents(st2, sts, tr, tg2)
  <2>1. ASSUME NEW l \in Node, sts[l] = 2
        PROVE  Translates(tr[l], l, Len(Items(l)), sts, tr, tg2)
    <3>1. Translates(tr[l], l, Len(Items(l)), sts, tr, tg)
      BY <2>1 DEF Built, Contents
    <3>2. tr[l] # id /\ tr[l] \in 1..Len(tg)
      <4>1. tr[l] # st[k].id /\ tr[l] # 0 /\ tr[l] \in 0..Len(tg)
        BY <1>1, <2>1 DEF Built, OwnIds, Typed
      <4> QED  BY <1>2, <1>5, <4>1
    <3> QED  BY <1>10, <3>1, <3>2 DEF Translates
  <2>2. ASSUME NEW j \in 1..k, j # k
        PROVE  Translates(st2[j].id, st2[j].node, st2[j].at - 1, sts, tr, tg2)
    <3>1. Translates(st[j].id, st[j].node, st[j].at - 1, sts, tr, tg)
      BY <1>1 DEF Built, Contents
    <3>2. st[j].id # id /\ st[j].id \in 1..Len(tg)
      <4>1. st[j].id # st[k].id /\ st[j].id \in 1..Len(tg)
        BY <1>1, <2>2 DEF Built, OwnIds, Typed
      <4> QED  BY <1>2, <4>1
    <3>3. tg2[st[j].id] = tg[st[j].id]
      BY <1>10, <3>2
    <3>4. Translates(st[j].id, st[j].node, st[j].at - 1, sts, tr, tg2)
      BY <3>1, <3>3 DEF Translates
    <3> QED  BY <1>4, <2>2, <3>4
  <2>3. Translates(id, m, at, sts, tr, tg2)
    <3>1. \A i \in 1..at : sts[Items(m)[i].value] = 2
      BY <1>3, <1>6
    <3> QED  BY <1>3, <1>10, <3>1 DEF Translates, filled, image
  <2>4. st2[k].id = id /\ st2[k].node = m /\ st2[k].at - 1 = at
    BY <1>4
  <2> QED  BY <1>4, <2>1, <2>2, <2>3, <2>4 DEF Contents
<1>16. Unmet(st2, sts) /\ AwaitsUnmet(st2, sts)
  <2> SUFFICES ASSUME source.format = "json" PROVE Unmet(st2, sts) /\ AwaitsUnmet(st2, sts)
    BY DEF Unmet, AwaitsUnmet
  <2>1. \A i \in DOMAIN Items(m) : i > at => sts[Items(m)[i].value] = 0
    <3>1. \A i \in DOMAIN Items(st[k].node) : i > st[k].at => sts[Items(st[k].node)[i].value] = 0
      BY <1>1 DEF Built, Unmet
    <3> QED  BY <1>2, <3>1
  <2>2. ASSUME NEW j \in DOMAIN st2, NEW i \in DOMAIN Items(st2[j].node), i > st2[j].at
        PROVE  sts[Items(st2[j].node)[i].value] = 0
    <3>1. CASE j = k
      <4>1. i \in DOMAIN Items(m) /\ i > at + 1
        BY <1>4, <2>2, <3>1
      <4>2. i \in Nat
        <5>1. DOMAIN Items(m) = 1..Len(Items(m))
          BY SourceShape
        <5> QED  BY <4>1, <5>1
      <4>3. i > at
        BY <4>1, <4>2
      <4> QED  BY <1>4, <2>1, <3>1, <4>1, <4>3
    <3>2. CASE j # k
      BY <1>1, <1>4, <2>2, <3>2 DEF Built, Unmet
    <3> QED  BY <3>1, <3>2
  <2>3. AwaitsUnmet(st2, sts)
    BY <1>4, <2>1 DEF AwaitsUnmet
  <2> QED  BY <2>2, <2>3 DEF Built, Unmet
<1>17. Built(st2, sts, tr, tg2) /\ AwaitsUnmet(st2, sts) /\ Len(st2) = k /\ Len(tg2) = Len(tg)
  BY <1>4, <1>10, <1>11, <1>13, <1>14, <1>15, <1>16 DEF Built
<1>18. st2 # << >>
  BY <1>1, <1>4
<1>19. Advanced(st) = st2 /\ Added(tg, st, tr[n]) = tg2
  BY <1>b DEF st2, tg2, item, Advanced, Added, Items
<1> QED  BY <1>17, <1>18, <1>19, <1>b

\* A scalar is a node under way and finished in one.
LEMMA ScalarKeeps ==
  ASSUME source \in Source, NEW st, NEW sts, NEW tr, NEW tg, Built(st, sts, tr, tg),
         NEW n \in Node, source.node[n].kind \in ScalarKind, sts[n] = 0, Awaited(st, n)
  PROVE  /\ Built(st, Noted(sts, n, 2), Noted(tr, n, Len(tg) + 1), Append(tg, Unfilled(n)))
         /\ Noted(sts, n, 2)[n] = 2 /\ Noted(tr, n, Len(tg) + 1)[n] = Len(tg) + 1
<1>1. PICK st1, sts1, new :
        st1 = Append(st, FirstFrame(n, tg)) /\ sts1 = Noted(sts, n, 1) /\ new = Append(tg, Unfilled(n))
  OBVIOUS
<1>2. source.node[n].kind \in Kind
  BY DEF Kind
<1>3. Built(st1, sts1, tr, new)
  BY <1>1, <1>2, PushKeeps
<1>4. st \in Seq(Frame) /\ Len(st) \in Nat /\ tg \in Seq(DocumentNode) /\ Len(tg) \in Nat
  BY DEF Built, Typed
<1>5. FirstFrame(n, tg) \in Frame
  BY <1>4 DEF FirstFrame, Frame
<1>6. Len(st1) = Len(st) + 1 /\ st1 # << >> /\ Len(st1) - 1 = Len(st)
  BY <1>1, <1>4, <1>5
<1>7. Running(st1) = FirstFrame(n, tg)
  <2> HIDE DEF Frame
  <2> QED  BY <1>1, <1>4, <1>5, <1>6 DEF Running
<1>8. Items(n) = << >>
  BY SourceShape
<1>9. Running(st1).node = n /\ Running(st1).at > Len(Items(n)) /\ Running(st1).id = Len(tg) + 1
  BY <1>7, <1>8 DEF FirstFrame
<1>10. Callers(st1) = st
  <2> HIDE DEF Frame
  <2> QED  BY <1>1, <1>4, <1>5, <1>6 DEF Callers
<1>11. /\ Built(Callers(st1), Noted(sts1, n, 2), Noted(tr, n, Len(tg) + 1), new)
       /\ Noted(sts1, n, 2)[n] = 2 /\ Noted(tr, n, Len(tg) + 1)[n] = Len(tg) + 1
  BY <1>3, <1>6, <1>9, PopKeeps
<1>12. Noted(sts1, n, 2) = Noted(sts, n, 2)
  BY <1>1 DEF Noted, Built, Typed
<1> QED  BY <1>1, <1>9, <1>10, <1>11, <1>12

\* A node of the walk that refers to itself, through whatever others, is on
\* walks of every length.
LEMMA CycleMet ==
  ASSUME source \in Source, NEW st, NEW sts, NEW tr, NEW tg, Built(st, sts, tr, tg),
         NEW n \in Node, Awaited(st, n), sts[n] = 1
  PROVE  Cyclic
<1>1. PICK i \in DOMAIN st : st[i].node = n
  BY DEF Built, Path
<1>2. /\ st \in Seq(Frame) /\ Len(st) \in Nat /\ DOMAIN st = 1..Len(st) /\ Size \in Nat
      /\ Len(st) <= Size /\ st # << >>
  <2>1. st \in Seq(Frame)
    BY DEF Built, Typed
  <2>2. Len(st) \in Nat /\ DOMAIN st = 1..Len(st) /\ st # << >>
    BY <1>1, <2>1
  <2> QED  BY <2>1, <2>2, SourceShape, ReachedByWalk
<1>3. /\ \A d \in Nat : AtDepth[d + 1] = UNION {References(m) : m \in AtDepth[d]}
  BY SourceShape, Walks
<1>4. i \in Nat /\ i - 1 \in Nat /\ Size - (i - 1) \in Nat /\ i \in i..Len(st)
  BY ONLY <1>2, i \in DOMAIN st
<1>a. \A j \in 1..(Len(st) - 1) : Awaits(st[j], st[j + 1].node)
  BY DEF Built, Path
<1> DEFINE C == {st[j].node : j \in i..Len(st)}
<1>5. ASSUME NEW c \in C PROVE \E l \in C : l \in References(c)
  <2>1. PICK j \in i..Len(st) : c = st[j].node
    OBVIOUS
  <2>2. CASE j = Len(st)
    <3>1. n \in References(c)
      BY <1>2, <2>1, <2>2 DEF Awaited, Awaits, References, Items
    <3> QED  BY <1>1, <1>4, <3>1
  <2>3. CASE j # Len(st)
    <3>1. j \in 1..(Len(st) - 1) /\ j + 1 \in i..Len(st)
      <4>1. PICK len \in Nat : len = Len(st) /\ i \in 1..len
        BY <1>2
      <4>2. j \in i..len /\ j # len
        BY ONLY <2>1, <2>3, <4>1
      <4>3. i \in 1..len
        BY ONLY <4>1
      <4>4. j \in 1..(len - 1) /\ j + 1 \in i..len
        BY ONLY <1>4, <4>2, <4>3
      <4> QED  BY ONLY <4>1, <4>4
    <3>2. Awaits(st[j], st[j + 1].node)
      BY ONLY <1>a, <3>1
    <3>3. st[j + 1].node \in References(st[j].node)
      BY ONLY <3>2 DEF Awaits, References, Items
    <3>4. st[j + 1].node \in C
      BY ONLY <3>1
    <3> QED  BY <2>1, <3>3, <3>4
  <2> QED  BY <2>2, <2>3
<1> DEFINE S == {d \in Nat : AtDepth[(i - 1) + d] \cap C # {}}
<1>6. 0 \in S
  <2>1. st[i].node \in AtDepth[i - 1] /\ (i - 1) + 0 = i - 1
    BY <1>4 DEF Built, Path
  <2> QED  BY <1>4, <2>1
<1>7. ASSUME NEW d \in Nat, d \in S PROVE d + 1 \in S
  <2>1. PICK c \in C : c \in AtDepth[(i - 1) + d]
    BY <1>7
  <2>2. PICK l \in C : l \in References(c)
    BY <1>5
  <2>3. PICK e \in Nat : e = (i - 1) + d /\ e + 1 = (i - 1) + (d + 1)
    BY <1>4
  <2>4. l \in AtDepth[e + 1]
    BY <1>3, <2>1, <2>2, <2>3
  <2> HIDE DEF C
  <2> QED  BY <2>3, <2>4
<1>8. Nat \subseteq S
  <2> HIDE DEF S
  <2> QED  BY <1>6, <1>7, Induction
<1>9. AtDepth[(i - 1) + (Size - (i - 1))] # {}
  BY <1>4, <1>8
<1>10. (i - 1) + (Size - (i - 1)) = Size
  BY <1>2, <1>4
<1> QED  BY <1>9, <1>10 DEF Cyclic

-----------------------------------------------------------------------------
\* Nothing of what was built is about anything but the source, which no step
\* changes.
LEMMA SourceKept ==
  ASSUME source' = source
  PROVE  AtDepth' = AtDepth /\ Reachable' = Reachable /\ Size' = Size
<1>1. AtDepth' = AtDepth
  BY DEF AtDepth, References
<1> QED  BY <1>1 DEF Reachable, Size

LEMMA ItemsKept ==
  ASSUME source' = source, NEW n
  PROVE  Items(n)' = Items(n)
BY DEF Items

LEMMA TranslatesKept ==
  ASSUME source' = source, NEW id, NEW n, NEW upto, NEW sts, NEW tr, NEW tg,
         Translates(id, n, upto, sts, tr, tg)
  PROVE  Translates(id, n, upto, sts, tr, tg)'
<1>1. PICK items : items = Items(n) /\ items = Items(n)'
  BY ItemsKept
<1>2. /\ source.node[n].kind = source'.node[n].kind
      /\ KeysDiffer(n, upto) <=> KeysDiffer(n, upto)'
  BY DEF KeysDiffer, Items
<1> QED  BY <1>1, <1>2 DEF Translates

LEMMA BuiltKept ==
  ASSUME source' = source, NEW st, NEW sts, NEW tr, NEW tg, Built(st, sts, tr, tg)
  PROVE  Built(st, sts, tr, tg)'
<1>1. Typed(st, sts, tr, tg)'
  BY DEF Built, Typed, Frame, Node, Items
<1>2. Path(st, sts)'
  BY SourceKept DEF Built, Path, Awaits, Node, Items, KeysDiffer
<1>3. OwnIds(st, sts, tr, tg)'
  BY SourceKept DEF Built, OwnIds, Met, Node
<1>4. Contents(st, sts, tr, tg)'
  BY TranslatesKept DEF Built, Contents, Node, Items
<1>5. Ranked(sts)'
  BY DEF Built, Ranked, Finished, References, Node
<1>6. Unmet(st, sts)'
  BY DEF Built, Unmet, Node, Items
<1> QED  BY <1>1, <1>2, <1>3, <1>4, <1>5, <1>6 DEF Built

\* Whatever the parser refuses a node for is true of the source.
LEMMA BuildCauses ==
  ASSUME source \in Source, NEW st, NEW sts, NEW tr, NEW tg, Built(st, sts, tr, tg),
         NEW n \in Node, Awaited(st, n)
  PROVE  /\ Len(st) > MaxDepth /\ Len(st) <= MaxDepth + 1 => AtDepth[MaxDepth + 1] # {}
         /\ sts[n] = 1 => Cyclic
         /\ sts[n] = 0 /\ Len(tg) >= MaxNodes => Cardinality(Reachable) > MaxNodes
         /\ n \in Reachable
<1>1. n \in AtDepth[Len(st)] /\ n \in Reachable
  BY ReachedByWalk
<1>2. Len(st) \in Nat /\ Len(tg) \in Nat
  BY DEF Built, Typed
<1>3. ASSUME Len(st) > MaxDepth, Len(st) <= MaxDepth + 1 PROVE AtDepth[MaxDepth + 1] # {}
  <2>1. Len(st) = MaxDepth + 1
    BY ONLY <1>2, <1>3, LimitAssumption
  <2> QED  BY <1>1, <2>1
<1>4. ASSUME sts[n] = 0, Len(tg) >= MaxNodes PROVE Cardinality(Reachable) > MaxNodes
  <2>1. Reachable \subseteq Node /\ IsFiniteSet(Node)
    BY SourceShape, Walks DEF Reachable
  <2>2. IsFiniteSet(Reachable) /\ IsFiniteSet(Met(sts))
    BY <2>1, FS_Subset DEF Met
  <2>3. n \notin Met(sts) /\ Met(sts) \cup {n} \subseteq Reachable
    BY <1>1, <1>4 DEF Met, Built, OwnIds
  <2>4. Cardinality(Met(sts) \cup {n}) = Cardinality(Met(sts)) + 1
    BY <2>2, <2>3, FS_AddElement
  <2>5. /\ Cardinality(Met(sts) \cup {n}) <= Cardinality(Reachable)
        /\ Cardinality(Reachable) \in Nat
    BY <2>2, <2>3, FS_Subset, FS_CardinalityType
  <2>6. Cardinality(Met(sts)) = Len(tg)
    BY DEF Built, OwnIds
  <2> QED  BY ONLY <1>2, <1>4, <2>4, <2>5, <2>6, LimitAssumption
<1>5. sts[n] = 1 => Cyclic
  BY CycleMet
<1> QED  BY <1>1, <1>3, <1>4, <1>5

\* A refusal leaves what was built.
LEMMA RefusedStep ==
  ASSUME ParserInv, NEW why, why # "none", Refuse(why), RefusedForCause'
  PROVE  ParserInv'
<1>1. /\ source' = source /\ stage' = "refused" /\ reason' = why
      /\ stack' = stack /\ states' = states /\ translated' = translated /\ target' = target
  BY DEF Refuse
<1>2. PICK st, sts, tr, tg : st = stack /\ sts = states /\ tr = translated /\ tg = target
  OBVIOUS
<1>3. Built(st, sts, tr, tg)'
  BY <1>1, <1>2, BuiltKept DEF ParserInv
<1>4. Built(stack, states, translated, target)'
  BY <1>1, <1>2, <1>3
<1>5. Stages'
  BY <1>1 DEF Stages
<1> QED  BY <1>1, <1>4, <1>5 DEF ParserInv

\* Any other step of the build keeps the invariant with what was built.
LEMMA BuiltStep ==
  ASSUME ParserInv, stage = "build", source' = source, reason' = reason,
         Built(stack', states', translated', target'),
         Len(stack') <= MaxDepth + 1, Len(target') <= MaxNodes,
         \/ stage' = "build" /\ stack' # << >> /\ AwaitsUnmet(stack', states')
         \/ stage' = "trailing" /\ stack' = << >> /\ states'[1] = 2
  PROVE  ParserInv'
<1>1. PICK st, sts, tr, tg : st = stack' /\ sts = states' /\ tr = translated' /\ tg = target'
  OBVIOUS
<1>2. Built(st, sts, tr, tg)'
  BY <1>1, BuiltKept
<1>3. Built(stack, states, translated, target)'
  BY <1>1, <1>2
<1>4. reason = "none" /\ source.loads /\ Node # {}
  BY DEF ParserInv, Stages
<1>5. RefusedForCause'
  BY <1>4 DEF RefusedForCause
<1>6. Node' = Node
  BY DEF Node
<1>7. source.format = "json" /\ stage' = "build" =>
        (Top'.at \in DOMAIN Items(Top.node)' => states'[(Items(Top.node)[Top.at].value)'] = 0)
  BY DEF AwaitsUnmet, Top, Depth, Items
<1>8. Stages'
  BY <1>4, <1>6, <1>7 DEF Stages
<1> QED  BY <1>3, <1>5, <1>8 DEF ParserInv

LEMMA ReturnedStep ==
  ASSUME ParserInv, stage = "build", NEW st, NEW nodes, NEW n \in Node, NEW id,
         Built(st, states', translated', nodes), Awaited(st, n),
         states'[n] = 2, translated'[n] = id,
         Len(st) <= MaxDepth + 1, Len(nodes) <= MaxNodes, Returned(nodes, st, id)
  PROVE  ParserInv'
<1>1. PICK sts, tr : sts = states' /\ tr = translated'
  OBVIOUS
<1>2. /\ target' = Added(nodes, st, id) /\ stack' = Advanced(st)
      /\ stage' = (IF st = << >> THEN "trailing" ELSE "build")
      /\ source' = source /\ reason' = reason
  BY DEF Returned
<1>3. source \in Source /\ Built(st, sts, tr, nodes) /\ sts[n] = 2 /\ tr[n] = id
  BY <1>1 DEF ParserInv
<1>4. /\ Built(Advanced(st), sts, tr, Added(nodes, st, tr[n]))
      /\ AwaitsUnmet(Advanced(st), sts)
      /\ Len(Advanced(st)) = Len(st) /\ Len(Added(nodes, st, tr[n])) = Len(nodes)
      /\ st = << >> => n = 1 /\ Advanced(st) = << >>
      /\ st # << >> => Advanced(st) # << >>
  BY <1>3, ReturnKeeps
<1>5. Built(stack', states', translated', target')
  BY <1>1, <1>2, <1>3, <1>4
<1>6. /\ Len(stack') <= MaxDepth + 1 /\ Len(target') <= MaxNodes
  BY <1>2, <1>3, <1>4
<1>7. CASE st = << >>
  BY <1>1, <1>2, <1>3, <1>4, <1>5, <1>6, <1>7, BuiltStep
<1>8. CASE st # << >>
  BY <1>1, <1>2, <1>3, <1>4, <1>5, <1>6, <1>8, BuiltStep
<1> QED  BY <1>7, <1>8

\* A node of the source that was not met.
LEMMA AddStep ==
  ASSUME ParserInv, stage = "build", NEW n \in Node, Awaited(stack, n), states[n] = 0,
         source.node[n].kind \in Kind, Len(stack) <= MaxDepth, Len(target) < MaxNodes, AddNode(n)
  PROVE  ParserInv'
<1>1. /\ source \in Source /\ Built(stack, states, translated, target)
      /\ Len(stack) \in Nat /\ Len(target) \in Nat
      /\ stack \in Seq(Frame) /\ target \in Seq(DocumentNode)
  BY DEF ParserInv, Built, Typed
<1>2. Len(stack) + 1 <= MaxDepth + 1 /\ Len(stack) <= MaxDepth + 1 /\ Len(target) + 1 <= MaxNodes
  BY ONLY <1>1, Len(stack) <= MaxDepth, Len(target) < MaxNodes, LimitAssumption
<1>3. PICK nodes : nodes = Append(target, Unfilled(n))
  OBVIOUS
<1>4. nodes = Append(target, [kind |-> source.node[n].kind, items |-> << >>])
  BY <1>3 DEF Unfilled
<1>5. Len(nodes) = Len(target) + 1
  <2>1. Unfilled(n) \in DocumentNode
    BY DEF Unfilled, DocumentNode
  <2> HIDE DEF DocumentNode
  <2> QED  BY <1>1, <1>3, <2>1
<1>6. CASE source.node[n].kind \in ScalarKind
  <2>1. /\ Returned(nodes, stack, Len(target) + 1)
        /\ states' = Noted(states, n, 2)
        /\ translated' = Noted(translated, n, Len(target) + 1)
    BY <1>4, <1>6 DEF AddNode, Noted
  <2>2. PICK st, sts, tr, tg : st = stack /\ sts = states /\ tr = translated /\ tg = target
    OBVIOUS
  <2>3. /\ Built(st, Noted(sts, n, 2), Noted(tr, n, Len(tg) + 1), Append(tg, Unfilled(n)))
        /\ Noted(sts, n, 2)[n] = 2 /\ Noted(tr, n, Len(tg) + 1)[n] = Len(tg) + 1
    BY <1>1, <1>6, <2>2, ScalarKeeps
  <2>4. PICK id : id = Len(target) + 1
    OBVIOUS
  <2>5. Built(st, states', translated', nodes) /\ states'[n] = 2 /\ translated'[n] = id
    BY <1>3, <2>1, <2>2, <2>3, <2>4
  <2>6. Returned(nodes, st, id) /\ Len(st) <= MaxDepth + 1 /\ Len(nodes) <= MaxNodes
        /\ Awaited(st, n)
    BY <1>2, <1>5, <2>1, <2>2, <2>4
  <2> QED  BY <2>5, <2>6, ReturnedStep
<1>7. CASE source.node[n].kind \notin ScalarKind
  <2>1. FirstFrame(n, target) \in Frame
    BY <1>1 DEF FirstFrame, Frame
  <2>2. /\ target' = nodes /\ stack' = Append(stack, FirstFrame(n, target))
        /\ states' = Noted(states, n, 1) /\ translated' = translated
        /\ source' = source /\ stage' = stage /\ reason' = reason
    BY <1>4, <1>7 DEF AddNode, Noted, FirstFrame
  <2>3. PICK st, sts, tr, tg : st = stack /\ sts = states /\ tr = translated /\ tg = target
    OBVIOUS
  <2>4. /\ Built(Append(st, FirstFrame(n, tg)), Noted(sts, n, 1), tr, Append(tg, Unfilled(n)))
        /\ AwaitsUnmet(Append(st, FirstFrame(n, tg)), Noted(sts, n, 1))
    BY <1>1, <2>3, PushKeeps
  <2>5. Len(stack') = Len(stack) + 1 /\ stack' # << >>
    <3> HIDE DEF Frame
    <3> QED  BY <1>1, <2>1, <2>2
  <2>6. Built(stack', states', translated', target') /\ AwaitsUnmet(stack', states')
    BY <1>3, <2>2, <2>3, <2>4
  <2>7. Len(stack') <= MaxDepth + 1 /\ Len(target') <= MaxNodes
    BY <1>2, <1>5, <2>2, <2>5
  <2> QED  BY <2>2, <2>5, <2>6, <2>7, BuiltStep
<1> QED  BY <1>6, <1>7

\* YamlBuilder::build and JsonBuilder::build of the node that is next.
LEMMA BuildStep ==
  ASSUME ParserInv, stage = "build", NEW n \in Node, Awaited(stack, n),
         source.format = "json" => states[n] = 0, Build(n)
  PROVE  ParserInv'
<1>1. /\ source \in Source /\ Built(stack, states, translated, target)
      /\ Len(stack) \in Nat /\ Len(target) \in Nat /\ Len(stack) <= MaxDepth + 1
      /\ Len(target) <= MaxNodes
      /\ source.node[n].kind \in Kind \cup {"wide"}
      /\ source.format = "yaml" => source.node[n].kind # "wide"
  <2>1. /\ source \in Source /\ Built(stack, states, translated, target)
        /\ Len(stack) \in Nat /\ Len(target) \in Nat /\ Len(stack) <= MaxDepth + 1
        /\ Len(target) <= MaxNodes
    BY DEF ParserInv, Built, Typed
  <2>2. source.node[n].kind \in Kind \cup {"wide"}
    BY <2>1, SourceShape
  <2>3. source.format = "yaml" => source.node[n].kind # "wide"
    BY <2>1, SourceAssumption DEF Node
  <2> QED  BY <2>1, <2>2, <2>3
<1>2. /\ Len(stack) > MaxDepth => AtDepth[MaxDepth + 1] # {}
      /\ states[n] = 1 => Cyclic
      /\ states[n] = 0 /\ Len(target) >= MaxNodes => Cardinality(Reachable) > MaxNodes
      /\ n \in Reachable
  <2>1. PICK st, sts, tr, tg : st = stack /\ sts = states /\ tr = translated /\ tg = target
    OBVIOUS
  <2>2. /\ Len(st) > MaxDepth /\ Len(st) <= MaxDepth + 1 => AtDepth[MaxDepth + 1] # {}
        /\ sts[n] = 1 => Cyclic
        /\ sts[n] = 0 /\ Len(tg) >= MaxNodes => Cardinality(Reachable) > MaxNodes
        /\ n \in Reachable
    BY <1>1, <2>1, BuildCauses
  <2> QED  BY <1>1, <2>1, <2>2
<1>3. ASSUME Depth > MaxDepth, Refuse("nesting") PROVE ParserInv'
  <2>1. RefusedForCause'
    BY <1>2, <1>3, SourceKept DEF RefusedForCause, Refuse, Depth
  <2> QED  BY <1>3, <2>1, RefusedStep
<1>4. ASSUME states[n] = 1, Refuse("cycle") PROVE ParserInv'
  <2>1. Cyclic' = Cyclic
    BY <1>4, SourceKept DEF Cyclic, Refuse
  <2>2. RefusedForCause'
    BY <1>2, <1>4, <2>1 DEF RefusedForCause, Refuse
  <2> QED  BY <1>4, <2>2, RefusedStep
<1>5. ASSUME states[n] = 0, Len(target) >= MaxNodes, Refuse("nodes") PROVE ParserInv'
  <2>1. RefusedForCause'
    BY <1>2, <1>5, SourceKept DEF RefusedForCause, Refuse
  <2> QED  BY <1>5, <2>1, RefusedStep
<1>6. ASSUME source.node[n].kind = "wide", Refuse("number") PROVE ParserInv'
  <2>1. RefusedForCause'
    BY <1>2, <1>6, SourceKept DEF RefusedForCause, Refuse
  <2> QED  BY <1>6, <2>1, RefusedStep
<1>7. ASSUME states[n] = 2, Returned(target, stack, translated[n]),
             states' = states, translated' = translated
      PROVE  ParserInv'
  <2>1. PICK st, nodes, id : st = stack /\ nodes = target /\ id = translated[n]
    OBVIOUS
  <2>2. /\ Built(st, states', translated', nodes) /\ Awaited(st, n) /\ states'[n] = 2
        /\ translated'[n] = id /\ Len(st) <= MaxDepth + 1 /\ Len(nodes) <= MaxNodes
        /\ Returned(nodes, st, id)
    BY <1>1, <1>7, <2>1
  <2> QED  BY <2>2, ReturnedStep
<1>8. ASSUME states[n] = 0, Depth <= MaxDepth, Len(target) < MaxNodes,
             source.node[n].kind # "wide", AddNode(n)
      PROVE  ParserInv'
  <2>1. source.node[n].kind \in Kind /\ Len(stack) <= MaxDepth
    BY <1>1, <1>8 DEF Depth
  <2> QED  BY <1>8, <2>1, AddStep
<1>9. CASE source.format = "yaml" /\ BuildYaml(n)
  BY <1>1, <1>3, <1>4, <1>5, <1>7, <1>8, <1>9 DEF BuildYaml
<1>10. CASE source.format = "json" /\ BuildJson(n)
  BY <1>1, <1>3, <1>5, <1>6, <1>8, <1>10 DEF BuildJson
<1> QED  BY <1>9, <1>10 DEF Build

-----------------------------------------------------------------------------
\* One lemma for each action.
LEMMA InitEstablishes ==
  ASSUME Init
  PROVE  ParserInv
<1>1. /\ source \in Source /\ stage = "start" /\ stack = << >> /\ target = << >> /\ reason = "none"
      /\ states = [n \in Node |-> 0] /\ translated = [n \in Node |-> 0]
  BY DEF Init, Node
<1>2. Met(states) = {} /\ Finished(states) = {}
  BY <1>1 DEF Met, Finished
<1>3. Typed(stack, states, translated, target)
  BY <1>1 DEF Typed
<1>4. Path(stack, states) /\ Unmet(stack, states)
  BY <1>1, SourceShape DEF Path, Unmet
<1>5. OwnIds(stack, states, translated, target)
  <2>1. Cardinality(Met(states)) = Len(target)
    BY <1>1, <1>2, FS_EmptySet
  <2>2. \A n \in Node : states[n] # 2
    BY <1>1
  <2> QED  BY <1>1, <1>2, <2>1, <2>2 DEF OwnIds
<1>6. Contents(stack, states, translated, target)
  BY <1>1 DEF Contents
<1>7. Ranked(states)
  <2>1. [n \in Node |-> 0] \in [Node -> Nat]
    OBVIOUS
  <2> QED  BY <1>2, <2>1 DEF Ranked
<1>8. Stages /\ RefusedForCause
  BY <1>1, <1>2 DEF Stages, RefusedForCause
<1> QED  BY <1>1, <1>3, <1>4, <1>5, <1>6, <1>7, <1>8, LimitAssumption DEF ParserInv, Built

\* The steps that only look at the source.
LEMMA EnterStep ==
  ASSUME ParserInv, NEW next, Enter(next), reason = "none",
         \/ next = "load" /\ stage = "start"
         \/ next = "build" /\ stage = "load" /\ source.loads /\ Node # {}
         \/ next = "accepted" /\ stage = "trailing" /\ source.trailing = "none"
  PROVE  ParserInv'
<1>1. /\ source' = source /\ stage' = next /\ reason' = reason
      /\ stack' = stack /\ states' = states /\ translated' = translated /\ target' = target
  BY DEF Enter
<1>2. PICK st, sts, tr, tg : st = stack /\ sts = states /\ tr = translated /\ tg = target
  OBVIOUS
<1>3. Built(st, sts, tr, tg)'
  BY <1>1, <1>2, BuiltKept DEF ParserInv
<1>4. Built(stack, states, translated, target)'
  BY <1>1, <1>2, <1>3
<1>5. RefusedForCause'
  BY <1>1 DEF RefusedForCause
<1>6. Node' = Node /\ Met(states)' = Met(states)
  BY <1>1 DEF Node, Met
<1>7. Stages'
  BY <1>1, <1>6 DEF ParserInv, Stages
<1> QED  BY <1>1, <1>4, <1>5, <1>7 DEF ParserInv

LEMMA CheckSizeStep ==
  ASSUME ParserInv, CheckSize
  PROVE  ParserInv'
<1>1. CASE source.size > MaxBytes /\ Refuse("bytes")
  <2>1. RefusedForCause'
    BY <1>1 DEF RefusedForCause, Refuse
  <2> QED  BY <1>1, <2>1, RefusedStep
<1>2. CASE source.size = 0 /\ Refuse("empty")
  <2>1. RefusedForCause'
    BY <1>2 DEF RefusedForCause, Refuse
  <2> QED  BY <1>2, <2>1, RefusedStep
<1>3. CASE Enter("load")
  <2>1. stage = "start" /\ reason = "none"
    BY DEF CheckSize, ParserInv, Stages
  <2> QED  BY <1>3, <2>1, EnterStep
<1> QED  BY <1>1, <1>2, <1>3 DEF CheckSize

LEMMA LoadStep ==
  ASSUME ParserInv, Load
  PROVE  ParserInv'
<1>1. CASE ~source.loads /\ Refuse("syntax")
  <2>1. RefusedForCause'
    BY <1>1 DEF RefusedForCause, Refuse
  <2> QED  BY <1>1, <2>1, RefusedStep
<1>2. CASE DOMAIN source.node = {} /\ Refuse("empty")
  <2>1. RefusedForCause'
    BY <1>2 DEF RefusedForCause, Refuse
  <2> QED  BY <1>2, <2>1, RefusedStep
<1>3. CASE source.loads /\ DOMAIN source.node # {} /\ Enter("build")
  <2>1. stage = "load" /\ reason = "none" /\ source.loads /\ Node # {}
    BY <1>3 DEF Load, ParserInv, Stages, Node
  <2> QED  BY <1>3, <2>1, EnterStep
<1> QED  BY <1>1, <1>2, <1>3 DEF Load

LEMMA CheckTrailingStep ==
  ASSUME ParserInv, CheckTrailing
  PROVE  ParserInv'
<1>1. CASE source.trailing = "broken" /\ Refuse("syntax")
  <2>1. RefusedForCause'
    BY <1>1 DEF RefusedForCause, Refuse
  <2> QED  BY <1>1, <2>1, RefusedStep
<1>2. CASE source.trailing = "document" /\ Refuse("documents")
  <2>1. RefusedForCause'
    BY <1>2 DEF RefusedForCause, Refuse
  <2> QED  BY <1>2, <2>1, RefusedStep
<1>3. CASE source.trailing = "none" /\ Enter("accepted")
  <2>1. stage = "trailing" /\ reason = "none"
    BY DEF CheckTrailing, ParserInv, Stages
  <2> QED  BY <1>3, <2>1, EnterStep
<1> QED  BY <1>1, <1>2, <1>3 DEF CheckTrailing

LEMMA OutOfMemoryStep ==
  ASSUME ParserInv, RunOutOfMemory
  PROVE  ParserInv'
<1>1. Refuse("memory")
  BY DEF RunOutOfMemory
<1>2. RefusedForCause'
  BY <1>1 DEF RefusedForCause, Refuse
<1> QED  BY <1>1, <1>2, RefusedStep

LEMMA BuildRootStep ==
  ASSUME ParserInv, BuildRoot
  PROVE  ParserInv'
<1>1. stage = "build" /\ stack = << >> /\ Build(1)
  BY DEF BuildRoot
<1>2. source \in Source /\ Node # {} /\ Met(states) = {}
  BY <1>1 DEF ParserInv, Stages
<1>3. 1 \in Node
  BY <1>2, SourceShape
<1>4. states[1] = 0
  BY <1>2, <1>3 DEF Met
<1>5. PICK n \in Node : n = 1
  BY <1>3
<1>6. Awaited(stack, n) /\ states[n] = 0 /\ Build(n)
  BY <1>1, <1>4, <1>5 DEF Awaited
<1> QED  BY <1>1, <1>6, BuildStep

\* The items of a mapping before the one at hand have keys of their own, and so
\* has that one unless it is refused.
LEMMA BuildItemStep ==
  ASSUME ParserInv, BuildItem
  PROVE  ParserInv'
<1>1. /\ stage = "build" /\ stack # << >> /\ source \in Source
      /\ Top.at <= Len(Items(Top.node))
  BY DEF BuildItem, ParserInv, Items
<1>2. PICK st, sts, tr, tg : st = stack /\ sts = states /\ tr = translated /\ tg = target
  OBVIOUS
<1>3. Built(st, sts, tr, tg)
  BY <1>2 DEF ParserInv
<1>4. PICK k \in Nat : k = Len(st) /\ k \in DOMAIN st /\ st[k] \in Frame
  <2>1. st \in Seq(Frame) /\ st # << >>
    BY <1>1, <1>2, <1>3 DEF Built, Typed
  <2> HIDE DEF Frame
  <2> QED  BY <2>1
<1>5. PICK m \in Node, at \in Nat : m = Top.node /\ at = Top.at /\ st[k].node = m /\ st[k].at = at
  BY <1>2, <1>4 DEF Top, Depth, Frame
<1>6. /\ DOMAIN Items(m) = 1..Len(Items(m)) /\ Len(Items(m)) \in Nat
      /\ \A i \in DOMAIN Items(m) : Items(m)[i] \in [key : Key \cup {NoKey}, value : Node]
  BY <1>1, SourceShape
<1>7. at \in DOMAIN Items(m) /\ at - 1 \in Nat /\ at \in 1..Len(Items(m))
  <2>1. at >= 1
    BY <1>3, <1>4, <1>5 DEF Built, Typed
  <2> QED  BY <1>1, <1>5, <1>6, <2>1
<1>8. PICK n \in Node : n = Items(m)[at].value
  BY <1>6, <1>7
<1>9. Item = Items(m)[at] /\ Item.value = n
  BY <1>5, <1>8 DEF Item, Items
<1>10. EarlierKeys = {Items(m)[i].key : i \in 1..(at - 1)}
  BY <1>5 DEF EarlierKeys, Items
<1>11. KeysDiffer(m, at - 1) /\ m \in Reachable
  <2>1. Translates(st[k].id, st[k].node, st[k].at - 1, sts, tr, tg)
    BY <1>3, <1>4 DEF Built, Contents
  <2>2. m \in Met(sts)
    BY <1>3, <1>4, <1>5 DEF Built, Path, Met
  <2> QED  BY <1>3, <1>5, <2>1, <2>2 DEF Translates, Built, OwnIds
<1>12. source.format = "json" => states[n] = 0
  BY <1>1, <1>5, <1>7, <1>8 DEF ParserInv, Stages
<1>13. ASSUME source.node[m].kind = "object" => Item.key \notin EarlierKeys, Build(n)
       PROVE  ParserInv'
  <2>1. KeysDiffer(m, at)
    <3>1. CASE source.node[m].kind # "object"
      BY <3>1 DEF KeysDiffer
    <3>2. CASE source.node[m].kind = "object"
      <4>1. \A i \in 1..at : i = at \/ i \in 1..(at - 1)
        BY <1>7
      <4>2. \A i \in 1..(at - 1) : Items(m)[i].key # Items(m)[at].key
        BY <1>9, <1>10, <1>13, <3>2
      <4>3. \A i, j \in 1..(at - 1) : Items(m)[i].key = Items(m)[j].key => i = j
        BY <1>11, <3>2 DEF KeysDiffer
      <4>4. \A i, j \in 1..at : Items(m)[i].key = Items(m)[j].key => i = j
        BY <4>1, <4>2, <4>3
      <4> QED  BY <4>4 DEF KeysDiffer
    <3> QED  BY <3>1, <3>2
  <2>2. Awaited(stack, n)
    BY <1>1, <1>2, <1>4, <1>5, <1>7, <1>8, <2>1 DEF Awaited, Awaits
  <2> QED  BY <1>1, <1>12, <1>13, <2>2, BuildStep
<1>14. CASE Build(Item.value) /\ source.node[m].kind # "object"
  BY <1>9, <1>13, <1>14
<1>15. CASE Build(Item.value) /\ Item.key \notin EarlierKeys
  BY <1>9, <1>13, <1>15
<1>16. ASSUME source.node[m].kind = "object", Item.key \in LongKey \cup {ComplexKey}, Refuse("key")
       PROVE  ParserInv'
  <2>1. RefusedForCause'
    BY <1>7, <1>9, <1>11, <1>16, SourceKept DEF RefusedForCause, Refuse, Items
  <2> QED  BY <1>16, <2>1, RefusedStep
<1>17. ASSUME source.node[m].kind = "object", Item.key \in EarlierKeys, Refuse("duplicate")
       PROVE  ParserInv'
  <2>1. PICK i \in 1..(at - 1) : Items(m)[i].key = Items(m)[at].key
    BY <1>9, <1>10, <1>17
  <2>2. i \in DOMAIN Items(m) /\ i # at
    BY <1>6, <1>7
  <2>3. RefusedForCause'
    BY <1>7, <1>11, <1>17, <2>1, <2>2, SourceKept DEF RefusedForCause, Refuse, Items
  <2> QED  BY <1>17, <2>3, RefusedStep
<1> QED  BY <1>5, <1>14, <1>15, <1>16, <1>17 DEF BuildItem

LEMMA FinishNodeStep ==
  ASSUME ParserInv, FinishNode
  PROVE  ParserInv'
<1>1. PICK st, sts, tr, nodes : st = stack /\ sts = states /\ tr = translated /\ nodes = target
  OBVIOUS
<1>2. /\ stage = "build" /\ source \in Source /\ Built(st, sts, tr, nodes) /\ st # << >>
      /\ Len(st) <= MaxDepth + 1 /\ Len(nodes) <= MaxNodes
  BY <1>1 DEF FinishNode, ParserInv
<1>3. PICK n, id : n = Running(st).node /\ id = Running(st).id
  OBVIOUS
<1>4. /\ Running(st).at > Len(Items(n)) /\ Returned(nodes, Callers(st), id)
      /\ states' = Noted(sts, n, 2) /\ translated' = Noted(tr, n, id)
  BY <1>1, <1>3 DEF FinishNode, Running, Callers, Noted, Top, Depth, Items
<1>5. /\ Built(Callers(st), Noted(sts, n, 2), Noted(tr, n, id), nodes)
      /\ Awaited(Callers(st), n) /\ n \in Node
      /\ Noted(sts, n, 2)[n] = 2 /\ Noted(tr, n, id)[n] = id
      /\ Len(Callers(st)) = Len(st) - 1 /\ Len(st) \in Nat
  BY <1>2, <1>3, <1>4, PopKeeps
<1>6. PICK callers : callers = Callers(st)
  OBVIOUS
<1>7. Len(callers) <= MaxDepth + 1
  BY <1>2, <1>5, <1>6, LimitAssumption
<1>8. /\ Built(callers, states', translated', nodes) /\ Awaited(callers, n)
      /\ states'[n] = 2 /\ translated'[n] = id /\ Returned(nodes, callers, id)
  BY <1>4, <1>5, <1>6
<1> QED  BY <1>2, <1>5, <1>7, <1>8, ReturnedStep

LEMMA IdleStep ==
  ASSUME ParserInv, UNCHANGED vars
  PROVE  ParserInv'
<1>1. /\ source' = source /\ stage' = stage /\ reason' = reason
      /\ stack' = stack /\ states' = states /\ translated' = translated /\ target' = target
  BY DEF vars
<1>2. PICK st, sts, tr, tg : st = stack /\ sts = states /\ tr = translated /\ tg = target
  OBVIOUS
<1>3. Built(st, sts, tr, tg)'
  BY <1>1, <1>2, BuiltKept DEF ParserInv
<1>4. Built(stack, states, translated, target)'
  BY <1>1, <1>2, <1>3
<1>5. Node' = Node /\ Met(states)' = Met(states) /\ Top' = Top
  BY <1>1 DEF Node, Met, Top, Depth
<1>6. Stages'
  BY <1>1, <1>5, ItemsKept DEF ParserInv, Stages
<1>7. Cyclic' = Cyclic
  BY <1>1, SourceKept DEF Cyclic
<1>8. RefusedForCause'
  BY <1>1, <1>7, SourceKept DEF ParserInv, RefusedForCause
<1> QED  BY <1>1, <1>4, <1>6, <1>8 DEF ParserInv

-----------------------------------------------------------------------------
\* Every step of the parser keeps what the recursion relies on.
THEOREM ParserInvNext == ParserInv /\ [Next]_vars => ParserInv'
<1>1. ASSUME ParserInv, CheckSize PROVE ParserInv'
  BY <1>1, CheckSizeStep
<1>2. ASSUME ParserInv, Load PROVE ParserInv'
  BY <1>2, LoadStep
<1>3. ASSUME ParserInv, BuildRoot PROVE ParserInv'
  BY <1>3, BuildRootStep
<1>4. ASSUME ParserInv, BuildItem PROVE ParserInv'
  BY <1>4, BuildItemStep
<1>5. ASSUME ParserInv, FinishNode PROVE ParserInv'
  BY <1>5, FinishNodeStep
<1>6. ASSUME ParserInv, CheckTrailing PROVE ParserInv'
  BY <1>6, CheckTrailingStep
<1>7. ASSUME ParserInv, RunOutOfMemory PROVE ParserInv'
  BY <1>7, OutOfMemoryStep
<1>8. ASSUME ParserInv, UNCHANGED vars PROVE ParserInv'
  BY <1>8, IdleStep
<1> QED  BY <1>1, <1>2, <1>3, <1>4, <1>5, <1>6, <1>7, <1>8 DEF Next, Proceed

THEOREM ParserInvAlways == Spec => []ParserInv
<1>1. Init => ParserInv
  BY InitEstablishes
<1> QED  BY <1>1, ParserInvNext, PTL DEF Spec

\* The types, and the limits at every moment: whatever graph the aliases of a
\* description make, the recursion is never deeper than the limit and the
\* document never has more nodes than allowed.
THEOREM TypeCorrect == Spec => []TypeOK
<1>1. ParserInv => TypeOK
  <2> SUFFICES ASSUME ParserInv PROVE TypeOK
    OBVIOUS
  <2>1. /\ Typed(stack, states, translated, target)
        /\ Len(stack) <= MaxDepth + 1 /\ Len(target) <= MaxNodes /\ Stages
    BY DEF ParserInv, Built
  <2>2. ASSUME NEW i \in DOMAIN stack
        PROVE  /\ stack[i].node \in DOMAIN source.node
               /\ stack[i].id \in DOMAIN target
               /\ stack[i].at \in 1..(Len(source.node[stack[i].node].items) + 1)
    <3>1. stack[i] \in Frame /\ DOMAIN target = 1..Len(target)
      BY <2>1 DEF Typed
    <3> QED  BY <2>1, <3>1 DEF Typed, Frame, Node, Items
  <2>3. ASSUME NEW id \in DOMAIN target PROVE target[id].kind \in Kind
    <3>1. target[id] \in DocumentNode
      BY <2>1 DEF Typed
    <3> QED  BY <3>1 DEF DocumentNode
  <2>4. states \in [DOMAIN source.node -> 0..2] /\ translated \in [DOMAIN source.node -> 0..Len(target)]
    BY <2>1 DEF Typed, Node
  <2> QED  BY <2>1, <2>2, <2>3, <2>4 DEF TypeOK, Stages
<1> QED  BY <1>1, ParserInvAlways, PTL

\* A description is refused only for what is wrong with it: a node that reaches
\* itself, a walk that is too long, a key that two items have, and so on.
THEOREM RefusalsJustified == Spec => []RefusedForCause
<1>1. ParserInv => RefusedForCause
  BY DEF ParserInv
<1> QED  BY <1>1, ParserInvAlways, PTL

\* When the root is finished, so is all that can be reached, and a node is at the
\* end of no walk longer than its rank allows.
LEMMA RootFinished ==
  ASSUME source \in Source, Node # {}, NEW sts, NEW tr, NEW tg, Built(<< >>, sts, tr, tg),
         sts[1] = 2
  PROVE  /\ Finished(sts) = Reachable /\ Met(sts) = Reachable
         /\ ~Cyclic
<1>1. /\ AtDepth \in [Nat -> SUBSET Node] /\ AtDepth[0] = {1}
      /\ \A d \in Nat : AtDepth[d + 1] = UNION {References(n) : n \in AtDepth[d]}
      /\ Size \in Nat /\ 1 \in Node /\ IsFiniteSet(Node) /\ Cardinality(Node) = Size
  BY SourceShape, Walks DEF Size, Node
<1>2. ASSUME NEW n \in Finished(sts), NEW m \in References(n) PROVE m \in Finished(sts)
  <2>1. n \in Node /\ Translates(tr[n], n, Len(Items(n)), sts, tr, tg)
    BY DEF Built, Contents, Finished
  <2>2. DOMAIN Items(n) = 1..Len(Items(n)) /\ References(n) \subseteq Node
    BY <2>1, SourceShape
  <2>3. PICK i \in 1..Len(Items(n)) : m = Items(n)[i].value
    BY <2>2 DEF References, Items
  <2>4. sts[m] = 2
    BY <2>1, <2>3 DEF Translates
  <2> QED  BY <2>2, <2>4 DEF Finished
<1>3. 1 \in Finished(sts)
  BY <1>1 DEF Finished
<1> DEFINE Within == {d \in Nat : AtDepth[d] \subseteq Finished(sts)}
<1>4. 0 \in Within
  BY <1>1, <1>3
<1>5. ASSUME NEW d \in Nat, d \in Within PROVE d + 1 \in Within
  BY <1>1, <1>2, <1>5
<1>6. Nat \subseteq Within
  <2> HIDE DEF Within
  <2> QED  BY <1>4, <1>5, Induction
<1>7. Reachable \subseteq Finished(sts)
  <2>1. ASSUME NEW d \in 0..Size PROVE AtDepth[d] \subseteq Finished(sts)
    BY <1>1, <1>6
  <2> QED  BY <2>1 DEF Reachable
<1>8. Finished(sts) \subseteq Met(sts) /\ Met(sts) \subseteq Reachable
  BY DEF Finished, Met, Built, OwnIds
<1>9. PICK rank \in [Node -> Nat] :
        \A n \in Finished(sts) : /\ rank[n] < Cardinality(Finished(sts))
                                 /\ \A m \in References(n) : rank[m] < rank[n]
  BY DEF Built, Ranked
<1> DEFINE Below == {d \in Nat : \A n \in AtDepth[d] : rank[n] + d <= rank[1]}
<1>10. 0 \in Below
  BY <1>1
<1>11. ASSUME NEW d \in Nat, d \in Below PROVE d + 1 \in Below
  <2>1. ASSUME NEW m \in AtDepth[d + 1] PROVE rank[m] + (d + 1) <= rank[1]
    <3>1. PICK n \in AtDepth[d] : m \in References(n)
      BY <1>1
    <3>2. n \in Finished(sts) /\ n \in Node /\ m \in Node
      BY <1>1, <1>2, <1>6, <3>1 DEF Finished
    <3>3. rank[m] < rank[n] /\ rank[n] + d <= rank[1]
      BY <1>9, <1>11, <3>1, <3>2
    <3>4. rank[m] \in Nat /\ rank[n] \in Nat /\ rank[1] \in Nat
      BY <1>1, <3>2
    <3> QED  BY ONLY <3>3, <3>4, d \in Nat
  <2> QED  BY <2>1
<1>12. Nat \subseteq Below
  <2> HIDE DEF Below
  <2> QED  BY <1>10, <1>11, Induction
<1>13. ~Cyclic
  <2> SUFFICES ASSUME Cyclic PROVE FALSE
    OBVIOUS
  <2>1. PICK n \in AtDepth[Size] : n \in Node
    BY <1>1 DEF Cyclic
  <2>2. rank[n] + Size <= rank[1] /\ rank[n] \in Nat /\ rank[1] \in Nat
    BY <1>1, <1>12, <2>1
  <2>3. rank[1] < Cardinality(Finished(sts))
    BY <1>3, <1>9
  <2>4. Cardinality(Finished(sts)) <= Size /\ Cardinality(Finished(sts)) \in Nat
    BY <1>1, FS_Subset, FS_CardinalityType DEF Finished
  <2> QED  BY ONLY <1>1, <2>2, <2>3, <2>4
<1> QED  BY <1>7, <1>8, <1>13

\* What is accepted is the whole description and nothing else: a well-formed,
\* acyclic one, whose every node became one node of the document, with its kind
\* and its items in their order, however often it is referred to.
THEOREM AcceptedIsWhole == Spec => []AcceptedWhole
<1>1. ParserInv => AcceptedWhole
  <2> SUFFICES ASSUME ParserInv, stage = "accepted" PROVE AcceptedWhole
    BY DEF AcceptedWhole
  <2>1. /\ source \in Source /\ source.loads /\ source.trailing = "none" /\ Node # {}
        /\ stack = << >> /\ states[1] = 2 /\ Built(stack, states, translated, target)
    BY DEF ParserInv, Stages
  <2>2. /\ Finished(states) = Reachable /\ Met(states) = Reachable /\ ~Cyclic
    <3>1. PICK sts, tr, tg : sts = states /\ tr = translated /\ tg = target
      OBVIOUS
    <3> QED  BY <2>1, <3>1, RootFinished
  <2>3. Len(target) = Cardinality(Reachable)
    BY <2>1, <2>2 DEF Built, OwnIds
  <2>4. \A n \in Reachable : n \in Node /\ states[n] = 2
    BY <2>2 DEF Finished
  <2>5. \A m, n \in Reachable : translated[m] = translated[n] => m = n
    <3>1. \A m, n \in Node : states[m] = 2 /\ states[n] = 2 /\ translated[m] = translated[n] => m = n
      BY <2>1 DEF Built, OwnIds
    <3> QED  BY ONLY <2>4, <3>1
  <2>6. ASSUME NEW n \in Reachable
        PROVE  LET Image(item) == [key |-> item.key, value |-> translated[item.value]]
                   items == source.node[n].items
               IN  /\ translated[n] \in DOMAIN target
                   /\ target[translated[n]] = [kind  |-> source.node[n].kind,
                                               items |-> [i \in DOMAIN items |-> Image(items[i])]]
                   /\ source.node[n].kind = "object" =>
                        \A i, j \in DOMAIN items : items[i].key = items[j].key => i = j
    <3>1. n \in Node /\ states[n] = 2
      BY <2>4
    <3>2. DOMAIN source.node[n].items = 1..Len(source.node[n].items)
      BY <2>1, <3>1, SourceShape DEF Items
    <3>3. Translates(translated[n], n, Len(source.node[n].items), states, translated, target)
      BY <2>1, <3>1 DEF Built, Contents, Items
    <3>4. translated[n] \in DOMAIN target
      <4>1. target \in Seq(DocumentNode) /\ translated[n] \in 0..Len(target) /\ translated[n] # 0
        BY <2>1, <3>1 DEF Built, Typed, OwnIds
      <4> QED  BY <4>1
    <3> QED  BY <3>2, <3>3, <3>4 DEF Translates, KeysDiffer, Items
  <2> QED  BY <2>1, <2>2, <2>3, <2>5, <2>6 DEF AcceptedWhole
<1> QED  BY <1>1, ParserInvAlways, PTL
=============================================================================
