-------------------------- MODULE MCDocumentParser --------------------------
(***************************************************************************)
(* An instance of DocumentParser for TLC: every ordered graph of at most   *)
(* three nodes with at most two references each, many of four, and a tree  *)
(* of five; mappings with good and bad keys on the smaller ones.           *)
(***************************************************************************)
EXTENDS DocumentParser, SequencesExt

\* The references of a node, as the sequence of its values.
Values(n) == UNION {[1..k -> 1..n] : k \in 0..2}

\* One graph of each shape: its nodes are numbered in the order of the first
\* references to them, level by level.
Canonical(g) ==
  LET refs == FlattenSeq(g)
  IN  /\ \A j \in DOMAIN refs :
           refs[j] \in {1, 2} \cup {refs[i] + 1 : i \in 1..(j - 1)} \cup {refs[i] : i \in 1..(j - 1)}
      /\ \A m \in DOMAIN g \ {1} : \E n \in 1..(m - 1) : m \in Range(g[n])

Graph(n) == {g \in [1..n -> Values(n)] : Canonical(g)}

\* Of four nodes, those in which the root refers to others only and the last has
\* at most one reference, back to an ancestor or to a finished node.
GraphOfFour ==
  {g \in {<<r, a, b, l>> : r \in {<<2>>, <<2, 2>>, <<2, 3>>}, a \in Values(4), b \in Values(4),
                          l \in {<<>>, <<1>>, <<2>>}} : Canonical(g)}

\* The graph with sequences, and with mappings whose keys are those.
Sequences(g, leaf) ==
  [n \in DOMAIN g |->
     [kind  |-> IF g[n] = <<>> THEN leaf ELSE "array",
      items |-> [i \in DOMAIN g[n] |-> [key |-> NoKey, value |-> g[n][i]]]]]

Mappings(g, keys) ==
  [n \in DOMAIN g |->
     [kind  |-> "object",
      items |-> [i \in DOMAIN g[n] |-> [key |-> keys[i], value |-> g[n][i]]]]]

File(format, size, loads, node, trailing) ==
  [format |-> format, size |-> size, loads |-> loads, node |-> node, trailing |-> trailing]

MCSource ==
  LET Small == UNION {Graph(n) : n \in 1..3}
      Large == Small \cup GraphOfFour
      Keys  == {<<"a", "b">>, <<"a", "a">>, <<"long", "a">>, <<"a", "long">>}
      Five  == <<<<2, 3>>, <<4, 5>>, <<>>, <<>>, <<>>>>
      Leaf  == <<[kind |-> "null_value", items |-> <<>>]>>
  IN  {File("yaml", 1, TRUE, Sequences(g, "string"), "none") : g \in Large}
        \cup {File(format, 1, TRUE, Sequences(Five, "number"), "none") : format \in {"yaml", "json"}}
        \cup {File("yaml", 1, TRUE, Mappings(g, keys), "none") :
                g \in Small, keys \in Keys \cup {<<"a", "complex">>}}
        \cup {File("json", 1, TRUE, node, "none") :
                node \in {n \in {Sequences(g, leaf) : g \in Large, leaf \in {"boolean", "wide"}}
                              \cup {Mappings(g, keys) : g \in Small, keys \in Keys} : Tree(n)}}
        \cup {File("yaml", size, loads, node, trailing) :
                size \in 0..2, loads \in BOOLEAN, node \in {<<>>, Leaf},
                trailing \in {"none", "document", "broken"}}
=============================================================================
