--------------------------- MODULE DocumentParser ---------------------------
(***************************************************************************)
(* parse_document (compiler/frontend/openapi/parser.cpp): a description in *)
(* YAML or JSON becomes a ParsedDocument, node by node, or is refused for  *)
(* the first reason met.  libyaml and simdjson are external: what they     *)
(* load is the constant set Source.  A YAML graph has a node for each      *)
(* anchor, and an alias is one more reference to it, from anywhere, itself *)
(* included; a JSON graph is a tree.                                       *)
(*                                                                         *)
(* The recursive build is a stack of the composite nodes being translated, *)
(* so that its depth, the length of the stack, is a part of the state.     *)
(***************************************************************************)
EXTENDS Naturals, Sequences, FiniteSets

CONSTANTS
  Source,      \* descriptions: [format, size, loads, node, trailing]
  MaxBytes, MaxNodes, MaxDepth,   \* ParseLimits
  Key,         \* keys of mappings
  LongKey,     \* those beyond the limit of bytes
  ComplexKey,  \* a key that is no scalar, in YAML
  NoKey        \* in place of the key of an element

ScalarKind == {"null_value", "boolean", "number", "string"}
Kind == ScalarKind \cup {"array", "object"}

\* No node is the value of two items, and the root is the value of none.
Tree(node) ==
  /\ \A n \in DOMAIN node : \A i \in DOMAIN node[n].items : node[n].items[i].value # 1
  /\ \A m, n \in DOMAIN node : \A i \in DOMAIN node[m].items, j \in DOMAIN node[n].items :
       node[m].items[i].value = node[n].items[j].value => m = n /\ i = j

\* Node 1 is the root. A "wide" number is one that simdjson reads and that no
\* 64-bit number or finite double is.
ASSUME SourceAssumption ==
  \A s \in Source :
    /\ s.format \in {"yaml", "json"}
    /\ s.size \in Nat
    /\ s.loads \in BOOLEAN
    /\ s.trailing \in {"none", "document", "broken"}
    /\ IsFiniteSet(DOMAIN s.node) /\ DOMAIN s.node = 1..Cardinality(DOMAIN s.node)
    /\ \A n \in DOMAIN s.node :
         /\ s.node[n].kind \in Kind \cup {"wide"}
         /\ s.node[n].items \in Seq([key : Key \cup {NoKey}, value : DOMAIN s.node])
         /\ s.node[n].kind \notin {"array", "object"} => s.node[n].items = <<>>
    /\ s.format = "json" =>
         /\ Tree(s.node) /\ s.trailing = "none"
         /\ \A n \in DOMAIN s.node : \A i \in DOMAIN s.node[n].items :
              s.node[n].items[i].key # ComplexKey
    /\ s.format = "yaml" => \A n \in DOMAIN s.node : s.node[n].kind # "wide"

ASSUME LimitAssumption ==
  /\ MaxBytes \in Nat /\ MaxNodes \in Nat /\ MaxDepth \in Nat
  /\ LongKey \subseteq Key /\ ComplexKey \in Key \ LongKey /\ NoKey \notin Key

VARIABLES
  source,     \* the description at hand
  stage,      \* "start", "load", "build", "trailing", "accepted", "refused"
  stack,      \* the build calls that run: the node, its id, the item at hand
  states,     \* of each node of the source: 0, 1 while it is built, 2 after
  translated, \* the id that each finished node got
  target,     \* the document: kind and items at each id
  reason      \* why it was refused

vars == <<source, stage, stack, states, translated, target, reason>>

Init ==
  /\ source \in Source
  /\ stage = "start"
  /\ stack = <<>>
  /\ states = [n \in DOMAIN source.node |-> 0]
  /\ translated = [n \in DOMAIN source.node |-> 0]
  /\ target = <<>>
  /\ reason = "none"

Refuse(why) ==
  /\ stage' = "refused"
  /\ reason' = why
  /\ UNCHANGED <<source, stack, states, translated, target>>

Enter(next) ==
  /\ stage' = next
  /\ UNCHANGED <<source, stack, states, translated, target, reason>>

-----------------------------------------------------------------------------
\* parse_document: the size is looked at before anything is parsed.
CheckSize ==
  /\ stage = "start"
  /\ \/ source.size > MaxBytes /\ Refuse("bytes")
     \/ source.size <= MaxBytes /\ source.size = 0 /\ Refuse("empty")
     \/ source.size \in 1..MaxBytes /\ Enter("load")

\* yaml_parser_load, simdjson's parse. A YAML text may hold no document.
Load ==
  /\ stage = "load"
  /\ \/ ~source.loads /\ Refuse("syntax")
     \/ source.loads /\ DOMAIN source.node = {} /\ Refuse("empty")
     \/ source.loads /\ DOMAIN source.node # {} /\ Enter("build")

-----------------------------------------------------------------------------
Depth == Len(stack)
Top   == stack[Depth]
Item  == source.node[Top.node].items[Top.at]

\* The caller of a build that returned an id adds it to its own node, and goes
\* on with its next item; the caller of the root's build takes it as the root.
Added(nodes, callers, id) ==
  IF callers = <<>> THEN nodes
  ELSE LET caller == callers[Len(callers)]
           key    == source.node[caller.node].items[caller.at].key
       IN  [nodes EXCEPT ![caller.id].items = Append(@, [key |-> key, value |-> id])]

Advanced(callers) ==
  IF callers = <<>> THEN callers ELSE [callers EXCEPT ![Len(callers)].at = @ + 1]

\* Mutant: the call that translated the root is taken for any other.
ReturnedToItem(nodes, callers, id) ==
  /\ target' = Added(nodes, callers, id)
  /\ stack' = Advanced(callers)
  /\ UNCHANGED <<source, stage, reason>>

Returned(nodes, callers, id) ==
  /\ target' = Added(nodes, callers, id)
  /\ stack' = Advanced(callers)
  /\ stage' = IF callers = <<>> THEN "trailing" ELSE "build"
  /\ UNCHANGED <<source, reason>>

\* Mutant: a composite node counts as built before its items are.
AddNodeFinished(n) ==
  LET kind  == source.node[n].kind
      id    == Len(target) + 1
      nodes == Append(target, [kind |-> kind, items |-> <<>>])
  IN  /\ IF kind \in ScalarKind THEN Returned(nodes, stack, id)
         ELSE /\ target' = nodes
              /\ stack' = Append(stack, [node |-> n, id |-> id, at |-> 1])
              /\ UNCHANGED <<source, stage, reason>>
      /\ states' = [states EXCEPT ![n] = 2]
      /\ translated' = [translated EXCEPT ![n] = id]

\* A new node of the document: a scalar is finished with it, a composite node
\* has its items before it.
AddNode(n) ==
  LET kind  == source.node[n].kind
      id    == Len(target) + 1
      nodes == Append(target, [kind |-> kind, items |-> <<>>])
  IN  IF kind \in ScalarKind
      THEN /\ Returned(nodes, stack, id)
           /\ states' = [states EXCEPT ![n] = 2]
           /\ translated' = [translated EXCEPT ![n] = id]
      ELSE /\ target' = nodes
           /\ stack' = Append(stack, [node |-> n, id |-> id, at |-> 1])
           /\ states' = [states EXCEPT ![n] = 1]
           /\ UNCHANGED <<source, stage, translated, reason>>

\* YamlBuilder::build. A node that is being built is its own ancestor; one that
\* was built is handed out again, whatever hangs below it.
BuildYaml(n) ==
  \/ Depth > MaxDepth /\ Refuse("nesting")
  \/ /\ Depth <= MaxDepth
     /\ \/ states[n] = 1 /\ Refuse("cycle")
        \/ /\ states[n] = 2
           /\ Returned(target, stack, translated[n])
           /\ UNCHANGED <<states, translated>>
        \/ states[n] = 0 /\ Len(target) >= MaxNodes /\ Refuse("nodes")
        \/ states[n] = 0 /\ Len(target) < MaxNodes /\ AddNode(n)

\* Mutant: the limit of nodes is looked at as if the new one were there.
BuildJsonOneMore(n) ==
  \/ Depth > MaxDepth /\ Refuse("nesting")
  \/ /\ Depth <= MaxDepth
     /\ \/ Len(target) > MaxNodes /\ Refuse("nodes")
        \/ Len(target) <= MaxNodes /\ source.node[n].kind = "wide" /\ Refuse("number")
        \/ Len(target) <= MaxNodes /\ source.node[n].kind # "wide" /\ AddNode(n)

\* JsonBuilder::build, which meets every value once.
BuildJson(n) ==
  \/ Depth > MaxDepth /\ Refuse("nesting")
  \/ /\ Depth <= MaxDepth
     /\ \/ Len(target) >= MaxNodes /\ Refuse("nodes")
        \/ Len(target) < MaxNodes /\ source.node[n].kind = "wide" /\ Refuse("number")
        \/ Len(target) < MaxNodes /\ source.node[n].kind # "wide" /\ AddNode(n)

Build(n) ==
  \/ source.format = "yaml" /\ BuildYaml(n)
  \/ source.format = "json" /\ BuildJson(n)

BuildRoot ==
  /\ stage = "build" /\ stack = <<>>
  /\ Build(1)

\* The keys of the mapping that the running call has accepted before.
EarlierKeys == {source.node[Top.node].items[i].key : i \in 1..(Top.at - 1)}

\* build_sequence and build_mapping, build_array and build_object: the next item
\* of the running call, its key first.
BuildItem ==
  /\ stage = "build" /\ stack # <<>>
  /\ Top.at <= Len(source.node[Top.node].items)
  /\ \/ source.node[Top.node].kind = "array" /\ Build(Item.value)
     \/ /\ source.node[Top.node].kind = "object"
        /\ \/ Item.key = ComplexKey /\ Refuse("key")
           \/ Item.key \in LongKey /\ Refuse("key")
           \/ Item.key \in EarlierKeys \ (LongKey \cup {ComplexKey}) /\ Refuse("duplicate")
           \/ Item.key \notin EarlierKeys \cup LongKey \cup {ComplexKey} /\ Build(Item.value)

\* Mutant: the node stays marked as being built.
FinishNodeUnmarked ==
  /\ stage = "build" /\ stack # <<>>
  /\ Top.at > Len(source.node[Top.node].items)
  /\ Returned(target, SubSeq(stack, 1, Depth - 1), Top.id)
  /\ translated' = [translated EXCEPT ![Top.node] = Top.id]
  /\ UNCHANGED states

\* The running call is through with its items.
FinishNode ==
  /\ stage = "build" /\ stack # <<>>
  /\ Top.at > Len(source.node[Top.node].items)
  /\ Returned(target, SubSeq(stack, 1, Depth - 1), Top.id)
  /\ states' = [states EXCEPT ![Top.node] = 2]
  /\ translated' = [translated EXCEPT ![Top.node] = Top.id]

\* parse_yaml looks for a second document; simdjson has read the whole text.
CheckTrailing ==
  /\ stage = "trailing"
  /\ \/ source.trailing = "broken" /\ Refuse("syntax")
     \/ source.trailing = "document" /\ Refuse("documents")
     \/ source.trailing = "none" /\ Enter("accepted")

\* std::bad_alloc, from anywhere inside the try.
RunOutOfMemory ==
  /\ stage \in {"load", "build", "trailing"}
  /\ Refuse("memory")

Proceed ==
  \/ CheckSize \/ Load \/ BuildRoot \/ BuildItem \/ FinishNode \/ CheckTrailing

Next == Proceed \/ RunOutOfMemory

\* The compiler is one thread that goes on until it has an answer.
Spec == Init /\ [][Next]_vars
FairSpec == Spec /\ WF_vars(Proceed)

-----------------------------------------------------------------------------
\* The references that a node of the source makes, and the nodes at the end of
\* the walks of a length from its root.
References(n) == {source.node[n].items[i].value : i \in DOMAIN source.node[n].items}

AtDepth[d \in Nat] ==
  IF d = 0 THEN {1} ELSE UNION {References(n) : n \in AtDepth[d - 1]}

Size      == Cardinality(DOMAIN source.node)
Reachable == UNION {AtDepth[d] : d \in 0..Size}

\* A walk as long as this meets a node twice.
Cyclic == AtDepth[Size] # {}

\* The types, and the limits at every moment: the document never has more nodes
\* than allowed, and the recursion is never deeper than the limit, whatever the
\* graph.
TypeOK ==
  /\ stage \in {"start", "load", "build", "trailing", "accepted", "refused"}
  /\ Len(stack) <= MaxDepth + 1
  /\ \A i \in DOMAIN stack :
       /\ stack[i].node \in DOMAIN source.node
       /\ stack[i].id \in DOMAIN target
       /\ stack[i].at \in 1..(Len(source.node[stack[i].node].items) + 1)
  /\ states \in [DOMAIN source.node -> 0..2]
  /\ translated \in [DOMAIN source.node -> 0..Len(target)]
  /\ Len(target) <= MaxNodes
  /\ \A id \in DOMAIN target : target[id].kind \in Kind
  /\ stage = "refused" <=> reason # "none"

\* A description is refused only for what is wrong with it: a walk that is too
\* long, a node that reaches itself, too many nodes, and so on. An alias by
\* itself, and a node shared by many, never is a reason.
RefusedForCause ==
  LET Objects  == {n \in Reachable : source.node[n].kind = "object"}
      KeyAt(n, i) == source.node[n].items[i].key
  IN  /\ reason = "bytes" => source.size > MaxBytes
      /\ reason = "empty" => source.size = 0 \/ DOMAIN source.node = {}
      /\ reason = "syntax" => ~source.loads \/ source.trailing = "broken"
      /\ reason = "documents" => source.trailing = "document"
      /\ reason = "nesting" => AtDepth[MaxDepth + 1] # {}
      /\ reason = "cycle" => Cyclic
      /\ reason = "nodes" => Cardinality(Reachable) > MaxNodes
      /\ reason = "number" => \E n \in Reachable : source.node[n].kind = "wide"
      /\ reason = "key" => \E n \in Objects : \E i \in DOMAIN source.node[n].items :
                             KeyAt(n, i) \in LongKey \cup {ComplexKey}
      /\ reason = "duplicate" => \E n \in Objects : \E i, j \in DOMAIN source.node[n].items :
                                   i # j /\ KeyAt(n, i) = KeyAt(n, j)

\* What is accepted is the whole description and nothing else: a well-formed,
\* acyclic one, whose every node became one node of the document, with its kind
\* and its items in their order, however often it is referred to.
AcceptedWhole ==
  stage = "accepted" =>
    /\ source.loads /\ source.trailing = "none"
    /\ ~Cyclic
    /\ Len(target) = Cardinality(Reachable)
    /\ \A n \in Reachable :
         LET Image(item) == [key |-> item.key, value |-> translated[item.value]]
             items == source.node[n].items
         IN  /\ translated[n] \in DOMAIN target
             /\ target[translated[n]] = [kind  |-> source.node[n].kind,
                                         items |-> [i \in DOMAIN items |-> Image(items[i])]]
             /\ source.node[n].kind = "object" =>
                  \A i, j \in DOMAIN items : items[i].key = items[j].key => i = j
    /\ \A m, n \in Reachable : translated[m] = translated[n] => m = n

\* Every description gets an answer, the ones whose aliases form a cycle too.
ParseEnds == <>(stage \in {"accepted", "refused"})
=============================================================================
