----------------------------- MODULE MCLowering -----------------------------
(***************************************************************************)
(* An instance of Lowering for TLC: families of descriptions, each with     *)
(* every combination of one kind of construct - security, parameters,      *)
(* schemas and responses - over a description that is otherwise plain.     *)
(***************************************************************************)
EXTENDS Lowering

Ref(t) == [ref |-> t, object |-> FALSE, property |-> <<>>, required |-> {}]
Object(property, required) ==
  [ref |-> Absent, object |-> TRUE, property |-> property, required |-> required]
Inline == Object("name" :> "string" @@ "count" :> "integer", {"name"})
Flag   == Object("done" :> "boolean", {})

Plain == [parameters |-> <<>>, body |-> Absent, response |-> 200 :> Ref("Item"), security |-> Absent]

Describe(schema, scheme, security, path) ==
  [schema |-> schema, scheme |-> scheme, security |-> security, webhooks |-> FALSE, path |-> path]

Item(template, parameters, operation) ==
  [rooted |-> TRUE, template |-> template, parameters |-> parameters, operation |-> operation]

Items == "Item" :> Inline

\* Every requirement of the description and of two operations, with every list
\* of schemes: none, empty, of one and two header keys, with a scheme of another
\* type, with a key elsewhere.
Secured ==
  LET Alternatives == {Absent, <<>>, <<{}>>, <<{"k1"}>>, <<{"k2"}>>, <<{"k1", "k2"}>>,
                       <<{}, {"k1"}>>, <<{"k1"}, {}>>}
      Schemes == {Absent, <<>>, "k1" :> "header", "k1" :> "header" @@ "k2" :> "header",
                  "k1" :> "header" @@ "k2" :> "other", "k1" :> "elsewhere"}
  IN  {Describe(Items, scheme, s,
         <<Item({}, <<>>, "get" :> [Plain EXCEPT !.security = g]
                            @@ "post" :> [Plain EXCEPT !.security = p])>>) :
       scheme \in Schemes, s \in Alternatives, g \in Alternatives, p \in Alternatives}

\* Up to two declarations on the path item and two on the operation, of a path
\* and a query parameter of the same name and of refused kinds.
Parameterised ==
  LET P(in, type, required) ==
        [name |-> "id", in |-> in, type |-> type, required |-> required, ref |-> FALSE]
      Good == {P("path", "string", Absent), P("path", "integer", TRUE),
                    P("query", "string", Absent), P("query", "boolean", TRUE)}
      Bad == {P("path", "string", FALSE), P("header", "string", TRUE), P("query", "array", Absent),
              [P("query", "string", TRUE) EXCEPT !.ref = TRUE]}
      Lists == {<<>>} \cup {<<p>> : p \in Good \cup Bad} \cup {<<p, q>> : p, q \in Good}
  IN  {Describe(Items, Absent, Absent,
         <<Item(template, shared, "get" :> [Plain EXCEPT !.parameters = own])>>) :
       template \in {Absent, {}, {"id"}}, shared \in Lists, own \in Lists}

\* Two path items whose operations have bodies and responses of their own type,
\* of a component's and of none; components that are and are not of the subset.
Typed ==
  LET Schema == {Ref("Item"), Ref("Flag"), Ref("Missing"), Inline,
                 Object("nested" :> "array", {}), Object("name" :> "string", {"other"})}
      Body == {Absent} \cup {[required |-> r, schema |-> s] : r \in BOOLEAN, s \in {Ref("Flag"), Inline}}
      Responses == {200 :> s : s \in Schema} \cup {404 :> Inline, 0 :> Inline,
                     201 :> Inline @@ 200 :> Flag, 204 :> Ref("Flag") @@ 500 :> Inline}
      Op(b, r) == [Plain EXCEPT !.body = b, !.response = r]
      Components == {Items, Items @@ "Flag" :> Flag, "Item" :> Ref("Item"), <<>>,
                     "Item" :> [Inline EXCEPT !.ref = "Flag"] @@ "Flag" :> Flag}
      Operations(b, r) == {"post" :> Op(b, r), "post" :> Op(b, r) @@ "options" :> Plain,
                           "post" :> Op(b, r) @@ "put" :> Plain}
  IN  {[Describe(schema, Absent, Absent,
          <<Item({}, <<>>, "get" :> Plain), Item({}, <<>>, op)>>) EXCEPT !.webhooks = w] :
       schema \in Components, w \in BOOLEAN,
       op \in UNION {Operations(b, r) : b \in Body, r \in Responses}}

\* No paths, and path items one of whose keys does not begin with '/'.
Few ==
  LET At(rooted) == [Item({}, <<>>, "get" :> Plain) EXCEPT !.rooted = rooted]
  IN  {Describe(Items, Absent, Absent, <<>>)}
        \cup {Describe(Items, Absent, Absent, <<At(first), At(second)>>) :
                first \in BOOLEAN, second \in BOOLEAN}

MCDescription == Secured \cup Parameterised \cup Typed \cup Few

\* Two constructs outside of the subset in each description: a security
\* requirement of a scheme that is not listed, and an operation of one of the
\* methods that parse_paths does not name.
MCUnsupported ==
  {Describe(Items, Absent, security,
     <<Item({}, <<>>, "get" :> Plain @@ method :> Plain)>>) :
   security \in {<<{"k1"}>>, <<{"k1", "k2"}>>}, method \in {"options", "trace"}}
=============================================================================
