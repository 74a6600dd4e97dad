--------------------------- MODULE LoweringProofs ---------------------------
(***************************************************************************)
(* Proofs about two passes of the compiler.                                *)
(*                                                                         *)
(* The lowering pass, for every set of descriptions with any number of     *)
(* components, schemes, paths and parameters: what an endpoint is made of  *)
(* is what its operation describes.  The invariant follows parse_paths     *)
(* through the operations: those that come before the next one have one    *)
(* endpoint each, and the types, once added, stay in their places.         *)
(*                                                                         *)
(* The naming pass, for every set of names and of keywords: what it claims *)
(* is legal, and collides only in numbered form.  The invariant says which *)
(* claim of which identifier each name of a scope is.                      *)
(***************************************************************************)
EXTENDS Lowering, CodegenNames, FiniteSetTheorems, TLAPS

IsSeq(s) == Len(s) \in Nat /\ s = [i \in 1..Len(s) |-> s[i]]

\* The operation comes before the next one in the order of parse_paths.
Before(i, m, next) == \/ i < next.path
                      \/ i = next.path /\ m = "get" /\ next.method = "post"

First == [path |-> 1, method |-> "get"]

Stages ==
  /\ stage \in {"components", "security", "paths", "lowered", "refused"}
  /\ at.path \in 1..(Len(doc.path) + 1) /\ at.method \in Method
  /\ at = [path |-> at.path, method |-> at.method]
  /\ at.path = Len(doc.path) + 1 => at.method = "get"
  /\ stage \in {"components", "security"} => endpoints = <<>> /\ active = Absent /\ at = First
  /\ stage = "components" => types = PrimitiveTypes /\ schemaType = <<>>
  /\ stage = "lowered" => at.path > Len(doc.path)

\* The object that a schema stands for, and the type that it was lowered to.
Target(d, schema) == IF schema.ref = Absent THEN schema ELSE d.schema[schema.ref]

MadeOf(ts, id, object) ==
  /\ id \in 4..Len(ts)
  /\ Lowerable(object)
  /\ ts[id].field = Fields(object)

TypeOf(d, ts, id, schema) == MadeOf(ts, id, Target(d, schema))

\* The primitive types, then structs; a component's type is where its id says.
TypesSoFar(d, ts, ids) ==
  /\ IsSeq(ts) /\ Len(ts) >= 3
  /\ \A i \in 1..3 : ts[i] = PrimitiveTypes[i]
  /\ \A i \in 4..Len(ts) : \A f \in DOMAIN ts[i].field : ts[i].field[f].type \in 1..3
  /\ \A t \in DOMAIN ids : t \in DOMAIN d.schema /\ MadeOf(ts, ids[t], d.schema[t])

\* What parse_operation made of its operation.
OperationOf(d, e) == d.path[e.path].operation[e.method]

Fits(d, ts, e) ==
  LET path == d.path[e.path]
      op   == OperationOf(d, e)
  IN  /\ e.path \in DOMAIN d.path
      /\ e.method \in Method \cap DOMAIN path.operation
      /\ ParametersAccepted(path, op)
      /\ TemplateMatches(path, op)
      /\ e.parameter = Parameters(path, op)
      /\ op.body = Absent => e.body = Absent
      /\ op.body # Absent => /\ e.body = [type |-> e.body.type, required |-> op.body.required]
                             /\ TypeOf(d, ts, e.body.type, op.body.schema)
      /\ Successful(op) # {}
      /\ e.response.status = Status(op)
      /\ TypeOf(d, ts, e.response.type, op.response[Status(op)])

\* The endpoint makes its calls with the key in use, or without one, as the
\* description allows.
Asks(d, e) == IF OperationOf(d, e).security # Absent THEN OperationOf(d, e).security ELSE d.security

Calls(d, key, e) ==
  /\ e.authenticated \in BOOLEAN
  /\ e.authenticated => key # Absent
  /\ d.scheme # Absent =>
       IF e.authenticated
       THEN Asks(d, e) # Absent /\ {key} \in Range(Asks(d, e)) /\ d.scheme[key] = "header"
       ELSE Asks(d, e) \in {Absent, <<>>} \/ {} \in Range(Asks(d, e))

\* What is known of the key and the schemes it may be of.
Keys ==
  /\ schemes # {} => /\ doc.scheme # Absent
                     /\ schemes \subseteq {n \in DOMAIN doc.scheme : doc.scheme[n] = "header"}
  /\ active \in schemes \cup {Absent}
  /\ rootSecurity \in SchemeName \cup {Absent, ""}
  /\ stage \in {"components", "security"} => schemes = {} /\ rootSecurity = Absent
  /\ stage = "paths" /\ doc.scheme # Absent =>
       rootSecurity = Requirement(doc.security) /\ ~Combined(doc.security)

\* The operations before the next one have an endpoint each, and no others do.
Covered(d, es, next) ==
  /\ \A i \in DOMAIN d.path :
       Before(i, "get", next) => DOMAIN d.path[i].operation \cap Refusable = {}
  /\ \A j \in DOMAIN es : Before(es[j].path, es[j].method, next)
  /\ \A i \in DOMAIN d.path : \A m \in Method \cap DOMAIN d.path[i].operation :
       Before(i, m, next) => \E j \in DOMAIN es : es[j].path = i /\ es[j].method = m
  /\ \A j, k \in DOMAIN es : es[j].path = es[k].path /\ es[j].method = es[k].method => j = k

LoweringInv ==
  /\ doc \in Description
  /\ Stages
  /\ TypesSoFar(doc, types, schemaType)
  /\ Keys
  /\ IsSeq(endpoints)
  /\ \A j \in DOMAIN endpoints : /\ Fits(doc, types, endpoints[j])
                                 /\ Calls(doc, active, endpoints[j])
  /\ Covered(doc, endpoints, at)

-----------------------------------------------------------------------------
\* Sets of numbers and sequences.
LEMMA LeastElement ==
  ASSUME NEW S, S \subseteq Nat, S # {}
  PROVE  \E least \in S : \A n \in S : least <= n
<1> DEFINE Less == {pair \in Nat \X Nat : pair[1] < pair[2]}
<1>1. OpToRel(<, Nat) = Less
  BY DEF OpToRel
<1>2. IsWellFoundedOn(Less, Nat)
  BY <1>1, NatLessThanWellFounded
<1> HIDE DEF Less
<1>3. PICK least \in S : \A n \in S : <<n, least>> \notin Less
  BY <1>2, WFMin
<1>4. \A n \in S : ~(n < least)
  BY <1>3 DEF Less
<1> QED  BY <1>4

\* A bounded set of numbers has a largest one.
LEMMA GreatestElement ==
  ASSUME NEW bound \in Nat, NEW S, S \subseteq 0..bound, S # {}
  PROVE  \E greatest \in S : \A n \in S : n <= greatest
<1> DEFINE Below == {bound - n : n \in S}
<1>1. Below \subseteq Nat /\ Below # {}
  <2>1. \A n \in S : bound - n \in Nat
    OBVIOUS
  <2> QED  BY <2>1
<1>2. PICK least \in Below : \A m \in Below : least <= m
  <2> HIDE DEF Below
  <2> QED  BY <1>1, LeastElement
<1>3. PICK greatest \in S : least = bound - greatest
  OBVIOUS
<1>4. ASSUME NEW n \in S PROVE n <= greatest
  <2>1. bound - n \in Below /\ n \in 0..bound /\ greatest \in 0..bound
    OBVIOUS
  <2>2. bound - greatest <= bound - n
    BY <1>2, <1>3, <2>1
  <2> QED  BY <2>1, <2>2
<1> QED  BY <1>4

LEMMA IsSequence ==
  ASSUME NEW n \in Nat, NEW s, s = [i \in 1..n |-> s[i]]
  PROVE  IsSeq(s) /\ Len(s) = n /\ DOMAIN s = 1..n
<1> DEFINE S == {s[i] : i \in 1..n}
<1>1. s \in [1..n -> S]
  OBVIOUS
<1> HIDE DEF S
<1>2. s \in Seq(S) /\ Len(s) = n
  BY <1>1
<1> QED  BY <1>2 DEF IsSeq

LEMMA Concatenated ==
  ASSUME NEW a, NEW b, IsSeq(a), IsSeq(b)
  PROVE  /\ IsSeq(a \o b) /\ Len(a \o b) = Len(a) + Len(b)
         /\ \A i \in 1..Len(a) : (a \o b)[i] = a[i]
         /\ \A i \in 1..Len(b) : (a \o b)[Len(a) + i] = b[i]
<1> DEFINE S == {a[i] : i \in 1..Len(a)} \cup {b[i] : i \in 1..Len(b)}
<1>1. a \in Seq(S) /\ b \in Seq(S)
  <2>1. PICK m, n \in Nat : m = Len(a) /\ n = Len(b)
    BY DEF IsSeq
  <2>2. a \in [1..m -> S] /\ b \in [1..n -> S]
    BY <2>1 DEF IsSeq
  <2> QED  BY <2>2
<1> HIDE DEF S
<1>2. /\ a \o b \in Seq(S) /\ Len(a \o b) = Len(a) + Len(b)
      /\ \A i \in 1..Len(a) : (a \o b)[i] = a[i]
      /\ \A i \in 1..Len(b) : (a \o b)[Len(a) + i] = b[i]
  BY <1>1
<1>3. ASSUME NEW s \in Seq(S) PROVE IsSeq(s)
  BY DEF IsSeq
<1> QED  BY <1>2, <1>3

LEMMA Appended ==
  ASSUME NEW a, NEW x, IsSeq(a)
  PROVE  /\ IsSeq(Append(a, x)) /\ Len(Append(a, x)) = Len(a) + 1
         /\ \A i \in 1..Len(a) : Append(a, x)[i] = a[i]
         /\ Append(a, x)[Len(a) + 1] = x
         /\ DOMAIN Append(a, x) = 1..(Len(a) + 1) /\ DOMAIN a = 1..Len(a)
<1> DEFINE S == {a[i] : i \in 1..Len(a)} \cup {x}
<1>1. a \in Seq(S) /\ x \in S
  <2>1. PICK n \in Nat : n = Len(a)
    BY DEF IsSeq
  <2>2. a \in [1..n -> S]
    BY <2>1 DEF IsSeq
  <2> QED  BY <2>2
<1> HIDE DEF S
<1>2. /\ Append(a, x) \in Seq(S) /\ Len(Append(a, x)) = Len(a) + 1
      /\ \A i \in 1..Len(a) : Append(a, x)[i] = a[i]
      /\ Append(a, x)[Len(a) + 1] = x
  BY <1>1
<1>3. ASSUME NEW s \in Seq(S) PROVE IsSeq(s) /\ DOMAIN s = 1..Len(s)
  BY DEF IsSeq
<1> QED  BY <1>1, <1>2, <1>3

-----------------------------------------------------------------------------
\* The primitive types, and the parameters of an endpoint.
LEMMA PrimitiveIds ==
  /\ IsSeq(PrimitiveTypes) /\ Len(PrimitiveTypes) = 3
  /\ \A p \in Primitive : TypeIdOf(p) \in 1..3 /\ PrimitiveTypes[TypeIdOf(p)].name = p
<1> DEFINE names == <<"string", "integer", "boolean">>
<1>1. names[1] = "string" /\ names[2] = "integer" /\ names[3] = "boolean"
  OBVIOUS
<1> HIDE DEF names
<1>2. \A i \in 1..3 : PrimitiveTypes[i].name = names[i]
  BY DEF PrimitiveTypes, names
<1>3. IsSeq(PrimitiveTypes) /\ Len(PrimitiveTypes) = 3
  <2>1. PICK n \in Nat : n = 3
    OBVIOUS
  <2>2. PrimitiveTypes = [i \in 1..n |-> PrimitiveTypes[i]]
    BY <2>1 DEF PrimitiveTypes
  <2> QED  BY <2>1, <2>2, IsSequence
<1>4. \A p \in Primitive : \E i \in 1..3 : PrimitiveTypes[i].name = p
  BY <1>1, <1>2 DEF Primitive
<1> QED  BY <1>3, <1>4 DEF TypeIdOf

\* What a declaration becomes in the map of parse_parameters.
Entry(p) == [type |-> TypeIdOf(p.type), required |-> Required(p)]

\* The last of the first n declarations with that location.
IsLast(ps, n, k, i) == /\ i \in 1..n /\ Location(ps[i]) = k
                       /\ \A j \in 1..n : Location(ps[j]) = k => j <= i

Locations(ps, n) == {Location(ps[i]) : i \in 1..n}

LEMMA HasLast ==
  ASSUME NEW ps, NEW n \in Nat, NEW k \in Locations(ps, n)
  PROVE  /\ \E i \in 1..n : IsLast(ps, n, k, i)
         /\ \A i, j \in 1..n : IsLast(ps, n, k, i) /\ IsLast(ps, n, k, j) => i = j
<1> DEFINE Declared == {i \in 1..n : Location(ps[i]) = k}
<1>1. Declared \subseteq 0..n /\ Declared # {}
  BY DEF Locations
<1>2. PICK i \in Declared : \A j \in Declared : j <= i
  <2> HIDE DEF Declared
  <2> QED  BY <1>1, GreatestElement
<1>3. IsLast(ps, n, k, i)
  BY <1>2 DEF IsLast
<1> QED  BY <1>3 DEF IsLast

\* The map after n declarations.
After(ps, n) ==
  [k \in Locations(ps, n) |-> Entry(ps[CHOOSE i \in 1..n : IsLast(ps, n, k, i)])]

LEMMA InsertedNext ==
  ASSUME NEW ps, NEW n \in Nat
  PROVE  Inserted(After(ps, n), ps[n + 1]) = After(ps, n + 1)
<1> DEFINE new == Location(ps[n + 1])
<1>1. Locations(ps, n + 1) = Locations(ps, n) \cup {new}
  BY DEF Locations
<1>2. ASSUME NEW k \in Locations(ps, n + 1)
      PROVE  After(ps, n + 1)[k] = IF k = new THEN Entry(ps[n + 1]) ELSE After(ps, n)[k]
  <2> DEFINE last(m) == CHOOSE i \in 1..m : IsLast(ps, m, k, i)
  <2>1. last(n + 1) \in 1..(n + 1) /\ IsLast(ps, n + 1, k, last(n + 1))
    BY HasLast
  <2>2. After(ps, n + 1)[k] = Entry(ps[last(n + 1)])
    BY DEF After
  <2>3. CASE k = new
    <3>1. last(n + 1) = n + 1
      BY <2>1, <2>3 DEF IsLast
    <3> QED  BY <2>2, <2>3, <3>1
  <2>4. CASE k # new
    <3>1. k \in Locations(ps, n)
      BY <1>1, <2>4
    <3>2. After(ps, n)[k] = Entry(ps[last(n)])
      BY <3>1 DEF After
    <3>3. last(n) \in 1..n /\ IsLast(ps, n, k, last(n))
      BY <3>1, HasLast
    <3>4. last(n + 1) # n + 1
      BY <2>1, <2>4 DEF IsLast
    <3>5. last(n + 1) \in 1..n /\ IsLast(ps, n, k, last(n + 1))
      BY <2>1, <3>4 DEF IsLast
    <3>6. last(n + 1) = last(n)
      BY <3>1, <3>3, <3>5, HasLast
    <3> QED  BY <2>2, <2>4, <3>2, <3>6
  <2> QED  BY <2>3, <2>4
<1>3. DOMAIN After(ps, n) = Locations(ps, n) /\ DOMAIN After(ps, n + 1) = Locations(ps, n + 1)
  BY DEF After
<1>4. Inserted(After(ps, n), ps[n + 1])
        = [k \in Locations(ps, n + 1) |-> IF k = new THEN Entry(ps[n + 1]) ELSE After(ps, n)[k]]
  BY <1>1, <1>3 DEF Inserted, Entry
<1>5. After(ps, n + 1) = [k \in Locations(ps, n + 1) |-> After(ps, n + 1)[k]]
  BY DEF After
<1> HIDE DEF new
<1> QED  BY <1>2, <1>4, <1>5

\* parse_parameters leaves the last declaration of each location, wherever the
\* declarations of a location stand.
LEMMA CollectedLast ==
  ASSUME NEW ps \in Seq(Parameter)
  PROVE  Collected(ps) = After(ps, Len(ps))
<1> DEFINE Def(f) == [n \in 0..Len(ps) |-> IF n = 0 THEN <<>> ELSE Inserted(f[n - 1], ps[n])]
           map == [n \in 0..Len(ps) |-> After(ps, n)]
           f == CHOOSE f : f = Def(f)
<1>1. Len(ps) \in Nat
  OBVIOUS
<1>2. After(ps, 0) = <<>>
  BY DEF After, Locations
<1>3. ASSUME NEW n \in 0..Len(ps), n # 0 PROVE After(ps, n) = Inserted(After(ps, n - 1), ps[n])
  <2>1. PICK m \in Nat : m = n - 1 /\ n = m + 1
    BY <1>1, <1>3
  <2> QED  BY <2>1, InsertedNext
<1>4. map = Def(map)
  BY <1>1, <1>2, <1>3
<1>5. f = Def(f)
  <2> HIDE DEF Def, map
  <2> QED  BY <1>4
<1>6. Collected(ps) = f[Len(ps)]
  BY DEF Collected
<1>7. \A n \in 0..Len(ps) : f[n] = IF n = 0 THEN <<>> ELSE Inserted(f[n - 1], ps[n])
  BY <1>5
<1> HIDE DEF f
<1>8. ASSUME NEW n \in 0..Len(ps), f[n] # After(ps, n) PROVE FALSE
  <2> DEFINE Wrong == {m \in 0..Len(ps) : f[m] # After(ps, m)}
  <2>1. Wrong \subseteq Nat /\ Wrong # {}
    BY <1>1, <1>8
  <2>2. PICK m \in Wrong : \A o \in Wrong : m <= o
    <3> HIDE DEF Wrong
    <3> QED  BY <2>1, LeastElement
  <2>3. m # 0
    BY <1>2, <1>7, <2>2
  <2>4. m - 1 \in 0..Len(ps) /\ m - 1 \notin Wrong
    BY <1>1, <2>2, <2>3
  <2>5. f[m - 1] = After(ps, m - 1)
    BY <2>4
  <2> QED  BY <1>3, <1>7, <2>2, <2>3, <2>5
<1> QED  BY <1>1, <1>6, <1>8

LEMMA LastAtIs ==
  ASSUME NEW ps \in Seq(Parameter), NEW k, NEW i, IsLast(ps, Len(ps), k, i)
  PROVE  LastAt(ps, k) = ps[i] /\ i \in DOMAIN ps /\ \E p \in Range(ps) : Location(p) = k
<1> DEFINE Final(j) == /\ Location(ps[j]) = k
                      /\ \A l \in DOMAIN ps : Location(ps[l]) = k => l <= j
<1>1. DOMAIN ps = 1..Len(ps) /\ Len(ps) \in Nat
  OBVIOUS
<1>2. i \in DOMAIN ps /\ Final(i)
  BY <1>1 DEF IsLast
<1>3. \A j \in DOMAIN ps : Final(j) => j = i
  BY <1>1, <1>2
<1>4. LastAt(ps, k) = ps[CHOOSE j \in DOMAIN ps : Final(j)]
  BY DEF LastAt
<1>5. (CHOOSE j \in DOMAIN ps : Final(j)) = i
  <2> HIDE DEF Final
  <2> QED  BY <1>2, <1>3
<1> QED  BY <1>2, <1>4, <1>5 DEF Range

\* The declaration that counts for a location is the operation's, if it has one.
LEMMA OperationWins ==
  ASSUME NEW shared \in Seq(Parameter), NEW own \in Seq(Parameter), NEW k,
         k \in Locations(shared \o own, Len(shared \o own))
  PROVE  LET declared == LastAt(IF \E p \in Range(own) : Location(p) = k THEN own ELSE shared, k)
         IN  /\ Collected(shared \o own)[k] = Entry(declared)
             /\ declared \in Range(shared \o own) /\ Location(declared) = k
<1> DEFINE all == shared \o own
<1>1. /\ all \in Seq(Parameter) /\ Len(all) = Len(shared) + Len(own)
      /\ Len(shared) \in Nat /\ Len(own) \in Nat /\ Len(all) \in Nat
      /\ DOMAIN all = 1..Len(all) /\ DOMAIN own = 1..Len(own) /\ DOMAIN shared = 1..Len(shared)
      /\ \A i \in 1..Len(shared) : all[i] = shared[i]
      /\ \A i \in 1..Len(own) : all[Len(shared) + i] = own[i]
  OBVIOUS
<1> HIDE DEF all
<1>2. PICK last : last = CHOOSE i \in 1..Len(all) : IsLast(all, Len(all), k, i)
  OBVIOUS
<1>3. last \in 1..Len(all) /\ IsLast(all, Len(all), k, last)
  BY <1>1, <1>2, HasLast DEF all
<1>4. Collected(all)[k] = Entry(all[last])
  <2>1. Collected(all) = After(all, Len(all))
    BY <1>1, CollectedLast
  <2> QED  BY <1>2, <2>1 DEF After, all
<1>5. all[last] \in Range(all) /\ Location(all[last]) = k
  BY <1>1, <1>3 DEF Range, IsLast
<1>6. CASE \E p \in Range(own) : Location(p) = k
  <2>1. PICK j \in 1..Len(own) : Location(own[j]) = k
    BY <1>1, <1>6 DEF Range
  <2>2. Len(shared) + j <= last
    BY <1>1, <1>3, <2>1 DEF IsLast
  <2>3. PICK i : i = last - Len(shared)
    OBVIOUS
  <2>4. i \in 1..Len(own) /\ last = Len(shared) + i /\ all[last] = own[i]
    <3>1. last \in Nat /\ last <= Len(all) /\ Len(shared) + 1 <= last
      BY <1>1, <1>3, <2>2
    <3>2. i \in 1..Len(own) /\ last = Len(shared) + i
      <4>1. Len(shared) \in Nat /\ Len(own) \in Nat /\ Len(all) = Len(shared) + Len(own)
        BY <1>1
      <4> QED  BY ONLY <2>3, <3>1, <4>1
    <3> QED  BY <1>1, <3>2
  <2>5. IsLast(own, Len(own), k, i)
    <3>1. ASSUME NEW l \in 1..Len(own), Location(own[l]) = k PROVE l <= i
      <4>1. Len(shared) + l \in 1..Len(all) /\ all[Len(shared) + l] = own[l]
        BY <1>1
      <4>2. Len(shared) + l <= last
        BY <1>3, <3>1, <4>1 DEF IsLast
      <4> QED  BY <1>1, <2>4, <4>2
    <3> QED  BY <1>5, <2>4, <3>1 DEF IsLast
  <2>6. LastAt(own, k) = all[last]
    BY <2>4, <2>5, LastAtIs
  <2> QED  BY <1>4, <1>5, <1>6, <2>6 DEF all
<1>7. CASE ~\E p \in Range(own) : Location(p) = k
  <2>1. last \in 1..Len(shared)
    <3> SUFFICES ASSUME last \notin 1..Len(shared) PROVE FALSE
      OBVIOUS
    <3>1. PICK i : i = last - Len(shared)
      OBVIOUS
    <3>2. i \in 1..Len(own) /\ last = Len(shared) + i
      BY <1>1, <1>3, <3>1
    <3>3. all[last] = own[i]
      BY <1>1, <3>2
    <3> QED  BY <1>1, <1>5, <1>7, <3>2, <3>3 DEF Range
  <2>2. IsLast(shared, Len(shared), k, last)
    BY <1>1, <1>3, <2>1 DEF IsLast
  <2>3. LastAt(shared, k) = all[last]
    BY <1>1, <2>1, <2>2, LastAtIs
  <2> QED  BY <1>4, <1>5, <1>7, <2>3 DEF all
<1> QED  BY <1>6, <1>7

\* ParametersAsDescribed of one operation.
AsDeclared(path, op, map) ==
  /\ DOMAIN map = {Location(p) : p \in Range(path.parameters \o op.parameters)}
  /\ \A k \in DOMAIN map :
       LET declared == LastAt(IF \E p \in Range(op.parameters) : Location(p) = k
                              THEN op.parameters ELSE path.parameters, k)
       IN  /\ map[k].type \in 1..3 /\ PrimitiveTypes[map[k].type].name = declared.type
           /\ map[k].required <=> declared.required = TRUE \/ declared.in = "path"
  /\ \A n \in path.template : map[<<"path", n>>].required
  /\ \A k \in DOMAIN map : k[1] = "path" => k[2] \in path.template

LEMMA ParametersMean ==
  ASSUME NEW path, NEW op, path.parameters \in Seq(Parameter), op.parameters \in Seq(Parameter),
         ParametersAccepted(path, op), TemplateMatches(path, op)
  PROVE  AsDeclared(path, op, Parameters(path, op))
<1> DEFINE map == Parameters(path, op)
           all == path.parameters \o op.parameters
           Declared(k) == LastAt(IF \E p \in Range(op.parameters) : Location(p) = k
                                 THEN op.parameters ELSE path.parameters, k)
<1>1. all \in Seq(Parameter) /\ DOMAIN all = 1..Len(all)
  OBVIOUS
<1>2. map = After(all, Len(all)) /\ map = Collected(all)
  BY <1>1, CollectedLast DEF Parameters
<1>3. DOMAIN map = Locations(all, Len(all))
  BY <1>2 DEF After
<1>4. DOMAIN map = {Location(p) : p \in Range(all)}
  BY <1>1, <1>3 DEF Locations, Range
<1>5. ASSUME NEW k \in DOMAIN map
      PROVE  /\ map[k].type \in 1..3 /\ PrimitiveTypes[map[k].type].name = Declared(k).type
             /\ map[k].required <=> Declared(k).required = TRUE \/ Declared(k).in = "path"
             /\ Declared(k).in = k[1]
  <2>1. PICK p : p = Declared(k)
    OBVIOUS
  <2>2. map[k] = Entry(p) /\ p \in Range(all) /\ Location(p) = k
    <3>1. k \in Locations(all, Len(all))
      BY <1>3
    <3>2. Collected(all)[k] = Entry(p) /\ p \in Range(all) /\ Location(p) = k
      BY <2>1, <3>1, OperationWins
    <3>3. map[k] = Collected(all)[k]
      BY <1>2
    <3> QED  BY ONLY <3>2, <3>3
  <2>3. Acceptable(p) /\ p \in Parameter
    <3>1. p \in Parameter
      <4>1. PICK i \in DOMAIN all : p = all[i]
        BY <2>2 DEF Range
      <4> HIDE DEF all
      <4> QED  BY <1>1, <4>1
    <3>2. \A q \in Range(all) : Acceptable(q)
      BY DEF ParametersAccepted
    <3> QED  BY <2>2, <3>1, <3>2
  <2>4. p.type \in Primitive /\ (p.in = "path" => Required(p))
    BY <2>3 DEF Acceptable
  <2>5. map[k].type = TypeIdOf(p.type) /\ map[k].required = Required(p)
    BY <2>2 DEF Entry
  <2>6. Required(p) <=> p.required = TRUE \/ p.in = "path"
    BY <2>3, <2>4, NameAssumption DEF Required, Parameter
  <2>7. p.in = k[1]
    BY <2>2 DEF Location
  <2> QED  BY <2>1, <2>4, <2>5, <2>6, <2>7, PrimitiveIds
<1>6. {k \in DOMAIN map : k[1] = "path"} = {<<"path", n>> : n \in path.template}
  BY DEF TemplateMatches
<1>7. ASSUME NEW n \in path.template PROVE map[<<"path", n>>].required
  <2>1. PICK k : k = <<"path", n>>
    OBVIOUS
  <2>2. k \in DOMAIN map /\ k[1] = "path"
    BY <1>6, <2>1
  <2> QED  BY <1>5, <2>1, <2>2
<1>8. ASSUME NEW k \in DOMAIN map, k[1] = "path" PROVE k[2] \in path.template
  BY <1>6, <1>8
<1> HIDE DEF map, all
<1>9. AsDeclared(path, op, map)
  <2> HIDE DEF map
  <2> QED  BY <1>4, <1>5, <1>7, <1>8 DEF all, AsDeclared
<1> QED  BY <1>9 DEF map

-----------------------------------------------------------------------------
\* The types of a module.
LEMMA FieldsTyped ==
  ASSUME NEW schema, Lowerable(schema)
  PROVE  /\ DOMAIN Fields(schema) = DOMAIN schema.property
         /\ \A f \in DOMAIN schema.property :
              /\ Fields(schema)[f].type \in 1..3
              /\ PrimitiveTypes[Fields(schema)[f].type].name = schema.property[f]
              /\ Fields(schema)[f].required <=> f \in schema.required
<1>1. DOMAIN Fields(schema) = DOMAIN schema.property
  BY DEF Fields
<1>2. ASSUME NEW f \in DOMAIN schema.property
      PROVE  /\ Fields(schema)[f].type = TypeIdOf(schema.property[f])
             /\ Fields(schema)[f].required = (f \in schema.required)
             /\ schema.property[f] \in Primitive
  BY DEF Fields, Lowerable
<1> QED  BY <1>1, <1>2, PrimitiveIds

LEMMA TypesGrow ==
  ASSUME NEW d, NEW ts, NEW ids, NEW more, TypesSoFar(d, ts, ids), IsSeq(more),
         \A i \in 1..Len(more) :
           \E schema : Lowerable(schema) /\ more[i].field = Fields(schema)
  PROVE  /\ TypesSoFar(d, ts \o more, ids)
         /\ Len(ts) \in Nat /\ Len(more) \in Nat /\ Len(ts \o more) = Len(ts) + Len(more)
         /\ \A i \in 1..Len(more) : (ts \o more)[Len(ts) + i] = more[i]
         /\ \A id, schema : TypeOf(d, ts, id, schema) => TypeOf(d, ts \o more, id, schema)
         /\ \A e : Fits(d, ts, e) => Fits(d, ts \o more, e)
<1> DEFINE grown == ts \o more
<1>1. /\ IsSeq(grown) /\ Len(grown) = Len(ts) + Len(more)
      /\ \A i \in 1..Len(ts) : grown[i] = ts[i]
      /\ \A i \in 1..Len(more) : grown[Len(ts) + i] = more[i]
      /\ Len(ts) \in Nat /\ Len(more) \in Nat /\ Len(ts) >= 3
  <2>1. IsSeq(ts) /\ Len(ts) >= 3 /\ Len(ts) \in Nat /\ Len(more) \in Nat
    BY DEF TypesSoFar, IsSeq
  <2> HIDE DEF grown
  <2> QED  BY <2>1, Concatenated DEF grown
<1> HIDE DEF grown
<1>2. /\ \A id, object : MadeOf(ts, id, object) => MadeOf(grown, id, object)
      /\ \A id, schema : TypeOf(d, ts, id, schema) => TypeOf(d, grown, id, schema)
  BY <1>1 DEF TypeOf, MadeOf
<1>3. ASSUME NEW e, Fits(d, ts, e) PROVE Fits(d, grown, e)
  BY <1>2, <1>3 DEF Fits
<1>4. ASSUME NEW i \in 4..Len(grown), NEW f \in DOMAIN grown[i].field
      PROVE  grown[i].field[f].type \in 1..3
  <2>1. CASE i <= Len(ts)
    BY <1>1, <1>4, <2>1 DEF TypesSoFar
  <2>2. CASE i > Len(ts)
    <3>1. PICK j : j = i - Len(ts)
      OBVIOUS
    <3>2. j \in 1..Len(more) /\ i = Len(ts) + j
      BY <1>1, <2>2, <3>1
    <3>3. PICK schema : Lowerable(schema) /\ grown[i].field = Fields(schema)
      BY <1>1, <3>2
    <3> QED  BY <1>4, <3>3, FieldsTyped
  <2> QED  BY <1>1, <2>1, <2>2
<1>5. TypesSoFar(d, grown, ids)
  BY <1>1, <1>2, <1>4 DEF TypesSoFar
<1> QED  BY <1>1, <1>2, <1>3, <1>5 DEF grown

\* The names of a finite set in some order, each once.
LEMMA Listed ==
  ASSUME NEW S, IsFiniteSet(S)
  PROVE  LET names == SetToSeq(S)
         IN  /\ IsSeq(names) /\ DOMAIN names = 1..Len(names)
             /\ \A i \in DOMAIN names : names[i] \in S
             /\ \A x \in S : \E i \in DOMAIN names : names[i] = x
<1> DEFINE n == Cardinality(S)
           names == SetToSeq(S)
<1>1. n \in Nat /\ \E f : f \in Bijection(1..n, S)
  BY FS_CardinalityType DEF ExistsBijection
<1>2. \E f \in [1..n -> S] : IsInjective(f)
  BY <1>1 DEF Bijection, Injection
<1>3. names \in [1..n -> S] /\ IsInjective(names)
  BY <1>2 DEF SetToSeq
<1> HIDE DEF names
<1>4. names \in Injection(1..n, S)
  BY <1>3 DEF Injection
<1>5. Cardinality(1..n) = n
  BY <1>1, FS_Interval
<1>6. names \in Surjection(1..n, S)
  BY <1>4, <1>5, FS_Injection
<1>7. \A x \in S : \E i \in 1..n : names[i] = x
  BY <1>6 DEF Surjection
<1>8. IsSeq(names) /\ Len(names) = n /\ DOMAIN names = 1..n
  BY <1>1, <1>3, IsSequence
<1> QED  BY <1>3, <1>7, <1>8 DEF names

\* parse_components: every component has its id, and its struct there.
LEMMA ComponentsTyped ==
  ASSUME NEW d \in Description, \A t \in DOMAIN d.schema : Lowerable(d.schema[t])
  PROVE  LET names == SetToSeq(DOMAIN d.schema)
         IN  TypesSoFar(d, PrimitiveTypes \o [i \in DOMAIN names |-> Struct(names[i], d.schema[names[i]])],
                        [t \in DOMAIN d.schema |-> 3 + CHOOSE i \in DOMAIN names : names[i] = t])
<1>1. PICK names : names = SetToSeq(DOMAIN d.schema)
  OBVIOUS
<1>2. /\ IsSeq(names) /\ DOMAIN names = 1..Len(names)
      /\ \A i \in DOMAIN names : names[i] \in DOMAIN d.schema
      /\ \A t \in DOMAIN d.schema : \E i \in DOMAIN names : names[i] = t
  <2>1. IsFiniteSet(DOMAIN d.schema)
    BY DescriptionAssumption
  <2> QED  BY <1>1, <2>1, Listed
<1> DEFINE structs == [i \in DOMAIN names |-> Struct(names[i], d.schema[names[i]])]
           ids == [t \in DOMAIN d.schema |-> 3 + CHOOSE i \in DOMAIN names : names[i] = t]
           ts == PrimitiveTypes \o structs
<1>3. IsSeq(structs) /\ Len(structs) = Len(names) /\ Len(names) \in Nat
  <2>1. Len(names) \in Nat
    BY <1>2 DEF IsSeq
  <2>2. structs = [i \in 1..Len(names) |-> structs[i]]
    BY <1>2
  <2> HIDE DEF structs
  <2> QED  BY <2>1, <2>2, IsSequence
<1>4. \A i \in 1..Len(names) : structs[i].field = Fields(d.schema[names[i]])
  BY <1>2 DEF Struct
<1> HIDE DEF structs
<1>5. TypesSoFar(d, PrimitiveTypes, [t \in {} |-> 0])
  BY PrimitiveIds DEF TypesSoFar
<1>6. /\ TypesSoFar(d, ts, [t \in {} |-> 0]) /\ Len(ts) = 3 + Len(names)
      /\ \A i \in 1..Len(names) : ts[3 + i] = structs[i]
  <2> DEFINE none == [t \in {} |-> 0]
  <2> HIDE DEF none, ts
  <2>1. TypesSoFar(d, PrimitiveTypes, none)
    BY <1>5 DEF none
  <2>2. \A i \in 1..Len(structs) : \E schema : Lowerable(schema) /\ structs[i].field = Fields(schema)
    BY <1>2, <1>3, <1>4
  <2>3. /\ TypesSoFar(d, ts, none) /\ Len(ts) = Len(PrimitiveTypes) + Len(structs)
        /\ \A i \in 1..Len(structs) : ts[Len(PrimitiveTypes) + i] = structs[i]
    BY <1>3, <2>1, <2>2, TypesGrow DEF ts
  <2> QED  BY <1>3, <2>3, PrimitiveIds DEF none
<1> HIDE DEF ts
<1>7. ASSUME NEW t \in DOMAIN d.schema
      PROVE  MadeOf(ts, ids[t], d.schema[t])
  <2>1. PICK i : i = CHOOSE j \in DOMAIN names : names[j] = t
    OBVIOUS
  <2>2. i \in 1..Len(names) /\ names[i] = t /\ ids[t] = 3 + i
    BY <1>2, <2>1
  <2>3. ids[t] \in 4..Len(ts) /\ ts[ids[t]].field = Fields(d.schema[t])
    BY <1>3, <1>4, <1>6, <2>2
  <2> QED  BY <2>3 DEF MadeOf
<1>8. TypesSoFar(d, ts, ids)
  BY <1>6, <1>7 DEF TypesSoFar
<1> QED  BY <1>1, <1>8 DEF ts, structs

-----------------------------------------------------------------------------
\* The first steps.
LEMMA InitEstablishes == Init => LoweringInv
<1> SUFFICES ASSUME Init PROVE LoweringInv
  OBVIOUS
<1>1. doc \in Description /\ Len(doc.path) \in Nat /\ DOMAIN doc.path = 1..Len(doc.path)
  BY DescriptionAssumption DEF Init
<1>2. Stages
  BY <1>1 DEF Init, Stages, First, Method
<1>3. TypesSoFar(doc, types, schemaType)
  BY PrimitiveIds DEF Init, TypesSoFar
<1>4. Keys
  BY DEF Init, Keys
<1>5. endpoints = <<>> /\ IsSeq(endpoints) /\ DOMAIN endpoints = {}
  <2>1. endpoints = <<>> /\ Len(endpoints) = 0 /\ DOMAIN endpoints = {}
    BY DEF Init
  <2>2. endpoints = [i \in 1..Len(endpoints) |-> endpoints[i]]
    BY <2>1
  <2> QED  BY <2>1, <2>2 DEF IsSeq
<1>6. \A i \in DOMAIN doc.path : \A m : ~Before(i, m, at)
  BY <1>1 DEF Init, Before
<1>7. Covered(doc, endpoints, at)
  BY <1>5, <1>6 DEF Covered
<1> QED  BY <1>1, <1>2, <1>3, <1>4, <1>5, <1>7 DEF LoweringInv

LEMMA RefuseStep == LoweringInv /\ Refuse => LoweringInv'
<1> SUFFICES ASSUME LoweringInv, Refuse PROVE LoweringInv'
  OBVIOUS
<1>1. /\ stage' = "refused" /\ doc' = doc /\ at' = at /\ types' = types /\ schemaType' = schemaType
      /\ schemes' = schemes /\ rootSecurity' = rootSecurity /\ active' = active
      /\ endpoints' = endpoints
  BY DEF Refuse
<1>2. Stages'
  BY <1>1 DEF LoweringInv, Stages
<1>3. Keys'
  BY <1>1 DEF LoweringInv, Keys
<1> QED  BY <1>1, <1>2, <1>3 DEF LoweringInv

LEMMA ComponentsStep == LoweringInv /\ ParseComponents => LoweringInv'
<1> SUFFICES ASSUME LoweringInv, ParseComponents, ~Refuse PROVE LoweringInv'
  BY RefuseStep
<1> DEFINE names == SetToSeq(DOMAIN doc.schema)
<1>1. /\ stage = "components" /\ stage' = "security"
      /\ \A t \in DOMAIN doc.schema : Lowerable(doc.schema[t])
      /\ types' = types \o [i \in DOMAIN names |-> Struct(names[i], doc.schema[names[i]])]
      /\ schemaType' = [t \in DOMAIN doc.schema |->
                          Len(types) + CHOOSE i \in DOMAIN names : names[i] = t]
      /\ doc' = doc /\ at' = at /\ schemes' = schemes /\ rootSecurity' = rootSecurity
      /\ active' = active /\ endpoints' = endpoints
  BY DEF ParseComponents
<1>2. types = PrimitiveTypes /\ Len(types) = 3 /\ doc \in Description /\ endpoints = <<>>
  BY <1>1, PrimitiveIds DEF LoweringInv, Stages
<1>3. TypesSoFar(doc, types', schemaType')
  <2> DEFINE structs == [i \in DOMAIN names |-> Struct(names[i], doc.schema[names[i]])]
             ids == [t \in DOMAIN doc.schema |-> 3 + CHOOSE i \in DOMAIN names : names[i] = t]
  <2>1. TypesSoFar(doc, PrimitiveTypes \o structs, ids)
    BY <1>1, <1>2, ComponentsTyped
  <2>2. types' = PrimitiveTypes \o structs
    BY <1>1, <1>2
  <2>3. schemaType' = ids
    BY <1>1, <1>2
  <2> HIDE DEF structs, ids
  <2> QED  BY <2>1, <2>2, <2>3
<1>4. Stages'
  BY <1>1 DEF LoweringInv, Stages
<1>5. Keys'
  BY <1>1 DEF LoweringInv, Keys
<1>6. DOMAIN endpoints = {}
  BY <1>2
<1> QED  BY <1>1, <1>2, <1>3, <1>4, <1>5, <1>6 DEF LoweringInv

\* A requirement that combines nothing names one scheme or none.
LEMMA RequirementNamed ==
  ASSUME NEW security, IsSecurity(security), ~Combined(security)
  PROVE  /\ Requirement(security) \in SchemeName \cup {Absent, ""}
         /\ Requirement(security) = Absent => security = Absent
         /\ Requirement(security) = "" => security # Absent /\ (security = <<>> \/ {} \in Range(security))
         /\ Requirement(security) \in SchemeName =>
              security # Absent /\ {Requirement(security)} \in Range(security)
<1>1. CASE security = Absent
  BY <1>1, NameAssumption DEF Requirement
<1>2. CASE security # Absent /\ security = <<>>
  BY <1>2, NameAssumption DEF Requirement
<1>3. CASE security # Absent /\ security # <<>>
  <2>1. /\ security \in Seq(SUBSET SchemeName) /\ 1 \in DOMAIN security
        /\ IsFiniteSet(security[1]) /\ security[1] \subseteq SchemeName
    <3>1. security \in Seq(SUBSET SchemeName) /\ \A i \in DOMAIN security : IsFiniteSet(security[i])
      BY <1>3 DEF IsSecurity
    <3> QED  BY <1>3, <3>1
  <2>2. security[1] \in Range(security)
    BY <2>1 DEF Range
  <2>3. CASE security[1] = {}
    BY <1>3, <2>2, <2>3, NameAssumption DEF Requirement
  <2>4. CASE security[1] # {}
    <3>1. Cardinality(security[1]) \in Nat /\ ~(Cardinality(security[1]) > 1)
      BY <1>3, <2>1, FS_CardinalityType DEF Combined
    <3>2. Cardinality(security[1]) # 0
      BY <2>1, <2>4, FS_EmptySet
    <3>3. Cardinality(security[1]) = 1
      BY <3>1, <3>2
    <3>4. PICK n : security[1] = {n}
      BY <2>1, <3>3, FS_Singleton
    <3>5. Requirement(security) = n
      BY <1>3, <2>4, <3>4 DEF Requirement
    <3> QED  BY <1>3, <2>1, <2>2, <3>4, <3>5, NameAssumption
  <2> QED  BY <2>3, <2>4
<1> QED  BY <1>1, <1>2, <1>3

LEMMA SecurityStep == LoweringInv /\ ParseSecuritySchemes => LoweringInv'
<1> SUFFICES ASSUME LoweringInv, ParseSecuritySchemes, ~Refuse PROVE LoweringInv'
  BY RefuseStep
<1>1. /\ stage = "security" /\ stage' = "paths"
      /\ doc' = doc /\ at' = at /\ types' = types /\ schemaType' = schemaType
      /\ active' = active /\ endpoints' = endpoints
  BY DEF ParseSecuritySchemes
<1>2. /\ active = Absent /\ schemes = {} /\ rootSecurity = Absent /\ doc \in Description
  BY <1>1 DEF LoweringInv, Stages, Keys
<1>3. Stages'
  BY <1>1 DEF LoweringInv, Stages
<1>4. ASSUME doc.scheme = Absent PROVE Keys'
  <2>1. schemes' = schemes /\ rootSecurity' = rootSecurity
    BY <1>4 DEF ParseSecuritySchemes
  <2>2. Keys'
    BY <1>1, <1>2, <1>4, <2>1 DEF Keys
  <2> QED  BY <2>2
<1>5. ASSUME doc.scheme # Absent PROVE Keys'
  <2>1. /\ schemes' = {n \in DOMAIN doc.scheme : doc.scheme[n] = "header"}
        /\ rootSecurity' = Requirement(doc.security) /\ ~Combined(doc.security)
    BY <1>5 DEF ParseSecuritySchemes
  <2>2. IsSecurity(doc.security)
    BY <1>2, DescriptionAssumption
  <2>3. rootSecurity' \in SchemeName \cup {Absent, ""}
    BY <2>1, <2>2, RequirementNamed
  <2>4. Keys'
    BY <1>1, <1>2, <1>5, <2>1, <2>3 DEF Keys
  <2> QED  BY <2>4
<1>6. Keys'
  BY <1>4, <1>5
<1> QED  BY <1>1, <1>3, <1>6 DEF LoweringInv

-----------------------------------------------------------------------------
\* From one operation to the next.
LEMMA NextBefore ==
  ASSUME LoweringInv, stage = "paths", at.path <= Len(doc.path), NextOperation
  PROVE  /\ at'.path \in 1..(Len(doc.path) + 1) /\ at'.method \in Method
         /\ at' = [path |-> at'.path, method |-> at'.method]
         /\ at'.path = Len(doc.path) + 1 => at'.method = "get"
         /\ at.path \in DOMAIN doc.path
         /\ \A i \in DOMAIN doc.path : \A m \in Method :
              Before(i, m, at') <=> Before(i, m, at) \/ (i = at.path /\ m = at.method)
<1>1. PICK p, q : p = at.path /\ q = at.method
  OBVIOUS
<1>2. /\ p \in 1..Len(doc.path) /\ q \in Method /\ at = [path |-> p, method |-> q]
      /\ Len(doc.path) \in Nat /\ DOMAIN doc.path = 1..Len(doc.path)
  <2>1. doc \in Description /\ at.path \in 1..(Len(doc.path) + 1) /\ at.method \in Method
        /\ at = [path |-> at.path, method |-> at.method]
    BY DEF LoweringInv, Stages
  <2>2. Len(doc.path) \in Nat /\ DOMAIN doc.path = 1..Len(doc.path)
    BY <2>1, DescriptionAssumption
  <2> QED  BY <1>1, <2>1, <2>2
<1>3. CASE q = "get"
  <2>1. at' = [path |-> p, method |-> "post"]
    BY <1>1, <1>2, <1>3 DEF NextOperation
  <2>2. at'.path = p /\ at'.method = "post"
    BY <2>1
  <2>3. \A i \in 1..Len(doc.path) : \A m \in Method :
          Before(i, m, at') <=> Before(i, m, at) \/ (i = p /\ m = q)
    BY <1>1, <1>2, <1>3, <2>2 DEF Before, Method
  <2> QED  BY <1>1, <1>2, <2>1, <2>2, <2>3 DEF Method
<1>4. CASE q = "post"
  <2>1. at' = [path |-> p + 1, method |-> "get"]
    BY <1>1, <1>2, <1>4 DEF NextOperation
  <2>2. at'.path = p + 1 /\ at'.method = "get"
    BY <2>1
  <2>3. \A i \in 1..Len(doc.path) : \A m \in Method :
          Before(i, m, at') <=> Before(i, m, at) \/ (i = p /\ m = q)
    BY <1>1, <1>2, <1>4, <2>2 DEF Before, Method
  <2> QED  BY <1>1, <1>2, <2>1, <2>2, <2>3 DEF Method
<1> QED  BY <1>2, <1>3, <1>4 DEF Method

\* Covered, when the operation that comes next, if there is one, got its endpoint.
LEMMA NextCovered ==
  ASSUME LoweringInv, stage = "paths", at.path <= Len(doc.path), NextOperation,
         PathAccepted(Path), NEW es, IsSeq(es),
         \/ es = endpoints /\ at.method \notin DOMAIN Path.operation
         \/ \E e : es = Append(endpoints, e) /\ e.path = at.path /\ e.method = at.method
  PROVE  Covered(doc, es, at')
<1>1. /\ at.path \in DOMAIN doc.path /\ at.method \in Method /\ at'.path \in Nat
      /\ \A i \in DOMAIN doc.path : \A m \in Method :
           Before(i, m, at') <=> Before(i, m, at) \/ (i = at.path /\ m = at.method)
  BY NextBefore DEF LoweringInv, Stages
<1>2. Covered(doc, endpoints, at) /\ IsSeq(endpoints)
  BY DEF LoweringInv
<1>3. \A j \in DOMAIN endpoints :
        endpoints[j].path \in DOMAIN doc.path /\ endpoints[j].method \in Method
  BY DEF LoweringInv, Fits
<1>4. ASSUME NEW i \in DOMAIN doc.path, Before(i, "get", at')
      PROVE  DOMAIN doc.path[i].operation \cap Refusable = {}
  <2>1. Before(i, "get", at) \/ i = at.path
    BY <1>1, <1>4 DEF Method
  <2> QED  BY <1>2, <2>1 DEF Covered, Path, PathAccepted
<1>5. ~Before(at.path, at.method, at)
  <2>1. at.path \in Nat
    BY DescriptionAssumption DEF LoweringInv, Stages
  <2> QED  BY <2>1 DEF Before
<1>6. CASE es = endpoints /\ at.method \notin DOMAIN Path.operation
  <2>1. \A j \in DOMAIN es : Before(es[j].path, es[j].method, at')
    BY <1>1, <1>2, <1>3, <1>6 DEF Covered
  <2>2. ASSUME NEW i \in DOMAIN doc.path, NEW m \in Method \cap DOMAIN doc.path[i].operation,
               Before(i, m, at')
        PROVE  \E j \in DOMAIN es : es[j].path = i /\ es[j].method = m
    <3>1. Before(i, m, at)
      BY <1>1, <1>6, <2>2 DEF Path
    <3> QED  BY <1>2, <1>6, <3>1 DEF Covered
  <2> QED  BY <1>2, <1>4, <1>6, <2>1, <2>2 DEF Covered
<1>7. ASSUME NEW e, es = Append(endpoints, e), e.path = at.path, e.method = at.method
      PROVE  Covered(doc, es, at')
  <2>1. PICK n \in Nat : n = Len(endpoints)
    BY <1>2 DEF IsSeq
  <2>2. /\ DOMAIN endpoints = 1..n /\ DOMAIN es = 1..(n + 1)
        /\ \A j \in 1..n : es[j] = endpoints[j]
        /\ es[n + 1] = e
    BY <1>2, <1>7, <2>1, Appended
  <2>3. ASSUME NEW j \in DOMAIN es PROVE Before(es[j].path, es[j].method, at')
    BY <1>1, <1>2, <1>3, <1>7, <2>2, <2>3 DEF Covered
  <2>4. ASSUME NEW i \in DOMAIN doc.path, NEW m \in Method \cap DOMAIN doc.path[i].operation,
               Before(i, m, at')
        PROVE  \E j \in DOMAIN es : es[j].path = i /\ es[j].method = m
    <3>1. CASE Before(i, m, at)
      <4>1. PICK j \in DOMAIN endpoints : endpoints[j].path = i /\ endpoints[j].method = m
        BY <1>2, <3>1 DEF Covered
      <4>2. j \in DOMAIN es /\ es[j] = endpoints[j]
        BY <2>2
      <4> QED  BY <4>1, <4>2
    <3>2. CASE i = at.path /\ m = at.method
      BY <1>7, <2>2, <3>2
    <3> QED  BY <1>1, <2>4, <3>1, <3>2
  <2>5. ASSUME NEW j \in DOMAIN es, NEW k \in DOMAIN es,
               es[j].path = es[k].path, es[j].method = es[k].method
        PROVE  j = k
    <3>1. \A l \in 1..n : ~(es[l].path = at.path /\ es[l].method = at.method)
      BY <1>2, <1>5, <2>2 DEF Covered
    <3>2. es[n + 1].path = at.path /\ es[n + 1].method = at.method
      BY <1>7, <2>2
    <3>3. CASE j \in 1..n /\ k \in 1..n
      BY <1>2, <2>2, <2>5, <3>3 DEF Covered
    <3> QED  BY <2>2, <2>5, <3>1, <3>2, <3>3
  <2> QED  BY <1>4, <2>3, <2>4, <2>5 DEF Covered
<1> QED  BY <1>6, <1>7

LEMMA SkipStep == LoweringInv /\ SkipMethod => LoweringInv'
<1> SUFFICES ASSUME LoweringInv, SkipMethod PROVE LoweringInv'
  OBVIOUS
<1>1. /\ stage = "paths" /\ at.path <= Len(doc.path) /\ NextOperation
      /\ PathAccepted(Path) /\ at.method \notin DOMAIN Path.operation
      /\ doc' = doc /\ stage' = stage /\ types' = types /\ schemaType' = schemaType
      /\ schemes' = schemes /\ rootSecurity' = rootSecurity /\ active' = active
      /\ endpoints' = endpoints
  BY DEF SkipMethod
<1>2. Covered(doc, endpoints, at')
  BY <1>1, NextCovered DEF LoweringInv
<1>3. Stages'
  <2>1. /\ at'.path \in 1..(Len(doc.path) + 1) /\ at'.method \in Method
        /\ at' = [path |-> at'.path, method |-> at'.method]
        /\ at'.path = Len(doc.path) + 1 => at'.method = "get"
    BY <1>1, NextBefore
  <2> QED  BY <1>1, <2>1 DEF Stages
<1>4. Keys'
  BY <1>1 DEF LoweringInv, Keys
<1> QED  BY <1>1, <1>2, <1>3, <1>4 DEF LoweringInv

LEMMA FinishStep == LoweringInv /\ Finish => LoweringInv'
<1> SUFFICES ASSUME LoweringInv, Finish PROVE LoweringInv'
  OBVIOUS
<1>1. /\ stage = "paths" /\ at.path > Len(doc.path) /\ stage' \in {"refused", "lowered"}
      /\ doc' = doc /\ at' = at /\ types' = types /\ schemaType' = schemaType
      /\ schemes' = schemes /\ rootSecurity' = rootSecurity /\ active' = active
      /\ endpoints' = endpoints
  BY DEF Finish
<1>2. Stages'
  BY <1>1 DEF LoweringInv, Stages
<1>3. Keys'
  BY <1>1 DEF LoweringInv, Keys
<1> QED  BY <1>1, <1>2, <1>3 DEF LoweringInv

-----------------------------------------------------------------------------
\* What parse_operation adds: resolve_body_schema finds or adds the schema's
\* type, and activate_auth keeps the key of the endpoints before.
LEMMA ResolvedType ==
  ASSUME NEW d, NEW ts, TypesSoFar(d, ts, schemaType),
         DOMAIN schemaType \subseteq DOMAIN d.schema,
         NEW schema, SchemaAccepted(schema), NEW name
  PROVE  LET more == InlineType(schema, name)
         IN  /\ TypesSoFar(d, ts \o more, schemaType)
             /\ Len(ts) \in Nat /\ Len(more) \in Nat /\ Len(ts \o more) = Len(ts) + Len(more)
             /\ TypeOf(d, ts \o more,
                       IF schema.ref # Absent THEN schemaType[schema.ref] ELSE Len(ts) + 1, schema)
             /\ \A id, other : TypeOf(d, ts, id, other) => TypeOf(d, ts \o more, id, other)
             /\ \A e : Fits(d, ts, e) => Fits(d, ts \o more, e)
<1> DEFINE more == InlineType(schema, name)
           id == IF schema.ref # Absent THEN schemaType[schema.ref] ELSE Len(ts) + 1
<1>1. /\ IsSeq(more)
      /\ \A i \in 1..Len(more) : \E s : Lowerable(s) /\ more[i].field = Fields(s)
      /\ schema.ref = Absent => /\ Len(more) = 1 /\ more[1].field = Fields(schema)
                                /\ Lowerable(schema)
  <2>1. CASE schema.ref # Absent
    <3>1. more = <<>> /\ Len(more) = 0
      BY <2>1 DEF InlineType
    <3>2. more = [i \in 1..Len(more) |-> more[i]]
      BY <3>1
    <3> QED  BY <2>1, <3>1, <3>2 DEF IsSeq
  <2>2. CASE schema.ref = Absent
    <3>1. PICK struct : struct = Struct(name, schema)
      OBVIOUS
    <3>2. more = <<struct>> /\ Len(more) = 1 /\ more[1] = struct
      BY <2>2, <3>1 DEF InlineType
    <3>3. more = [i \in 1..Len(more) |-> more[i]]
      BY <3>2
    <3>4. struct.field = Fields(schema) /\ Lowerable(schema)
      BY <2>2, <3>1 DEF Struct, SchemaAccepted
    <3> QED  BY <3>2, <3>3, <3>4 DEF IsSeq
  <2> QED  BY <2>1, <2>2
<1> HIDE DEF more
<1>2. /\ TypesSoFar(d, ts \o more, schemaType)
      /\ Len(ts) \in Nat /\ Len(more) \in Nat /\ Len(ts \o more) = Len(ts) + Len(more)
      /\ \A i \in 1..Len(more) : (ts \o more)[Len(ts) + i] = more[i]
      /\ \A n, other : TypeOf(d, ts, n, other) => TypeOf(d, ts \o more, n, other)
      /\ \A e : Fits(d, ts, e) => Fits(d, ts \o more, e)
  BY <1>1, TypesGrow
<1>3. CASE schema.ref # Absent
  <2>1. PICK t : t = schema.ref /\ t \in DOMAIN schemaType
    BY <1>3 DEF SchemaAccepted
  <2>2. MadeOf(ts, schemaType[t], d.schema[t])
    BY <2>1 DEF TypesSoFar
  <2>3. Target(d, schema) = d.schema[t]
    BY <1>3, <2>1 DEF Target
  <2>4. TypeOf(d, ts, schemaType[t], schema)
    BY <2>2, <2>3 DEF TypeOf
  <2>5. TypeOf(d, ts \o more, id, schema)
    BY <1>2, <1>3, <2>1, <2>4
  <2> QED  BY <1>2, <2>5 DEF more
<1>4. CASE schema.ref = Absent
  <2>1. PICK all : all = ts \o more
    OBVIOUS
  <2>2. Len(all) = Len(ts) + 1 /\ all[Len(ts) + 1] = more[1] /\ Len(ts) >= 3 /\ id = Len(ts) + 1
    <3>1. Len(more) = 1 /\ 1 \in 1..Len(more)
      BY <1>1, <1>4
    <3>2. Len(ts) >= 3
      BY DEF TypesSoFar
    <3>3. id = Len(ts) + 1
      BY <1>1, <1>4
    <3>4. Len(all) = Len(ts) + Len(more) /\ all[Len(ts) + 1] = more[1]
      BY <1>2, <2>1, <3>1
    <3> QED  BY <3>1, <3>2, <3>3, <3>4
  <2>3. TypeOf(d, all, id, schema)
    BY <1>1, <1>2, <1>4, <2>2 DEF TypeOf, MadeOf, Target
  <2> QED  BY <1>2, <2>1, <2>3 DEF more
<1> QED  BY <1>3, <1>4

LEMMA KeyInUse ==
  ASSUME LoweringInv, stage = "paths", NEW op, IsSecurity(op.security), AuthAccepted(op),
         NEW key, key = IF Security(op) \in {Absent, ""} THEN active ELSE Security(op)
  PROVE  /\ key \in schemes \cup {Absent}
         /\ \A e : Calls(doc, active, e) => Calls(doc, key, e)
         /\ \A e : OperationOf(doc, e) = op /\ e.authenticated = (Security(op) \notin {Absent, ""})
                     => Calls(doc, key, e)
<1>1. /\ doc \in Description /\ Keys /\ IsSecurity(doc.security)
      /\ doc.scheme # Absent => DOMAIN doc.scheme \subseteq SchemeName
  BY DescriptionAssumption DEF LoweringInv
<1>2. /\ key \in schemes \cup {Absent}
      /\ active # Absent => key = active
      /\ Security(op) \notin {Absent, ""} => key = Security(op) /\ key \in schemes
  BY <1>1 DEF AuthAccepted, Keys
<1>3. ASSUME NEW e, Calls(doc, active, e) PROVE Calls(doc, key, e)
  BY <1>2, <1>3 DEF Calls
<1>4. ASSUME NEW e, OperationOf(doc, e) = op, e.authenticated = (Security(op) \notin {Absent, ""})
      PROVE  Calls(doc, key, e)
  <2>1. e.authenticated \in BOOLEAN /\ (e.authenticated <=> Security(op) \notin {Absent, ""})
    BY <1>4
  <2>2. e.authenticated => key # Absent
    BY <1>2, <2>1
  <2>3. ASSUME doc.scheme # Absent
        PROVE  IF e.authenticated
               THEN Asks(doc, e) # Absent /\ {key} \in Range(Asks(doc, e)) /\ doc.scheme[key] = "header"
               ELSE Asks(doc, e) \in {Absent, <<>>} \/ {} \in Range(Asks(doc, e))
    <3>1. PICK asks : asks = Asks(doc, e)
      OBVIOUS
    <3>2. IsSecurity(asks) /\ ~Combined(asks) /\ Security(op) = Requirement(asks)
      <4>1. CASE op.security = Absent
        BY <1>1, <1>4, <2>3, <3>1, <4>1 DEF Asks, Security, Keys
      <4>2. CASE op.security # Absent
        BY <1>4, <3>1, <4>2 DEF Asks, Security, AuthAccepted
      <4> QED  BY <4>1, <4>2
    <3>3. CASE e.authenticated
      <4>1. key = Requirement(asks) /\ key \in schemes
        BY <1>2, <2>1, <3>2, <3>3
      <4>2. key \in SchemeName /\ doc.scheme[key] = "header"
        BY <1>1, <2>3, <4>1 DEF Keys
      <4> QED  BY <3>1, <3>2, <3>3, <4>1, <4>2, RequirementNamed
    <3>4. CASE ~e.authenticated
      <4>1. Requirement(asks) \in {Absent, ""}
        BY <2>1, <3>2, <3>4
      <4> QED  BY <3>1, <3>2, <3>4, <4>1, RequirementNamed
    <3> QED  BY <3>3, <3>4
  <2> QED  BY <2>1, <2>2, <2>3 DEF Calls
<1> QED  BY <1>2, <1>3, <1>4

LEMMA OperationStep == LoweringInv /\ ParseOperation => LoweringInv'
<1> SUFFICES ASSUME LoweringInv, ParseOperation, ~Refuse PROVE LoweringInv'
  BY RefuseStep
<1> DEFINE op == Path.operation[at.method]
           response == op.response[Status(op)]
           request == IF op.body = Absent THEN <<>> ELSE InlineType(op.body.schema, "request")
           made == [path          |-> at.path,
                    method        |-> at.method,
                    parameter     |-> Parameters(Path, op),
                    body          |-> IF op.body = Absent THEN Absent
                                      ELSE [type     |-> Resolved(op.body.schema, 0),
                                            required |-> op.body.required],
                    response      |-> [status |-> Status(op),
                                       type   |-> Resolved(response, Len(request))],
                    authenticated |-> Security(op) \notin {Absent, ""}]
<1>1. /\ stage = "paths" /\ at.path <= Len(doc.path)
      /\ PathAccepted(Path) /\ at.method \in DOMAIN Path.operation
      /\ Accepted(op)
      /\ types' = types \o request \o InlineType(response, "response")
      /\ active' = IF Security(op) \in {Absent, ""} THEN active ELSE Security(op)
      /\ endpoints' = Append(endpoints, made)
      /\ NextOperation
      /\ doc' = doc /\ stage' = stage /\ schemaType' = schemaType /\ schemes' = schemes
      /\ rootSecurity' = rootSecurity
  BY DEF ParseOperation
<1>2. /\ doc \in Description /\ TypesSoFar(doc, types, schemaType) /\ IsSeq(endpoints)
      /\ at.path \in DOMAIN doc.path /\ at.method \in Method /\ Path = doc.path[at.path]
      /\ DOMAIN schemaType \subseteq DOMAIN doc.schema
  BY <1>1, NextBefore DEF LoweringInv, Stages, TypesSoFar, Path
<1>3. IsOperation(op)
  BY <1>1, <1>2, DescriptionAssumption
<1>4. PICK e : e = made
  OBVIOUS
<1>5. /\ e.path = at.path /\ e.method = at.method /\ e.parameter = Parameters(Path, op)
      /\ op.body = Absent => e.body = Absent
      /\ op.body # Absent => e.body = [type |-> Resolved(op.body.schema, 0), required |-> op.body.required]
      /\ e.response.status = Status(op) /\ e.response.type = Resolved(response, Len(request))
      /\ e.authenticated = (Security(op) \notin {Absent, ""})
      /\ endpoints' = Append(endpoints, e)
  BY <1>1, <1>4
<1>6. OperationOf(doc, e) = op
  BY <1>2, <1>5 DEF OperationOf
<1> HIDE DEF made
<1> DEFINE ts == types \o request
           all == ts \o InlineType(response, "response")
<1>7. /\ TypesSoFar(doc, ts, schemaType)
      /\ Len(types) \in Nat /\ Len(request) \in Nat /\ Len(ts) = Len(types) + Len(request)
      /\ op.body # Absent => TypeOf(doc, ts, Resolved(op.body.schema, 0), op.body.schema)
      /\ \A o : Fits(doc, types, o) => Fits(doc, ts, o)
  <2>1. CASE op.body = Absent
    <3>1. request = <<>> /\ IsSeq(request) /\ Len(request) = 0
      <4>1. PICK none : none = <<>> /\ none = request
        BY <2>1
      <4>2. Len(none) = 0 /\ none = [i \in 1..Len(none) |-> none[i]]
        BY <4>1
      <4> QED  BY <4>1, <4>2 DEF IsSeq
    <3> HIDE DEF request
    <3> QED  BY <1>2, <2>1, <3>1, TypesGrow
  <2>2. CASE op.body # Absent
    <3>1. request = InlineType(op.body.schema, "request")
      BY <2>2
    <3> HIDE DEF request, op
    <3>2. SchemaAccepted(op.body.schema)
      BY <1>1, <2>2 DEF Accepted, BodyAccepted
    <3>3. PICK schema : schema = op.body.schema
      OBVIOUS
    <3>4. /\ TypesSoFar(doc, ts, schemaType)
          /\ Len(types) \in Nat /\ Len(request) \in Nat /\ Len(ts) = Len(types) + Len(request)
          /\ TypeOf(doc, ts, IF schema.ref # Absent THEN schemaType[schema.ref] ELSE Len(types) + 1, schema)
          /\ \A o : Fits(doc, types, o) => Fits(doc, ts, o)
      BY <1>2, <3>1, <3>2, <3>3, ResolvedType
    <3>5. Resolved(schema, 0) = IF schema.ref # Absent THEN schemaType[schema.ref] ELSE Len(types) + 1
      BY <3>4 DEF Resolved
    <3> QED  BY <3>3, <3>4, <3>5
  <2> QED  BY <2>1, <2>2
<1>8. SchemaAccepted(response) /\ Successful(op) # {}
  BY <1>1 DEF Accepted, ResponseAccepted
<1>9. /\ TypesSoFar(doc, all, schemaType)
      /\ TypeOf(doc, all, Resolved(response, Len(request)), response)
      /\ \A id, schema : TypeOf(doc, ts, id, schema) => TypeOf(doc, all, id, schema)
      /\ \A o : Fits(doc, ts, o) => Fits(doc, all, o)
  <2>1. PICK schema : schema = response
    OBVIOUS
  <2>2. Resolved(schema, Len(request)) = IF schema.ref # Absent THEN schemaType[schema.ref] ELSE Len(ts) + 1
    BY <1>7 DEF Resolved
  <2> HIDE DEF ts, request, response, op
  <2> QED  BY <1>2, <1>7, <1>8, <2>1, <2>2, ResolvedType
<1>10. types' = all
  BY <1>1
<1>11. Fits(doc, all, e)
  <2>1. op.body # Absent => /\ e.body = [type |-> e.body.type, required |-> op.body.required]
                            /\ TypeOf(doc, all, e.body.type, op.body.schema)
    <3> HIDE DEF op, all, ts
    <3>1. ASSUME op.body # Absent
          PROVE  /\ e.body = [type |-> e.body.type, required |-> op.body.required]
                 /\ TypeOf(doc, all, e.body.type, op.body.schema)
      <4>1. e.body.type = Resolved(op.body.schema, 0)
        <5>1. PICK id, flag : id = Resolved(op.body.schema, 0) /\ flag = op.body.required
          OBVIOUS
        <5>2. e.body = [type |-> id, required |-> flag]
          BY <1>5, <3>1, <5>1
        <5> QED  BY ONLY <5>1, <5>2
      <4> QED  BY <1>5, <1>7, <1>9, <3>1, <4>1
    <3> QED  BY <3>1
  <2>2. ParametersAccepted(Path, op) /\ TemplateMatches(Path, op)
    BY <1>1 DEF Accepted
  <2>3. PICK path, o : path = doc.path[e.path] /\ o = OperationOf(doc, e)
    OBVIOUS
  <2>4. path = Path /\ o = op
    BY <1>2, <1>5, <1>6, <2>3
  <2> HIDE DEF all, ts, request
  <2> QED  BY <1>1, <1>2, <1>5, <1>8, <1>9, <2>1, <2>2, <2>3, <2>4 DEF Fits
<1> HIDE DEF all, ts, request, op
<1>12. /\ active' \in schemes \cup {Absent}
       /\ \A o : Calls(doc, active, o) => Calls(doc, active', o)
       /\ Calls(doc, active', e)
  <2>1. IsSecurity(op.security) /\ AuthAccepted(op)
    BY <1>1, <1>3 DEF IsOperation, Accepted
  <2>2. PICK key : key = active'
    OBVIOUS
  <2>3. key = IF Security(op) \in {Absent, ""} THEN active ELSE Security(op)
    BY <1>1, <2>2
  <2> QED  BY <1>1, <1>5, <1>6, <2>1, <2>2, <2>3, KeyInUse
<1>13. PICK n \in Nat : n = Len(endpoints)
  BY <1>2 DEF IsSeq
<1>14. /\ IsSeq(endpoints') /\ DOMAIN endpoints' = 1..(n + 1) /\ DOMAIN endpoints = 1..n
       /\ \A j \in 1..n : endpoints'[j] = endpoints[j]
       /\ endpoints'[n + 1] = e
  <2>1. PICK es : es = endpoints'
    OBVIOUS
  <2>2. es = Append(endpoints, e) /\ IsSeq(endpoints)
    BY <1>2, <1>5, <2>1
  <2>3. /\ IsSeq(es) /\ DOMAIN es = 1..(n + 1) /\ DOMAIN endpoints = 1..n
        /\ \A j \in 1..n : es[j] = endpoints[j]
        /\ es[n + 1] = e
    BY ONLY <1>13, <2>2, Appended
  <2> QED  BY <2>1, <2>3
<1>15. ASSUME NEW j \in DOMAIN endpoints'
       PROVE  Fits(doc, all, endpoints'[j]) /\ Calls(doc, active', endpoints'[j])
  <2>1. CASE j \in 1..n
    BY <1>7, <1>9, <1>12, <1>14, <2>1 DEF LoweringInv
  <2>2. CASE j = n + 1
    BY <1>11, <1>12, <1>14, <2>2
  <2> QED  BY <1>14, <2>1, <2>2
<1>16. Covered(doc, endpoints', at')
  <2>1. PICK es : es = endpoints'
    OBVIOUS
  <2>2. IsSeq(es) /\ es = Append(endpoints, e) /\ e.path = at.path /\ e.method = at.method
    BY <1>5, <1>14, <2>1
  <2> QED  BY <1>1, <2>1, <2>2, NextCovered
<1>17. Stages'
  <2>1. /\ at'.path \in 1..(Len(doc.path) + 1) /\ at'.method \in Method
        /\ at' = [path |-> at'.path, method |-> at'.method]
        /\ at'.path = Len(doc.path) + 1 => at'.method = "get"
    BY <1>1, NextBefore
  <2> QED  BY <1>1, <2>1 DEF Stages
<1>18. Keys'
  BY <1>1, <1>12 DEF LoweringInv, Keys
<1> QED  BY <1>1, <1>2, <1>9, <1>10, <1>14, <1>15, <1>16, <1>17, <1>18 DEF LoweringInv

-----------------------------------------------------------------------------
\* Every step of the pass keeps the invariant.
THEOREM LoweringInvNext == LoweringInv /\ [Next]_vars => LoweringInv'
<1> SUFFICES ASSUME LoweringInv, [Next]_vars PROVE LoweringInv'
  OBVIOUS
<1>1. CASE ParseComponents
  BY <1>1, ComponentsStep
<1>2. CASE ParseSecuritySchemes
  BY <1>2, SecurityStep
<1>3. CASE RefusePath
  BY <1>3, RefuseStep DEF RefusePath
<1>4. CASE SkipMethod
  BY <1>4, SkipStep
<1>5. CASE ParseOperation
  BY <1>5, OperationStep
<1>6. CASE Finish
  BY <1>6, FinishStep
<1>7. CASE UNCHANGED vars
  <2>1. /\ stage' = stage /\ doc' = doc /\ at' = at /\ types' = types /\ schemaType' = schemaType
        /\ schemes' = schemes /\ rootSecurity' = rootSecurity /\ active' = active
        /\ endpoints' = endpoints
    BY <1>7 DEF vars
  <2>2. Stages'
    BY <2>1 DEF LoweringInv, Stages
  <2>3. Keys'
    BY <2>1 DEF LoweringInv, Keys
  <2> QED  BY <2>1, <2>2, <2>3 DEF LoweringInv
<1> QED  BY <1>1, <1>2, <1>3, <1>4, <1>5, <1>6, <1>7 DEF Next

THEOREM LoweringInvAlways == Spec => []LoweringInv
<1> QED  BY InitEstablishes, LoweringInvNext, PTL DEF Spec

\* What an endpoint of the module, and the types that it names, are made of.
LEMMA EndpointMeans ==
  ASSUME LoweringInv, NEW e \in Range(endpoints)
  PROVE  /\ Fits(doc, types, e) /\ Calls(doc, active, e)
         /\ Operation(e) = OperationOf(doc, e) /\ IsOperation(Operation(e))
         /\ doc.path[e.path].parameters \in Seq(Parameter)
         /\ Operation(e).parameters \in Seq(Parameter)
<1>1. Fits(doc, types, e) /\ Calls(doc, active, e)
  BY DEF LoweringInv, Range
<1>2. doc \in Description /\ e.path \in DOMAIN doc.path
      /\ e.method \in DOMAIN doc.path[e.path].operation
  BY <1>1 DEF LoweringInv, Fits
<1>3. Operation(e) = OperationOf(doc, e)
  BY DEF Operation, OperationOf
<1>4. IsOperation(Operation(e)) /\ doc.path[e.path].parameters \in Seq(Parameter)
  BY <1>2, DescriptionAssumption DEF Operation
<1> QED  BY <1>1, <1>3, <1>4 DEF IsOperation

\* Every id of the module is one of its types: those of a component, of a field, of
\* a parameter, of a body; and the key in use is one of the schemes.
THEOREM TypeCorrect == Spec => []TypeOK
<1>1. ASSUME LoweringInv PROVE TypeOK
  <2>1. ASSUME NEW t \in DOMAIN schemaType PROVE schemaType[t] \in 4..Len(types)
    BY <1>1 DEF LoweringInv, TypesSoFar, MadeOf
  <2>2. \A i \in 4..Len(types) : \A f \in DOMAIN types[i].field : types[i].field[f].type \in 1..3
    BY <1>1 DEF LoweringInv, TypesSoFar
  <2>3. ASSUME NEW e \in Range(endpoints)
        PROVE  /\ \A k \in DOMAIN e.parameter : e.parameter[k].type \in 1..3
               /\ {e.response.type} \cup (IF e.body = Absent THEN {} ELSE {e.body.type})
                    \subseteq 4..Len(types)
    <3>1. PICK path, op : path = doc.path[e.path] /\ op = Operation(e)
      OBVIOUS
    <3>2. /\ Fits(doc, types, e) /\ op = OperationOf(doc, e)
          /\ path.parameters \in Seq(Parameter) /\ op.parameters \in Seq(Parameter)
      BY <1>1, <3>1, EndpointMeans
    <3>3. /\ ParametersAccepted(path, op) /\ TemplateMatches(path, op)
          /\ e.parameter = Parameters(path, op)
          /\ op.body = Absent => e.body = Absent
          /\ op.body # Absent => e.body.type \in 4..Len(types)
          /\ e.response.type \in 4..Len(types)
      BY <3>1, <3>2 DEF Fits, TypeOf, MadeOf
    <3>4. AsDeclared(path, op, e.parameter)
      BY <3>2, <3>3, ParametersMean
    <3> QED  BY <3>3, <3>4 DEF AsDeclared
  <2> QED  BY <1>1, <2>1, <2>2, <2>3 DEF TypeOK, LoweringInv, Stages, Keys
<1> QED  BY <1>1, LoweringInvAlways, PTL

\* No endpoint calls in a way that its operation, or else the description, does not
\* allow, as long as the description lists its schemes (activate_auth).
THEOREM AuthIsAllowed == Spec => []AuthAllowed
<1>1. ASSUME LoweringInv PROVE AuthAllowed
  <2>1. ASSUME doc.scheme # Absent, NEW e \in Range(endpoints) PROVE Allowed(e)
    <3>1. Calls(doc, active, e) /\ Operation(e) = OperationOf(doc, e)
      BY <1>1, EndpointMeans
    <3> QED  BY <2>1, <3>1 DEF Calls, Asks, Allowed
  <2> QED  BY <2>1 DEF AuthAllowed
<1> QED  BY <1>1, LoweringInvAlways, PTL

\* An endpoint has every declared parameter once, as the operation declares it or
\* else its path item, and those of the path are the names of the template.
THEOREM ParametersDescribed == Spec => []ParametersAsDescribed
<1>1. ASSUME LoweringInv PROVE ParametersAsDescribed
  <2>1. ASSUME NEW e \in Range(endpoints)
        PROVE  LET path == doc.path[e.path]
                   own  == Operation(e).parameters
               IN  /\ DOMAIN e.parameter = {Location(p) : p \in Range(path.parameters \o own)}
                   /\ \A k \in DOMAIN e.parameter :
                        LET declared == LastAt(IF \E p \in Range(own) : Location(p) = k THEN own
                                               ELSE path.parameters, k)
                        IN  /\ types[e.parameter[k].type].name = declared.type
                            /\ e.parameter[k].required <=> declared.required = TRUE \/ declared.in = "path"
                   /\ \A n \in path.template : e.parameter[<<"path", n>>].required
                   /\ \A k \in DOMAIN e.parameter : k[1] = "path" => k[2] \in path.template
    <3>1. PICK path, op : path = doc.path[e.path] /\ op = Operation(e)
      OBVIOUS
    <3>2. /\ Fits(doc, types, e) /\ op = OperationOf(doc, e)
          /\ path.parameters \in Seq(Parameter) /\ op.parameters \in Seq(Parameter)
      BY <1>1, <3>1, EndpointMeans
    <3>3. /\ ParametersAccepted(path, op) /\ TemplateMatches(path, op)
          /\ e.parameter = Parameters(path, op)
      BY <3>1, <3>2 DEF Fits
    <3>4. \A i \in 1..3 : types[i] = PrimitiveTypes[i]
      BY <1>1 DEF LoweringInv, TypesSoFar
    <3>5. AsDeclared(path, op, e.parameter)
      BY <3>2, <3>3, ParametersMean
    <3> QED  BY <3>1, <3>4, <3>5 DEF AsDeclared
  <2> QED  BY <2>1 DEF ParametersAsDescribed
<1> QED  BY <1>1, LoweringInvAlways, PTL

\* A type that a schema was lowered to has the schema's fields.
LEMMA TypeMeans ==
  ASSUME LoweringInv, NEW id, NEW schema, TypeOf(doc, types, id, schema)
  PROVE  Means(id, schema)
<1>1. PICK object : object = Target(doc, schema)
  OBVIOUS
<1>2. Lowerable(object) /\ types[id].field = Fields(object)
  BY <1>1 DEF TypeOf, MadeOf
<1>3. \A i \in 1..3 : types[i] = PrimitiveTypes[i]
  BY DEF LoweringInv, TypesSoFar
<1>4. /\ DOMAIN types[id].field = DOMAIN object.property
      /\ \A f \in DOMAIN object.property :
           /\ types[types[id].field[f].type].name = object.property[f]
           /\ types[id].field[f].required <=> f \in object.required
  BY <1>2, <1>3, FieldsTyped
<1> QED  BY <1>1, <1>4 DEF Means, Target

\* A finished module has one endpoint for each GET and POST operation of the
\* description; its bodies have the described fields, its status is the lowest 2xx.
THEOREM EndpointsDescribed == Spec => []EndpointsAsDescribed
<1>1. ASSUME LoweringInv, stage = "lowered" PROVE EndpointsAsDescribed
  <2>1. /\ doc \in Description /\ Len(doc.path) \in Nat /\ DOMAIN doc.path = 1..Len(doc.path)
        /\ at.path > Len(doc.path) /\ at.path \in Nat
    BY <1>1, DescriptionAssumption DEF LoweringInv, Stages
  <2>2. \A i \in DOMAIN doc.path : \A m : Before(i, m, at)
    BY <2>1 DEF Before
  <2>3. Covered(doc, endpoints, at)
    BY <1>1 DEF LoweringInv
  <2>4. ASSUME NEW i \in DOMAIN doc.path
        PROVE  DOMAIN doc.path[i].operation \cap Refusable = {}
    BY <2>2, <2>3 DEF Covered
  <2>5. ASSUME NEW i \in DOMAIN doc.path, NEW m \in Method \cap DOMAIN doc.path[i].operation
        PROVE  Cardinality({j \in DOMAIN endpoints : endpoints[j].path = i /\ endpoints[j].method = m}) = 1
    <3> DEFINE Its == {j \in DOMAIN endpoints : endpoints[j].path = i /\ endpoints[j].method = m}
    <3>1. PICK j \in Its : TRUE
      BY <2>2, <2>3 DEF Covered
    <3>2. \A k \in Its : k = j
      BY <2>3, <3>1 DEF Covered
    <3>3. Its = {j}
      BY <3>1, <3>2
    <3> QED  BY <3>3, FS_Singleton
  <2>6. ASSUME NEW e \in Range(endpoints)
        PROVE  LET op == Operation(e)
               IN  /\ (e.body = Absent) = (op.body = Absent)
                   /\ e.body # Absent => /\ Means(e.body.type, op.body.schema)
                                         /\ e.body.required = op.body.required
                   /\ e.response.status \in 200..299
                   /\ \A c \in DOMAIN op.response : c \in 200..299 => e.response.status <= c
                   /\ Means(e.response.type, op.response[e.response.status])
    <3>1. PICK op : op = Operation(e)
      OBVIOUS
    <3>2. Fits(doc, types, e) /\ op = OperationOf(doc, e) /\ IsOperation(op)
      BY <1>1, <3>1, EndpointMeans
    <3>3. op.body = Absent => e.body = Absent
      BY <3>2 DEF Fits
    <3>4. ASSUME op.body # Absent
          PROVE  /\ e.body # Absent /\ Means(e.body.type, op.body.schema)
                 /\ e.body.required = op.body.required
      <4>1. PICK id, flag : id = e.body.type /\ flag = op.body.required
        OBVIOUS
      <4>2. e.body = [type |-> id, required |-> flag] /\ TypeOf(doc, types, id, op.body.schema)
        BY <3>2, <3>4, <4>1 DEF Fits
      <4>3. id \in Nat /\ flag \in BOOLEAN
        BY <3>2, <3>4, <4>1, <4>2 DEF TypeOf, MadeOf, IsOperation
      <4>4. e.body \in [type : Nat, required : BOOLEAN]
        BY <4>2, <4>3
      <4>5. e.body # Absent
        BY <4>4, NameAssumption
      <4>6. e.body.required = flag
        BY ONLY <4>2
      <4> QED  BY <1>1, <4>1, <4>2, <4>5, <4>6, TypeMeans
    <3>5. /\ Successful(op) # {} /\ e.response.status = Status(op)
          /\ TypeOf(doc, types, e.response.type, op.response[Status(op)])
      BY <3>2 DEF Fits
    <3>6. Status(op) \in Successful(op) /\ \A o \in Successful(op) : Status(op) <= o
      <4>1. Successful(op) \subseteq Nat
        BY DEF Successful
      <4>2. \E c \in Successful(op) : \A o \in Successful(op) : c <= o
        BY <3>5, <4>1, LeastElement
      <4> QED  BY <4>2 DEF Status
    <3>7. Means(e.response.type, op.response[e.response.status])
      BY <1>1, <3>5, TypeMeans
    <3> QED  BY <3>1, <3>3, <3>4, <3>5, <3>6, <3>7 DEF Successful
  <2> QED  BY <2>4, <2>5, <2>6 DEF EndpointsAsDescribed
<1>2. LoweringInv => EndpointsAsDescribed
  BY <1>1 DEF EndpointsAsDescribed
<1> QED  BY <1>2, LoweringInvAlways, PTL

-----------------------------------------------------------------------------
(***************************************************************************)
(* Names.  The n-th claim of an identifier in its scope; the first is the  *)
(* identifier itself.                                                      *)
(***************************************************************************)
Nth(base, n) == IF n = 1 THEN base ELSE Append(base, Numeral(n))

\* What the claims `given` of one scope are, where `taken` was claimed before
\* them: of each identifier some of the first `scope[base]`, each once.
Claims(scope, given, taken) ==
  /\ IsSeq(given)
  /\ taken \subseteq DOMAIN scope
  /\ \A b \in DOMAIN scope : scope[b] \in 1..(Len(given) + 1)
  /\ \A i \in 1..Len(given) :
       /\ given[i].source \in Source
       /\ Canonical(given[i].source) \in DOMAIN scope
       /\ \E n \in 1..scope[Canonical(given[i].source)] :
            /\ given[i].name = Nth(Canonical(given[i].source), n)
            /\ Canonical(given[i].source) \in taken => n # 1
  /\ \A i, j \in 1..Len(given) :
       i # j /\ Canonical(given[i].source) = Canonical(given[j].source) =>
         given[i].name # given[j].name

NamesInv ==
  /\ Claims(typeScope, typeNames, Primitives)
  /\ Claims(endpointScope, endpointNames, ClientFunctions)
  /\ Claims(memberScope, memberNames, {})
  /\ Len(typeNames) + Len(endpointNames) <= MaxNames
  /\ Len(memberNames) <= MaxNames

\* Every identifier that canonicalization makes is legal.
LEMMA CanonicalLegal ==
  ASSUME NEW s \in Source
  PROVE  /\ Canonical(s) \in Seq(Word)
         /\ Canonical(s) # <<>>
         /\ Canonical(s) \notin Keyword
         /\ Canonical(s)[1] \notin DigitWord
<1> DEFINE named  == IF s.words = <<>> THEN <<"unnamed">> ELSE s.words
           letter == IF named[1] \in DigitWord THEN <<"n">> \o named ELSE named
<1>1. named \in Seq(Word) /\ named # <<>>
  BY SourceAssumption, WordAssumption
<1>2. letter \in Seq(Word) /\ letter # <<>> /\ letter[1] \notin DigitWord
  <2> HIDE DEF named
  <2>1. CASE named[1] \in DigitWord
    <3>1. <<"n">> \in Seq(Word) /\ Len(<<"n">>) = 1 /\ <<"n">>[1] = "n"
      BY WordAssumption
    <3>2. letter = <<"n">> \o named
      BY <2>1
    <3> HIDE DEF letter
    <3>3. letter \in Seq(Word) /\ letter[1] = "n" /\ Len(letter) > 0
      BY <1>1, <3>1, <3>2
    <3> QED  BY <3>3, WordAssumption
  <2>2. CASE named[1] \notin DigitWord
    BY <1>1, <2>2
  <2> QED  BY <2>1, <2>2
<1>3. Canonical(s) = IF letter \in Keyword THEN <<"sdk">> \o letter ELSE letter
  BY DEF Canonical
<1> HIDE DEF letter
<1>4. CASE letter \in Keyword
  <2>1. <<"sdk">> \in Seq(Word) /\ Len(<<"sdk">>) = 1 /\ <<"sdk">>[1] = "sdk"
    BY WordAssumption
  <2>2. Canonical(s) = <<"sdk">> \o letter
    BY <1>3, <1>4
  <2>3. Canonical(s) \in Seq(Word) /\ Canonical(s)[1] = "sdk" /\ Len(Canonical(s)) > 0
    BY <1>2, <2>1, <2>2
  <2> QED  BY <2>3, WordAssumption, KeywordAssumption
<1>5. CASE letter \notin Keyword
  BY <1>2, <1>3, <1>5
<1> QED  BY <1>4, <1>5

\* What a numbered claim looks like.
LEMMA NumberedForm ==
  ASSUME NEW base \in Seq(Word), NEW n \in 2..MaxClaims
  PROVE  /\ Nth(base, n) = Append(base, Numeral(n))
         /\ Nth(base, n) \in Seq(Word) /\ Len(Nth(base, n)) = Len(base) + 1
         /\ Nth(base, n)[Len(base) + 1] = Numeral(n)
         /\ \A i \in 1..Len(base) : Nth(base, n)[i] = base[i]
         /\ Numeral(n) \in DigitWord
<1>1. Numeral(n) \in DigitWord /\ Numeral(n) \in Word
  BY WordAssumption
<1>2. Nth(base, n) = Append(base, Numeral(n))
  BY DEF Nth
<1> QED  BY <1>1, <1>2

\* Two claims of one identifier have different names.
LEMMA NthDiffers ==
  ASSUME NEW base \in Seq(Word), NEW m \in 1..MaxClaims, NEW n \in 1..MaxClaims, m # n
  PROVE  Nth(base, m) # Nth(base, n)
<1>1. CASE m = 1
  <2>1. n \in 2..MaxClaims /\ Nth(base, m) = base
    BY <1>1, WordAssumption DEF Nth
  <2> QED  BY <2>1, NumberedForm
<1>2. CASE n = 1
  <2>1. m \in 2..MaxClaims /\ Nth(base, n) = base
    BY <1>2, WordAssumption DEF Nth
  <2> QED  BY <2>1, NumberedForm
<1>3. CASE m # 1 /\ n # 1
  <2>1. m \in 2..MaxClaims /\ n \in 2..MaxClaims
    BY <1>3, WordAssumption
  <2>2. Numeral(m) # Numeral(n)
    BY WordAssumption
  <2> QED  BY <2>1, <2>2, NumberedForm
<1> QED  BY <1>1, <1>2, <1>3

\* An identifier is claimed in its scope.
LEMMA ClaimKeeps ==
  ASSUME NEW scope, NEW given, NEW taken, Claims(scope, given, taken),
         NEW new, new.source \in Source,
         new.name = Claim(scope, Canonical(new.source)),
         Len(given) < MaxNames
  PROVE  /\ Claims(AfterClaim(scope, Canonical(new.source)), Append(given, new), taken)
         /\ Len(Append(given, new)) = Len(given) + 1
<1> DEFINE base   == Canonical(new.source)
           scope2 == AfterClaim(scope, base)
           given2 == Append(given, new)
           BaseOf(i) == Canonical(given2[i].source)
<1>1. Len(given) \in Nat /\ MaxNames \in Nat /\ MaxClaims \in Nat /\ Len(given) + 1 < MaxClaims
  BY SourceAssumption, WordAssumption DEF Claims, IsSeq
<1>2. /\ IsSeq(given2) /\ Len(given2) = Len(given) + 1
      /\ \A i \in 1..Len(given) : given2[i] = given[i]
      /\ given2[Len(given) + 1] = new
  BY Appended DEF Claims
<1>3. /\ DOMAIN scope2 = DOMAIN scope \cup {base}
      /\ \A b \in DOMAIN scope : b # base => scope2[b] = scope[b]
      /\ scope2[base] = IF base \in DOMAIN scope THEN scope[base] + 1 ELSE 1
  BY DEF AfterClaim, Claimed
<1>4. /\ base \in Seq(Word)
      /\ new.name = Nth(base, scope2[base])
      /\ base \in taken => scope2[base] # 1
      /\ scope2[base] \in 1..MaxClaims
  <2>1. CASE base \in DOMAIN scope
    <3>1. scope[base] \in 1..(Len(given) + 1)
      BY <2>1 DEF Claims
    <3> QED  BY <1>1, <1>3, <2>1, <3>1, CanonicalLegal DEF Claim, Nth
  <2>2. CASE base \notin DOMAIN scope
    BY <1>1, <1>3, <2>2, CanonicalLegal DEF Claim, Nth, Claims
  <2> QED  BY <2>1, <2>2
<1> HIDE DEF base, scope2, given2
<1>5. \A b \in DOMAIN scope2 : scope2[b] \in 1..(Len(given2) + 1)
  BY <1>1, <1>2, <1>3 DEF Claims
<1>6. ASSUME NEW i \in 1..Len(given)
      PROVE  /\ given2[i].source \in Source
             /\ BaseOf(i) \in DOMAIN scope /\ BaseOf(i) \in DOMAIN scope2
             /\ \E n \in 1..scope[BaseOf(i)] :
                  given2[i].name = Nth(BaseOf(i), n) /\ (BaseOf(i) \in taken => n # 1)
             /\ scope[BaseOf(i)] \in Nat /\ scope2[BaseOf(i)] \in Nat
             /\ scope[BaseOf(i)] <= scope2[BaseOf(i)]
  <2>1. given2[i] = given[i]
    BY <1>2
  <2>2. scope[BaseOf(i)] \in 1..(Len(given) + 1)
    BY <2>1 DEF Claims
  <2> QED  BY <1>1, <1>3, <2>1, <2>2 DEF Claims
<1>7. /\ given2[Len(given2)].source \in Source
      /\ BaseOf(Len(given2)) = base
      /\ given2[Len(given2)].name = Nth(base, scope2[base])
  BY <1>2, <1>4 DEF base
<1>8. ASSUME NEW i \in 1..Len(given2)
      PROVE  /\ given2[i].source \in Source
             /\ BaseOf(i) \in DOMAIN scope2
             /\ \E n \in 1..scope2[BaseOf(i)] :
                  given2[i].name = Nth(BaseOf(i), n) /\ (BaseOf(i) \in taken => n # 1)
  <2> HIDE DEF BaseOf
  <2>1. CASE i \in 1..Len(given)
    <3>1. PICK n \in 1..scope[BaseOf(i)] :
            given2[i].name = Nth(BaseOf(i), n) /\ (BaseOf(i) \in taken => n # 1)
      BY <1>6, <2>1
    <3>2. n \in 1..scope2[BaseOf(i)]
      BY <1>6, <2>1
    <3> QED  BY <1>6, <2>1, <3>1, <3>2
  <2>2. CASE i = Len(given2)
    <3>1. scope2[base] \in 1..scope2[base]
      BY <1>4
    <3> QED  BY <1>3, <1>4, <1>7, <2>2, <3>1
  <2> QED  BY <1>1, <1>2, <2>1, <2>2
<1>9. ASSUME NEW i \in 1..Len(given), BaseOf(i) = base
      PROVE  given2[i].name # Nth(base, scope2[base])
  <2> HIDE DEF BaseOf
  <2>1. PICK n \in 1..scope[base] : given2[i].name = Nth(base, n)
    BY <1>6, <1>9
  <2>2. base \in DOMAIN scope /\ scope[base] \in Nat
    BY <1>6, <1>9
  <2>3. n # scope2[base] /\ n \in 1..MaxClaims
    BY <1>1, <1>3, <1>4, <2>2
  <2> QED  BY <1>4, <2>1, <2>3, NthDiffers
<1>10. ASSUME NEW i \in 1..Len(given2), NEW j \in 1..Len(given2), i # j, BaseOf(i) = BaseOf(j)
       PROVE  given2[i].name # given2[j].name
  <2>1. CASE i \in 1..Len(given) /\ j \in 1..Len(given)
    BY <1>2, <1>10, <2>1 DEF Claims
  <2> HIDE DEF BaseOf
  <2>2. CASE i = Len(given2)
    BY <1>1, <1>2, <1>7, <1>9, <1>10, <2>2
  <2>3. CASE j = Len(given2)
    BY <1>1, <1>2, <1>7, <1>9, <1>10, <2>3
  <2> QED  BY <1>1, <1>2, <2>1, <2>2, <2>3
<1>11. taken \subseteq DOMAIN scope2
  BY <1>3 DEF Claims
<1>12. Claims(scope2, given2, taken)
  BY <1>2, <1>5, <1>8, <1>10, <1>11 DEF Claims
<1> QED  BY <1>2, <1>12 DEF base, scope2, given2

\* A new scope, in which `taken` was claimed beforehand.
LEMMA NothingClaimed ==
  /\ \A taken : Claims(Preclaimed(taken), <<>>, taken)
  /\ Claims(EmptyScope, <<>>, {})
  /\ Len(<<>>) = 0
<1>1. IsSeq(<<>>) /\ Len(<<>>) = 0
  BY DEF IsSeq
<1> QED  BY <1>1 DEF Claims, Preclaimed, EmptyScope

LEMMA NamesInvInit == NamesInit => NamesInv
  BY NothingClaimed, SourceAssumption DEF NamesInit, NamesInv

LEMMA NamesInvNext == NamesInv /\ [NextName]_nameVars => NamesInv'
<1> SUFFICES ASSUME NamesInv, [NextName]_nameVars PROVE NamesInv'
  OBVIOUS
<1>1. /\ Len(typeNames) \in Nat /\ Len(endpointNames) \in Nat /\ Len(memberNames) \in Nat
      /\ MaxNames \in Nat
  BY SourceAssumption DEF NamesInv, Claims, IsSeq
<1>2. CASE ClaimType
  <2>1. Claims(typeScope, typeNames, Primitives)' /\ Len(typeNames)' = Len(typeNames) + 1
    <3>1. PICK s \in Source :
            /\ typeNames' = Append(typeNames, [source |-> s, name |-> Claim(typeScope, Canonical(s))])
            /\ typeScope' = AfterClaim(typeScope, Canonical(s))
      BY <1>2 DEF ClaimType
    <3> DEFINE new == [source |-> s, name |-> Claim(typeScope, Canonical(s))]
    <3>2. new.source = s /\ new.name = Claim(typeScope, Canonical(s))
      OBVIOUS
    <3>3. typeNames' = Append(typeNames, new) /\ Len(typeNames) < MaxNames
      BY <1>1, <1>2, <3>1 DEF ClaimType
    <3> HIDE DEF new
    <3> QED  BY <3>1, <3>2, <3>3, ClaimKeeps DEF NamesInv
  <2> QED  BY <1>1, <1>2, <2>1, NothingClaimed DEF ClaimType, NamesInv
<1>3. CASE ClaimMember
  <2>1. Claims(memberScope, memberNames, {})' /\ Len(memberNames)' = Len(memberNames) + 1
    <3>1. PICK s \in Source, required \in BOOLEAN :
            /\ memberNames' = Append(memberNames,
                                     [source |-> s, required |-> required,
                                      name |-> Claim(memberScope, Canonical(s))])
            /\ memberScope' = AfterClaim(memberScope, Canonical(s))
      BY <1>3 DEF ClaimMember
    <3> DEFINE new == [source |-> s, required |-> required,
                       name |-> Claim(memberScope, Canonical(s))]
    <3>2. new.source = s /\ new.name = Claim(memberScope, Canonical(s))
      OBVIOUS
    <3>3. memberNames' = Append(memberNames, new) /\ Len(memberNames) < MaxNames
      BY <1>1, <1>3, <3>1 DEF ClaimMember
    <3> HIDE DEF new
    <3> QED  BY <3>1, <3>2, <3>3, ClaimKeeps DEF NamesInv
  <2> QED  BY <1>1, <1>3, <2>1 DEF ClaimMember, NamesInv
<1>4. CASE TypesDone
  BY <1>1, <1>4, NothingClaimed DEF TypesDone, NamesInv
<1>5. CASE ClaimEndpoint
  <2>1. /\ Claims(endpointScope, endpointNames, ClientFunctions)'
        /\ Len(endpointNames)' = Len(endpointNames) + 1
    <3>1. PICK s \in Source, body \in 0..Len(typeNames) :
            /\ endpointNames' = Append(endpointNames,
                                       [source |-> s, body |-> body,
                                        name |-> Claim(endpointScope, Canonical(s))])
            /\ endpointScope' = AfterClaim(endpointScope, Canonical(s))
      BY <1>5 DEF ClaimEndpoint
    <3> DEFINE new == [source |-> s, body |-> body,
                       name |-> Claim(endpointScope, Canonical(s))]
    <3>2. new.source = s /\ new.name = Claim(endpointScope, Canonical(s))
      OBVIOUS
    <3>3. endpointNames' = Append(endpointNames, new) /\ Len(endpointNames) < MaxNames
      BY <1>1, <1>5, <3>1 DEF ClaimEndpoint
    <3> HIDE DEF new
    <3> QED  BY <3>1, <3>2, <3>3, ClaimKeeps DEF NamesInv
  <2> QED  BY <1>1, <1>5, <2>1, NothingClaimed DEF ClaimEndpoint, NamesInv
<1>6. CASE UNCHANGED nameVars
  BY <1>6 DEF nameVars, NamesInv
<1> QED  BY <1>2, <1>3, <1>4, <1>5, <1>6 DEF NextName

LEMMA NamesInvAlways == NamesSpec => []NamesInv
  BY NamesInvInit, NamesInvNext, PTL DEF NamesSpec

\* A claim in some scope: which identifier it is of, and which of its claims.
LEMMA IsNth ==
  ASSUME NEW scope, NEW given, NEW taken, Claims(scope, given, taken), Len(given) <= MaxNames,
         NEW i \in DOMAIN given
  PROVE  /\ given[i].source \in Source
         /\ \E n \in 1..MaxClaims : /\ given[i].name = Nth(Canonical(given[i].source), n)
                                    /\ Canonical(given[i].source) \in taken => n # 1
<1> DEFINE base == Canonical(given[i].source)
<1>1. i \in 1..Len(given) /\ Len(given) \in Nat /\ DOMAIN given = 1..Len(given)
  BY DEF Claims, IsSeq
<1>2. scope[base] \in 1..(Len(given) + 1) /\ given[i].source \in Source
  BY <1>1 DEF Claims
<1>3. PICK n \in 1..scope[base] : given[i].name = Nth(base, n) /\ (base \in taken => n # 1)
  BY <1>1 DEF Claims
<1>4. n \in 1..MaxClaims
  BY <1>1, <1>2, SourceAssumption, WordAssumption
<1> QED  BY <1>2, <1>3, <1>4

\* The names of a scope that are given out are legal, and none was taken before.
LEMMA ClaimsLegal ==
  ASSUME NEW scope, NEW given, NEW taken, Claims(scope, given, taken), Len(given) <= MaxNames,
         \A t \in taken : t \in Seq(Word) /\ t # <<>> /\ t[Len(t)] \notin DigitWord,
         NEW i \in DOMAIN given
  PROVE  /\ given[i].name \notin Keyword
         /\ given[i].name[1] \notin DigitWord
         /\ given[i].name \notin taken
<1> DEFINE base == Canonical(given[i].source)
           name == given[i].name
<1>1. PICK n \in 1..MaxClaims : name = Nth(base, n) /\ (base \in taken => n # 1)
  BY IsNth
<1>2. base \in Seq(Word) /\ base # <<>> /\ base \notin Keyword /\ base[1] \notin DigitWord
  BY IsNth, CanonicalLegal
<1> HIDE DEF base, name
<1>3. CASE n = 1
  <2>1. name = base
    BY <1>1, <1>3 DEF Nth
  <2> QED  BY <1>1, <1>2, <1>3, <2>1 DEF name
<1>4. CASE n # 1
  <2>1. n \in 2..MaxClaims
    BY <1>4, WordAssumption
  <2>2. /\ name \in Seq(Word) /\ Len(name) = Len(base) + 1
        /\ name[Len(base) + 1] \in DigitWord
        /\ \A k \in 1..Len(base) : name[k] = base[k]
    BY <1>1, <1>2, <2>1, NumberedForm
  <2>3. 1 \in 1..Len(base)
    BY <1>2
  <2>4. name[Len(name)] \in DigitWord /\ name[1] = base[1] /\ name # <<>>
    BY <2>2, <2>3
  <2> QED  BY <1>2, <2>2, <2>4, KeywordAssumption DEF name
<1> QED  BY <1>3, <1>4

LEMMA TakenLegal ==
  \A t \in Primitives \cup ClientFunctions :
    t \in Seq(Word) /\ t # <<>> /\ t[Len(t)] \notin DigitWord
<1> USE SourceAssumption
<1>1. \A w \in {"string", "integer", "boolean"} :
        <<w>> \in Seq(Word) /\ Len(<<w>>) = 1 /\ <<w>>[1] \notin DigitWord
  OBVIOUS
<1>2. \A w \in {"create", "destroy"} :
        /\ <<"client", w>> \in Seq(Word) /\ Len(<<"client", w>>) = 2
        /\ <<"client", w>>[2] \notin DigitWord
  OBVIOUS
<1>3. ASSUME NEW t \in Primitives
      PROVE  t \in Seq(Word) /\ Len(t) = 1 /\ t[1] \notin DigitWord
  BY <1>1 DEF Primitives
<1>4. ASSUME NEW t \in ClientFunctions
      PROVE  t \in Seq(Word) /\ Len(t) = 2 /\ t[2] \notin DigitWord
  BY <1>2 DEF ClientFunctions
<1> QED  BY <1>3, <1>4

\* Whatever a description calls its things: no generated name is a keyword or
\* begins with a digit, none is a client function's or a primitive type's.
THEOREM NamesAreAllowed == NamesSpec => []NamesAllowed
<1>1. NamesInv => NamesAllowed
  <2> SUFFICES ASSUME NamesInv PROVE NamesAllowed
    OBVIOUS
  <2>1. Len(typeNames) <= MaxNames /\ Len(endpointNames) <= MaxNames /\ Len(memberNames) <= MaxNames
    <3>1. Len(typeNames) \in Nat /\ Len(endpointNames) \in Nat /\ MaxNames \in Nat
      BY SourceAssumption DEF NamesInv, Claims, IsSeq
    <3> QED  BY <3>1 DEF NamesInv
  <2>2. \A i \in DOMAIN typeNames : /\ typeNames[i].name \notin Keyword \cup Primitives
                                    /\ typeNames[i].name[1] \notin DigitWord
    BY <2>1, ClaimsLegal, TakenLegal DEF NamesInv
  <2>3. \A i \in DOMAIN endpointNames : /\ endpointNames[i].name \notin Keyword \cup ClientFunctions
                                        /\ endpointNames[i].name[1] \notin DigitWord
    BY <2>1, ClaimsLegal, TakenLegal DEF NamesInv
  <2>4. \A i \in DOMAIN memberNames : /\ memberNames[i].name \notin Keyword
                                      /\ memberNames[i].name[1] \notin DigitWord
    BY <2>1, ClaimsLegal DEF NamesInv
  <2> QED  BY <2>2, <2>3, <2>4 DEF NamesAllowed, NamesArePortable, PreclaimedNamesKept, Scopes
<1> QED  BY <1>1, NamesInvAlways, PTL

\* Two claims of one scope get the same name only if the identifier of one is
\* a numbered form of the other's.
LEMMA ClaimsCollide ==
  ASSUME NEW scope, NEW given, NEW taken, Claims(scope, given, taken), Len(given) <= MaxNames,
         NEW i \in DOMAIN given, NEW j \in DOMAIN given, i # j, given[i].name = given[j].name
  PROVE  \E n \in 2..MaxClaims :
           \/ Canonical(given[i].source) = Append(Canonical(given[j].source), Numeral(n))
           \/ Canonical(given[j].source) = Append(Canonical(given[i].source), Numeral(n))
<1> DEFINE a == Canonical(given[i].source)
           b == Canonical(given[j].source)
<1>1. a # b
  BY DEF Claims, IsSeq
<1>2. a \in Seq(Word) /\ b \in Seq(Word)
  BY IsNth, CanonicalLegal
<1>3. PICK m \in 1..MaxClaims : given[i].name = Nth(a, m)
  BY IsNth
<1>4. PICK n \in 1..MaxClaims : given[j].name = Nth(b, n)
  BY IsNth
<1> HIDE DEF a, b
<1>5. Nth(a, m) = Nth(b, n)
  BY <1>3, <1>4
<1>6. m # 1 \/ n # 1
  BY <1>1, <1>5 DEF Nth
<1>7. CASE m # 1 /\ n # 1
  <2>1. m \in 2..MaxClaims /\ n \in 2..MaxClaims
    BY <1>7, WordAssumption
  <2>2. Len(a) = Len(b) /\ \A k \in 1..Len(a) : a[k] = b[k]
    <3>1. /\ Len(Nth(a, m)) = Len(a) + 1 /\ Len(Nth(b, n)) = Len(b) + 1
          /\ \A k \in 1..Len(a) : Nth(a, m)[k] = a[k]
          /\ \A k \in 1..Len(b) : Nth(b, n)[k] = b[k]
      BY <1>2, <2>1, NumberedForm
    <3> QED  BY <1>2, <1>5, <3>1
  <2>3. a = b
    BY <1>2, <2>2
  <2> QED  BY <1>1, <2>3
<1>8. CASE m = 1 /\ n # 1
  <2>1. n \in 2..MaxClaims /\ a = Append(b, Numeral(n))
    BY <1>5, <1>8, WordAssumption DEF Nth
  <2> QED  BY <2>1 DEF a, b
<1>9. CASE m # 1 /\ n = 1
  <2>1. m \in 2..MaxClaims /\ b = Append(a, Numeral(m))
    BY <1>5, <1>9, WordAssumption DEF Nth
  <2> QED  BY <2>1 DEF a, b
<1> QED  BY <1>6, <1>7, <1>8, <1>9

\* Names of one scope that differ in more than what canonicalization drops are
\* the same only when one looked like a numbered form of the other.
THEOREM OnlyNumberedCollide == NamesSpec => []CollisionsAreNumbered
<1>1. NamesInv => CollisionsAreNumbered
  <2> SUFFICES ASSUME NamesInv,
                      NEW given \in Scopes, NEW i \in DOMAIN given, NEW j \in DOMAIN given,
                      i # j, given[i].name = given[j].name
               PROVE  \E n \in 2..MaxClaims :
                        \/ Canonical(given[i].source) = Append(Canonical(given[j].source), Numeral(n))
                        \/ Canonical(given[j].source) = Append(Canonical(given[i].source), Numeral(n))
    BY DEF CollisionsAreNumbered
  <2>1. Len(typeNames) <= MaxNames /\ Len(endpointNames) <= MaxNames /\ Len(memberNames) <= MaxNames
    <3>1. Len(typeNames) \in Nat /\ Len(endpointNames) \in Nat /\ MaxNames \in Nat
      BY SourceAssumption DEF NamesInv, Claims, IsSeq
    <3> QED  BY <3>1 DEF NamesInv
  <2>2. CASE given = typeNames
    <3>1. Claims(typeScope, given, Primitives) /\ Len(given) <= MaxNames
      BY <2>1, <2>2 DEF NamesInv
    <3> QED  BY <3>1, ClaimsCollide
  <2>3. CASE given = endpointNames
    <3>1. Claims(endpointScope, given, ClientFunctions) /\ Len(given) <= MaxNames
      BY <2>1, <2>3 DEF NamesInv
    <3> QED  BY <3>1, ClaimsCollide
  <2>4. CASE given = memberNames
    <3>1. Claims(memberScope, given, {}) /\ Len(given) <= MaxNames
      BY <2>1, <2>4 DEF NamesInv
    <3> QED  BY <3>1, ClaimsCollide
  <2> QED  BY <2>2, <2>3, <2>4 DEF Scopes
<1> QED  BY <1>1, NamesInvAlways, PTL
=============================================================================
