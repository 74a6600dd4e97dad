------------------------------ MODULE Lowering ------------------------------
(***************************************************************************)
(* lower_to_nair (compiler/frontend/openapi/lower.cpp): a parsed OpenAPI   *)
(* description becomes a NAIR module or is refused at the first construct  *)
(* outside the subset.  One action for each parse_ function that adds to   *)
(* the module or to what the later ones look at.                           *)
(*                                                                         *)
(* The values of a description are of the JSON kinds that OpenAPI asks     *)
(* for: a value of another kind is refused where it is met (expect_kind,   *)
(* scalar, boolean), as the other constructs here are, and leaves nothing. *)
(***************************************************************************)
EXTENDS Naturals, Sequences, FiniteSets, SequencesExt

CONSTANTS
  Description, \* see DescriptionAssumption
  SchemeName,
  Absent       \* in place of a member that the description does not have

Primitive == {"string", "integer", "boolean"}
Method == {"get", "post"}
Refusable == {"delete", "patch", "put", "head"}

\* A schema refers to a component, or is declared of type object, or both, or
\* neither; an object has properties and names that it requires. A parameter may
\* be a reference to one. The status of a response that is not a number
\* ("default", "2XX") is 0.
IsSchema(s) ==
  /\ s.object \in BOOLEAN
  /\ s.object => s.required \subseteq STRING /\ DOMAIN s.property \subseteq STRING

Parameter == [name : STRING, in : STRING, type : STRING, required : BOOLEAN \cup {Absent},
              ref : BOOLEAN]

IsSecurity(s) ==
  s # Absent => s \in Seq(SUBSET SchemeName) /\ \A i \in DOMAIN s : IsFiniteSet(s[i])

IsOperation(op) ==
  /\ op.parameters \in Seq(Parameter)
  /\ IsSecurity(op.security)
  /\ op.body # Absent => op.body.required \in BOOLEAN /\ IsSchema(op.body.schema)
  /\ \A c \in DOMAIN op.response : c \in Nat /\ IsSchema(op.response[c])

\* OpenAPI gives no component an empty name; the code takes the empty name of a
\* requirement for "none" (lower.cpp:575).
ASSUME NameAssumption ==
  /\ "" \notin SchemeName
  /\ Absent # "" /\ Absent \notin SchemeName /\ Absent \notin BOOLEAN
  /\ Absent \notin [type : Nat, required : BOOLEAN]

ASSUME DescriptionAssumption ==
  \A d \in Description :
    /\ IsFiniteSet(DOMAIN d.schema) /\ DOMAIN d.schema \subseteq STRING
    /\ \A t \in DOMAIN d.schema : IsSchema(d.schema[t])
    /\ d.scheme # Absent => DOMAIN d.scheme \subseteq SchemeName
                            /\ \A n \in DOMAIN d.scheme : d.scheme[n] \in {"header", "elsewhere", "other"}
    /\ IsSecurity(d.security)
    /\ d.webhooks \in BOOLEAN
    /\ Len(d.path) \in Nat /\ DOMAIN d.path = 1..Len(d.path)
    /\ \A i \in DOMAIN d.path :
         /\ d.path[i].rooted \in BOOLEAN
         /\ d.path[i].parameters \in Seq(Parameter)
         /\ DOMAIN d.path[i].operation
              \subseteq Method \cup Refusable \cup {"options", "trace"}
         /\ \A m \in DOMAIN d.path[i].operation : IsOperation(d.path[i].operation[m])

VARIABLES
  doc,       \* the description
  stage,     \* "components", "security", "paths", "lowered", "refused"
  at,        \* the path item and the method of it that come next
  types,     \* the types of the module, by id: name and body
  schemaType, \* the id of each component schema
  schemes,   \* the header API-key schemes
  rootSecurity, \* the requirement of the description, or Absent
  active,    \* the scheme in use, or Absent
  endpoints  \* of the module

vars == <<doc, stage, at, types, schemaType, schemes, rootSecurity, active, endpoints>>

PrimitiveTypes == [i \in 1..3 |-> [name |-> <<"string", "integer", "boolean">>[i], field |-> Absent]]

TypeIdOf(primitive) == CHOOSE i \in 1..3 : PrimitiveTypes[i].name = primitive

Init ==
  /\ doc \in Description
  /\ stage = "components"
  /\ at = [path |-> 1, method |-> "get"]
  /\ types = PrimitiveTypes
  /\ schemaType = <<>>
  /\ schemes = {}
  /\ rootSecurity = Absent
  /\ active = Absent
  /\ endpoints = <<>>

Refuse ==
  /\ stage' = "refused"
  /\ UNCHANGED <<doc, at, types, schemaType, schemes, rootSecurity, active, endpoints>>

-----------------------------------------------------------------------------
\* expect_object_schema, populate_struct and primitive_schema_type: the type is
\* object, the properties are primitive and every required name is one of them.
\* None of them looks at a $ref beside the type.
Lowerable(schema) ==
  /\ schema.object
  /\ \A f \in DOMAIN schema.property : schema.property[f] \in Primitive
  /\ schema.required \subseteq DOMAIN schema.property

Fields(schema) ==
  [f \in DOMAIN schema.property |->
     [type |-> TypeIdOf(schema.property[f]), required |-> f \in schema.required]]

Struct(name, schema) == [name |-> name, field |-> Fields(schema)]

\* parse_components; the ids go by the order of the names.
ParseComponents ==
  /\ stage = "components"
  /\ \/ (\E t \in DOMAIN doc.schema : ~Lowerable(doc.schema[t])) /\ Refuse
     \/ /\ \A t \in DOMAIN doc.schema : Lowerable(doc.schema[t])
        /\ LET names == SetToSeq(DOMAIN doc.schema)
           IN  /\ types' = types \o [i \in DOMAIN names |-> Struct(names[i], doc.schema[names[i]])]
               /\ schemaType' = [t \in DOMAIN doc.schema |->
                                   Len(types) + CHOOSE i \in DOMAIN names : names[i] = t]
        /\ stage' = "security"
        /\ UNCHANGED <<doc, at, schemes, rootSecurity, active, endpoints>>

\* security_requirement: of several alternatives the first counts; one that
\* combines schemes is refused, an empty one asks for nothing.
Combined(security) == security \notin {Absent, <<>>} /\ Cardinality(security[1]) > 1

Requirement(security) ==
  IF security = Absent THEN Absent
  ELSE IF security = <<>> \/ security[1] = {} THEN "" ELSE CHOOSE n \in security[1] : TRUE

\* parse_security_schemes. Without a list of schemes it returns before the
\* requirement of the description is looked at.
ParseSecuritySchemes ==
  /\ stage = "security"
  /\ \/ /\ doc.scheme = Absent
        /\ stage' = "paths"
        /\ UNCHANGED <<schemes, rootSecurity, doc, at, types, schemaType, active, endpoints>>
     \/ /\ doc.scheme # Absent
        /\ (\E n \in DOMAIN doc.scheme : doc.scheme[n] = "elsewhere") \/ Combined(doc.security)
        /\ Refuse
     \/ /\ doc.scheme # Absent
        /\ \A n \in DOMAIN doc.scheme : doc.scheme[n] # "elsewhere"
        /\ ~Combined(doc.security)
        /\ schemes' = {n \in DOMAIN doc.scheme : doc.scheme[n] = "header"}
        /\ rootSecurity' = Requirement(doc.security)
        /\ stage' = "paths"
        /\ UNCHANGED <<doc, at, types, schemaType, active, endpoints>>

-----------------------------------------------------------------------------
Location(p) == <<p.in, p.name>>

Required(p) == IF p.required = Absent THEN p.in = "path" ELSE p.required

\* What parse_parameters asks of one parameter.
Acceptable(p) ==
  /\ ~p.ref
  /\ p.type \in Primitive
  /\ p.in \in {"path", "query"}
  /\ p.in = "path" => Required(p)

Repeated(ps) == \E i, j \in DOMAIN ps : i # j /\ Location(ps[i]) = Location(ps[j])

\* Mutant: insert in the place of insert_or_assign.
InsertedOnce(map, p) ==
  [k \in DOMAIN map \cup {Location(p)} |->
     IF k \in DOMAIN map THEN map[k] ELSE [type |-> TypeIdOf(p.type), required |-> Required(p)]]

Inserted(map, p) ==
  [k \in DOMAIN map \cup {Location(p)} |->
     IF k = Location(p) THEN [type |-> TypeIdOf(p.type), required |-> Required(p)] ELSE map[k]]

\* The loop of parse_parameters.
Collected(ps) ==
  LET upTo[n \in 0..Len(ps)] == IF n = 0 THEN <<>> ELSE Inserted(upTo[n - 1], ps[n])
  IN  upTo[Len(ps)]

\* Of the path item and then of the operation.
Parameters(path, op) == Collected(path.parameters \o op.parameters)

\* One that is declared twice is refused on the path item only: those of the
\* operation replace.
ParametersAccepted(path, op) ==
  /\ \A p \in Range(path.parameters \o op.parameters) : Acceptable(p)
  /\ ~Repeated(path.parameters)

\* validate_path_parameters; a template with an unclosed or empty brace is Absent.
TemplateMatches(path, op) ==
  /\ path.template # Absent
  /\ {k \in DOMAIN Parameters(path, op) : k[1] = "path"} = {<<"path", n>> : n \in path.template}

\* resolve_body_schema.
SchemaAccepted(schema) ==
  IF schema.ref # Absent THEN schema.ref \in DOMAIN schemaType ELSE Lowerable(schema)

\* Mutant: ids are counted from one, but the new type's from the next.
ResolvedBeyond(schema, before) ==
  IF schema.ref # Absent THEN schemaType[schema.ref] ELSE Len(types) + before + 2

\* Mutant: the types of one operation are not counted.
ResolvedTogether(schema, before) ==
  IF schema.ref # Absent THEN schemaType[schema.ref] ELSE Len(types) + 1

\* The id of the schema's type, once the types of those before it are there.
Resolved(schema, before) ==
  IF schema.ref # Absent THEN schemaType[schema.ref] ELSE Len(types) + before + 1

InlineType(schema, name) == IF schema.ref # Absent THEN <<>> ELSE <<Struct(name, schema)>>

\* parse_response: of the responses whose status is 2xx the lowest.
Successful(op) == DOMAIN op.response \cap 200..299
Status(op) == CHOOSE c \in Successful(op) : \A o \in Successful(op) : c <= o

BodyAccepted(op) == op.body # Absent => SchemaAccepted(op.body.schema)

ResponseAccepted(op) == Successful(op) # {} /\ SchemaAccepted(op.response[Status(op)])

\* The requirement that parse_operation goes by.
Security(op) == IF op.security = Absent THEN rootSecurity ELSE Requirement(op.security)

\* Mutant: a second scheme takes the place of the first.
AuthAcceptedAlways(op) ==
  /\ ~Combined(op.security)
  /\ Security(op) \in {Absent, ""} \cup schemes

\* activate_auth: the schemes of the module's endpoints are one.
AuthAccepted(op) ==
  /\ ~Combined(op.security)
  /\ \/ Security(op) \in {Absent, ""}
     \/ Security(op) \in schemes /\ active \in {Absent, Security(op)}

\* The method after this one, of this path item or the next.
NextOperation ==
  at' = IF at.method = "get" THEN [at EXCEPT !.method = "post"]
        ELSE [path |-> at.path + 1, method |-> "get"]

Path == doc.path[at.path]

\* The key of a path item begins with '/', and the item has none of the methods
\* that parse_paths refuses.
PathAccepted(path) == path.rooted /\ DOMAIN path.operation \cap Refusable = {}

\* parse_paths, up to the next operation.
RefusePath ==
  /\ stage = "paths" /\ at.path <= Len(doc.path)
  /\ ~PathAccepted(Path)
  /\ Refuse

SkipMethod ==
  /\ stage = "paths" /\ at.path <= Len(doc.path)
  /\ PathAccepted(Path)
  /\ at.method \notin DOMAIN Path.operation
  /\ NextOperation
  /\ UNCHANGED <<doc, stage, types, schemaType, schemes, rootSecurity, active, endpoints>>

Accepted(op) ==
  /\ ParametersAccepted(Path, op)
  /\ TemplateMatches(Path, op)
  /\ BodyAccepted(op)
  /\ ResponseAccepted(op)
  /\ AuthAccepted(op)

\* parse_operation.
ParseOperation ==
  /\ stage = "paths" /\ at.path <= Len(doc.path)
  /\ PathAccepted(Path)
  /\ at.method \in DOMAIN Path.operation
  /\ LET op       == Path.operation[at.method]
         response == op.response[Status(op)]
         request  == IF op.body = Absent THEN <<>> ELSE InlineType(op.body.schema, "request")
     IN  \/ ~Accepted(op) /\ Refuse
         \/ /\ Accepted(op)
            /\ types' = types \o request \o InlineType(response, "response")
            /\ active' = IF Security(op) \in {Absent, ""} THEN active ELSE Security(op)
            /\ endpoints' = Append(endpoints,
                 [path          |-> at.path,
                  method        |-> at.method,
                  parameter     |-> Parameters(Path, op),
                  body          |-> IF op.body = Absent THEN Absent
                                    ELSE [type     |-> Resolved(op.body.schema, 0),
                                          required |-> op.body.required],
                  response      |-> [status |-> Status(op),
                                     type   |-> Resolved(response, Len(request))],
                  authenticated |-> Security(op) \notin {Absent, ""}])
            /\ NextOperation
            /\ UNCHANGED <<doc, stage, schemaType, schemes, rootSecurity>>

\* The end of run: webhooks and a description without endpoints are refused.
Finish ==
  /\ stage = "paths" /\ at.path > Len(doc.path)
  /\ stage' = IF doc.webhooks \/ endpoints = <<>> THEN "refused" ELSE "lowered"
  /\ UNCHANGED <<doc, at, types, schemaType, schemes, rootSecurity, active, endpoints>>

Next ==
  \/ ParseComponents \/ ParseSecuritySchemes
  \/ RefusePath \/ SkipMethod \/ ParseOperation
  \/ Finish

Spec == Init /\ [][Next]_vars

-----------------------------------------------------------------------------
\* The operation of the description that an endpoint was made of.
Operation(e) == doc.path[e.path].operation[e.method]

\* Every id that the module holds is one of its types, and an endpoint's bodies
\* are structs.
TypeOK ==
  /\ stage \in {"components", "security", "paths", "lowered", "refused"}
  /\ active \in schemes \cup {Absent}
  /\ rootSecurity \in SchemeName \cup {Absent, ""}
  /\ \A t \in DOMAIN schemaType : schemaType[t] \in 4..Len(types)
  /\ \A i \in 4..Len(types) : \A f \in DOMAIN types[i].field : types[i].field[f].type \in 1..3
  /\ \A e \in Range(endpoints) :
       /\ \A k \in DOMAIN e.parameter : e.parameter[k].type \in 1..3
       /\ {e.response.type} \cup (IF e.body = Absent THEN {} ELSE {e.body.type})
            \subseteq 4..Len(types)

\* The description allows the calls that the endpoint makes: with the one key of
\* the module, an alternative of the operation's security (its own, else the
\* description's) asks for that key and nothing else; without, none is asked for.
Allowed(e) ==
  LET security == IF Operation(e).security # Absent THEN Operation(e).security ELSE doc.security
  IN  IF e.authenticated
      THEN /\ security # Absent /\ {active} \in Range(security)
           /\ doc.scheme[active] = "header"
      ELSE security \in {Absent, <<>>} \/ {} \in Range(security)

\* No endpoint of a finished module calls in a way that the description does not
\* allow.
AuthAsDescribed == stage = "lowered" => \A e \in Range(endpoints) : Allowed(e)

\* Every operation of the description has an endpoint in a finished module.
OperationsKept ==
  stage = "lowered" =>
    \A i \in DOMAIN doc.path : \A m \in DOMAIN doc.path[i].operation :
      \E e \in Range(endpoints) : e.path = i /\ e.method = m

\* SECURITY.md, "The frontend rejects unsupported constructs instead of
\* approximating their meaning", of security requirements and of methods: a
\* module is finished only with the authentication and the operations that the
\* description asks for. The code breaks both halves.
UnsupportedRejected == AuthAsDescribed /\ OperationsKept

\* The security requirements of the descriptions that list their schemes, at every moment: a later
\* operation never takes an earlier one's key away.
AuthAllowed == doc.scheme # Absent => \A e \in Range(endpoints) : Allowed(e)

\* The last of the parameters with that location.
LastAt(ps, k) ==
  ps[CHOOSE i \in DOMAIN ps : /\ Location(ps[i]) = k
                              /\ \A j \in DOMAIN ps : Location(ps[j]) = k => j <= i]

\* An endpoint has every parameter that its operation or its path item declares,
\* once; the operation's declaration wins; and those of the path are required and
\* are exactly the names in the template.
ParametersAsDescribed ==
  \A e \in Range(endpoints) :
    LET path == doc.path[e.path]
        own  == Operation(e).parameters
    IN  /\ DOMAIN e.parameter = {Location(p) : p \in Range(path.parameters \o own)}
        /\ \A k \in DOMAIN e.parameter :
             LET declared == LastAt(IF \E p \in Range(own) : Location(p) = k THEN own
                                    ELSE path.parameters, k)
             IN  /\ types[e.parameter[k].type].name = declared.type
                 /\ e.parameter[k].required <=> declared.required = TRUE \/ declared.in = "path"
        /\ \A n \in path.template : e.parameter[<<"path", n>>].required
        /\ \A k \in DOMAIN e.parameter : k[1] = "path" => k[2] \in path.template

\* The fields of the type with that id are the schema's, or those of the
\* component that it refers to.
Means(id, schema) ==
  LET object == IF schema.ref = Absent THEN schema ELSE doc.schema[schema.ref]
  IN  /\ DOMAIN types[id].field = DOMAIN object.property
      /\ \A f \in DOMAIN object.property :
           /\ types[types[id].field[f].type].name = object.property[f]
           /\ types[id].field[f].required <=> f \in object.required

\* A finished module has one endpoint for every GET and POST operation, of path
\* items that have no operation of the four methods to refuse (UnsupportedRejected
\* is about the other methods); an endpoint's body and response have the fields
\* that the description gives them, whatever types were added before or after, and
\* its status is the lowest 2xx.
EndpointsAsDescribed ==
  stage = "lowered" =>
    /\ \A i \in DOMAIN doc.path : DOMAIN doc.path[i].operation \cap Refusable = {}
    /\ \A i \in DOMAIN doc.path : \A m \in Method \cap DOMAIN doc.path[i].operation :
         Cardinality({j \in DOMAIN endpoints :
                        endpoints[j].path = i /\ endpoints[j].method = m}) = 1
    /\ \A e \in Range(endpoints) :
         LET op == Operation(e)
         IN  /\ (e.body = Absent) = (op.body = Absent)
             /\ e.body # Absent => /\ Means(e.body.type, op.body.schema)
                                   /\ e.body.required = op.body.required
             /\ e.response.status \in 200..299
             /\ \A c \in DOMAIN op.response : c \in 200..299 => e.response.status <= c
             /\ Means(e.response.type, op.response[e.response.status])
=============================================================================
