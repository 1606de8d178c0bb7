------------------------------ MODULE DataSchema ------------------------------
(***************************************************************************)
(* The data Schemas of entries (container-core, data-schema.ts): which     *)
(* declarations validateDataSchema accepts, and what validateData says of  *)
(* the data of a request.                                                  *)
(*                                                                         *)
(* A Schema is a function on the keywords it uses, or the Schema           *)
(* [always |-> b] for the JSON literals true and false.  A JSON value is a *)
(* record with its kind; numbers count halves, strings are sequences, and  *)
(* the fields of an object a function, so that 'equal' is equality.        *)
(***************************************************************************)
EXTENDS Integers, FiniteSets, FiniteSetsExt, SequencesExt

CONSTANTS
    Schemas,        \* declared Schemas and their parts, well-formed or not
    Depth,          \* of each Schema: JSON is finite, its parts are less deep
    Data,           \* JSON values and their parts
    PropertyNames,  \* those /^[a-zA-Z_][a-zA-Z0-9_-]{0,127}$/ admits
    MaxNodes, MaxDepth  \* 1024 and 32 in the code

Has(s, keyword) == keyword \in DOMAIN s

Properties(s) == IF Has(s, "properties") THEN s.properties ELSE <<>>

Kinds == {"object", "array", "string", "number", "boolean", "null"}

\* The parts of Schemas and values are among them.
ASSUME SchemasAssumption ==
    /\ Depth \in [Schemas -> Nat]
    /\ \A s \in Schemas :
          /\ \A name \in DOMAIN Properties(s) :
                Properties(s)[name] \in Schemas /\ Depth[Properties(s)[name]] < Depth[s]
          /\ Has(s, "items") => s.items \in Schemas /\ Depth[s.items] < Depth[s]
          /\ Has(s, "required") => s.required \in Seq(ToSet(s.required))
          /\ Has(s, "always") => DOMAIN s = {"always"} /\ s.always \in BOOLEAN
ASSUME DataAssumption ==
    \A v \in Data :
        /\ v.kind \in Kinds
        /\ v.kind = "object" => \A name \in DOMAIN v.fields : v.fields[name] \in Data
        /\ v.kind = "array" => v.items \in Seq(Data)
        /\ v.kind = "number" => v.half \in Int
ASSUME LimitsAssumption == MaxNodes \in Nat /\ MaxDepth \in Nat

Keywords == {"type", "description", "properties", "required", "additionalProperties",
             "items", "minItems", "maxItems", "minLength", "maxLength", "minimum",
             "maximum", "enum", "const"}
Types == {"object", "array", "string", "number", "integer", "boolean", "null"}
Counts == {"minItems", "maxItems", "minLength", "maxLength"}

-----------------------------------------------------------------------------
(* validateDataSchema. *)
NodeCount[s \in Schemas] ==
    1 + MapThenSumSet(LAMBDA name : NodeCount[Properties(s)[name]], DOMAIN Properties(s))
      + (IF Has(s, "items") THEN NodeCount[s.items] ELSE 0)

KeywordsAreValid(s) ==
    /\ DOMAIN s \subseteq Keywords
    /\ Has(s, "type") => s.type \in Types
    /\ DOMAIN Properties(s) \subseteq PropertyNames
    /\ Has(s, "required") => ToSet(s.required) \subseteq PropertyNames
                             /\ IsInjective(s.required)
    /\ \A keyword \in Counts : Has(s, keyword) => s[keyword] >= 0
    /\ Has(s, "enum") => s.enum # <<>> /\ IsInjective(s.enum)

\* 'accepts' has the answers for the parts.
VisitPart(accepts, s, depth) ==
    /\ depth <= MaxDepth
    /\ \/ Has(s, "always")
       \/ /\ KeywordsAreValid(s)
          /\ \A name \in DOMAIN Properties(s) : accepts[Properties(s)[name]][depth + 1]
          /\ Has(s, "items") => accepts[s.items][depth + 1]

VisitAccepts[s \in Schemas] ==
    [depth \in 0 .. MaxDepth + 1 |-> VisitPart(VisitAccepts, s, depth)]

IsDataSchema(s) == NodeCount[s] <= MaxNodes /\ VisitAccepts[s][0]

-----------------------------------------------------------------------------
(* validateData.  It throws the first error it meets, with the path to it;   *)
(* the fields of an object come in the order the caller wrote them, so that  *)
(* a value may have one of several errors.                                   *)
AtName(name) == [name |-> name]
AtIndex(i) == [index |-> i]

Error(rule) == {[path |-> <<>>, rule |-> rule]}
ErrorUnless(holds, rule) == IF holds THEN {} ELSE Error(rule)
Under(place, errors) == {[e EXCEPT !.path = <<place>> \o @] : e \in errors}

\* The errors of the first check that has any.
FirstErrors(checks) ==
    LET i == SelectInSeq(checks, LAMBDA errors : errors # {})
    IN IF i = 0 THEN {} ELSE checks[i]

AnyNumber(v, type) == v.kind = IF type = "integer" THEN "number" ELSE type  \* mutant

IsOfType(v, type) ==
    IF type = "integer" THEN v.kind = "number" /\ v.half % 2 = 0 ELSE v.kind = type

Within(n, s, atLeast, atMost) ==
    <<ErrorUnless(Has(s, atLeast) => n >= s[atLeast], atLeast),
      ErrorUnless(Has(s, atMost) => n <= s[atMost], atMost)>>

(* The required names, in the order of the declaration.                      *)
MissingName(s, v) ==
    LET i == SelectInSeq(s.required, LAMBDA name : name \notin DOMAIN v.fields)
    IN IF i = 0 THEN {}
       ELSE {[path |-> <<AtName(s.required[i])>>, rule |-> "required"]}

NamesTheField(s, name) ==       \* mutant: the diagnostic names an undeclared field
    IF Has(s, "additionalProperties") /\ ~s.additionalProperties
       THEN Under(AtName(name), Error("additionalProperties")) ELSE {}

UndeclaredField(s, name) ==
    ErrorUnless(Has(s, "additionalProperties") => s.additionalProperties,
                "additionalProperties")

ScalarChecks(s, v) ==
    <<ErrorUnless(Has(s, "type") => IsOfType(v, s.type), "type"),
      ErrorUnless(Has(s, "const") => v = s.const, "const"),
      ErrorUnless(Has(s, "enum") => v \in ToSet(s.enum), "enum")>>

\* 'errors' has those of the parts.
FieldErrors(errors, s, v, name) ==
    IF name \in DOMAIN Properties(s)
       THEN Under(AtName(name), errors[s.properties[name]][v.fields[name]])
       ELSE UndeclaredField(s, name)

ItemErrors(errors, s, v) ==
    IF Has(s, "items")
       THEN [i \in DOMAIN v.items |-> Under(AtIndex(i), errors[s.items][v.items[i]])]
       ELSE <<>>

PartChecks(errors, s, v) ==
    CASE v.kind = "object" ->
            <<IF Has(s, "required") THEN MissingName(s, v) ELSE {},
              UNION {FieldErrors(errors, s, v, name) : name \in DOMAIN v.fields}>>
      [] v.kind = "array"  ->
            Within(Len(v.items), s, "minItems", "maxItems") \o ItemErrors(errors, s, v)
      [] v.kind = "string" -> Within(Len(v.text), s, "minLength", "maxLength")
      [] v.kind = "number" -> Within(v.half, s, "minimum", "maximum")
      [] OTHER -> <<>>

SchemaErrors(errors, s, v) ==
    IF Has(s, "always") THEN ErrorUnless(s.always, "false-schema")
    ELSE FirstErrors(ScalarChecks(s, v) \o PartChecks(errors, s, v))

Errors[s \in Schemas] == [v \in Data |-> SchemaErrors(Errors, s, v)]

ValidateData(s, v) == Errors[s][v]

-----------------------------------------------------------------------------
(* The reference: what a JSON Schema means.  A value satisfies it when it    *)
(* satisfies every keyword, and a keyword says nothing of values of other    *)
(* kinds than its own.                                                       *)
Holds(satisfies, s, v, keyword) ==
    LET Number == v.kind = "number"
        String == v.kind = "string"
        Array == v.kind = "array"
        Object == v.kind = "object"
    IN CASE keyword = "always"    -> s.always
         [] keyword = "type"      ->
               \/ v.kind = s.type
               \/ /\ s.type = "integer" /\ Number
                  /\ \E n \in (-v.half .. v.half) \cup (v.half .. -v.half) : v.half = 2 * n
         [] keyword = "const"     -> v = s.const
         [] keyword = "enum"      -> \E i \in DOMAIN s.enum : s.enum[i] = v
         [] keyword = "minimum"   -> Number => v.half >= s.minimum
         [] keyword = "maximum"   -> Number => v.half <= s.maximum
         [] keyword = "minLength" -> String => Len(v.text) >= s.minLength
         [] keyword = "maxLength" -> String => Len(v.text) <= s.maxLength
         [] keyword = "minItems"  -> Array => Len(v.items) >= s.minItems
         [] keyword = "maxItems"  -> Array => Len(v.items) <= s.maxItems
         [] keyword = "items"     -> Array => \A i \in DOMAIN v.items :
                                                  satisfies[s.items][v.items[i]]
         [] keyword = "required"  -> Object => ToSet(s.required) \subseteq DOMAIN v.fields
         [] keyword = "properties" ->
               Object => \A name \in DOMAIN v.fields \cap DOMAIN s.properties :
                            satisfies[s.properties[name]][v.fields[name]]
         [] keyword = "additionalProperties" ->
               Object /\ ~s.additionalProperties
                   => DOMAIN v.fields \subseteq DOMAIN Properties(s)
         [] OTHER -> TRUE

Meets(satisfies, s, v) == \A keyword \in DOMAIN s : Holds(satisfies, s, v, keyword)

Satisfies[s \in Schemas] == [v \in Data |-> Meets(Satisfies, s, v)]

(* The names a Schema declares, at any depth.                                *)
DeclaredNames[s \in Schemas] ==
    DOMAIN Properties(s) \cup (IF Has(s, "required") THEN ToSet(s.required) ELSE {})
    \cup (IF Has(s, "items") THEN DeclaredNames[s.items] ELSE {})
    \cup UNION {DeclaredNames[Properties(s)[name]] : name \in DOMAIN Properties(s)}
=============================================================================
