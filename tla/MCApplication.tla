---------------------------- MODULE MCApplication ----------------------------
(* Values for TLC.  Applications of one or two Profiles over two Plugins,    *)
(* whose ids, entries and keys may coincide; and one Application for every   *)
(* Schema, with data that meets it or not.                                   *)
EXTENDS Application

CONSTANTS p, q, a, b, bad, t, k, l, n, pi, x, y

Null == [kind |-> "null"]
True == [kind |-> "boolean", is |-> TRUE]
Number(half) == [kind |-> "number", half |-> half]
String(text) == [kind |-> "string", text |-> text]
Array(items) == [kind |-> "array", items |-> items]
Object(fields) == [kind |-> "object", fields |-> fields]

MCData ==
    LET Scalars == {Null, True, Number(-2), Number(1), Number(2), Number(4),
                    String(<<>>), String(<<x>>), String(<<x, y>>)}
        Flat == Scalars
                \cup {Array(<<>>), Array(<<Number(2)>>), Array(<<Number(2), Number(1)>>),
                      Array(<<String(<<x>>), Null, True>>), Object(<<>>)}
                \cup {Object("m" :> v) : v \in Scalars}
                \cup {Object("m" :> v @@ "o" :> Number(1)) : v \in Scalars}
    IN Flat \cup {Object("o" :> v) : v \in Flat} \cup {Array(<<v, Number(2)>>) : v \in Flat}
            \cup {Object("h.s" :> Null)}

Whole == "type" :> "integer"
Small == "minimum" :> 1 @@ "maximum" :> 2
Short == "type" :> "string" @@ "minLength" :> 1 @@ "maxLength" :> 1
Never == [always |-> FALSE]
Always == [always |-> TRUE]
Strict == "type" :> "object" @@ "properties" :> ("m" :> Whole) @@ "required" :> <<"m">>
              @@ "additionalProperties" :> FALSE
Listed == "items" :> Whole @@ "minItems" :> 1 @@ "maxItems" :> 2

SoundSchemas == {
    Whole, Small, Short, Never, Always, Strict, Listed,
    "type" :> "null", "type" :> "boolean", "type" :> "number", "type" :> "array",
    "enum" :> <<Number(1), Object("m" :> Null)>>, "const" :> Array(<<Number(2)>>),
    "required" :> <<"o", "m">>, "additionalProperties" :> FALSE,
    "properties" :> ("m" :> Short @@ "o" :> Never),
    "properties" :> ("o" :> Strict) @@ "additionalProperties" :> TRUE,
    "items" :> Strict, "items" :> Always, "items" :> Listed,
    "type" :> "object" @@ "properties" :> ("o" :> Listed) @@ "required" :> <<"m", "o">> }

UnsoundSchemas == {
    "type" :> "date", "format" :> "email", "minItems" :> -1, "enum" :> <<>>,
    "enum" :> <<Null, Null>>, "required" :> <<"m", "m">>,
    "properties" :> ("h.s" :> Always), "items" :> ("type" :> "date"),
    "items" :> ("items" :> ("items" :> Always)),
    "properties" :> ("m" :> Strict @@ "o" :> Strict) @@ "items" :> Strict }

MCSchemas == SoundSchemas \cup UnsoundSchemas \cup {"items" :> ("items" :> Always),
                 "items" :> Always, "type" :> "date"}

MCDepth[s \in MCSchemas] ==
    LET parts == {Properties(s)[name] : name \in DOMAIN Properties(s)}
                 \cup (IF Has(s, "items") THEN {s.items} ELSE {})
    IN IF parts = {} THEN 0 ELSE 1 + Max({MCDepth[part] : part \in parts})

Plugin(id, role, key, produces) ==
    [id |-> id, role |-> role, key |-> key, produces |-> produces, runtime |-> pi]

PluginLists == {
    <<Plugin(p, "domain", k, {t})>>,
    <<Plugin(p, "domain", k, {t}), Plugin(q, "aspect", l, {})>>,
    <<Plugin(p, "domain", k, {}), Plugin(q, "aspect", k, {t})>>,
    <<Plugin(p, "domain", k, {t}), Plugin(q, "domain", l, {})>>,
    <<Plugin(p, "aspect", k, {t}), Plugin(q, "aspect", l, {t})>>,
    <<Plugin(p, "domain", k, {t}), Plugin(p, "aspect", l, {})>>,
    <<[Plugin(p, "domain", k, {t}) EXCEPT !.runtime = x], Plugin(q, "aspect", l, {})>>,
    <<Plugin(p, "domain", bad, {t})>> }

Entry(id, v1, required, schema) ==
    [id |-> id, v1 |-> v1, required |-> required, schema |-> schema]

NoRequirement == <<>>
Needs(producer, name) == [contract |-> t, producer |-> producer, name |-> name]

FirstProfiles ==
    [id : {a, b, bad},
     entry : {None, Entry(a, TRUE, FALSE, None), Entry(b, TRUE, TRUE, None), Entry(a, FALSE, TRUE, None)},
     primary : {None, p, q},
     aspects : {<<>>, <<q>>, <<p>>},
     requirements : {NoRequirement, <<Needs(None, n)>>, <<Needs(p, None), Needs(q, None)>>,
                     <<Needs(p, n), Needs(p, n)>>}]

SecondProfiles ==
    [id : {a, b}, entry : {None, Entry(a, TRUE, FALSE, None)}, primary : {None, p},
     aspects : {<<>>, <<q>>}, requirements : {NoRequirement}]

Define1(plugins, profiles) ==
    [id |-> pi, runtime |-> pi, plugins |-> plugins, profiles |-> profiles]

MCCandidates ==
    {Define1(plugins, <<>>) : plugins \in PluginLists}
    \cup {Define1(plugins, <<profile>>) : plugins \in PluginLists, profile \in FirstProfiles}
    \cup {Define1(plugins, <<profile, second>>) :
             plugins \in PluginLists, profile \in FirstProfiles, second \in SecondProfiles}
    \cup {Define1(<<Plugin(p, "domain", k, {})>>,
                  <<[id |-> a, entry |-> Entry(b, v1, TRUE, schema), primary |-> p,
                     aspects |-> <<>>, requirements |-> <<>>]>>) :
             v1 \in BOOLEAN, schema \in MCSchemas}
=============================================================================
