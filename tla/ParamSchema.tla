------------------------------ MODULE ParamSchema ------------------------------
(***************************************************************************)
(* How a parameter definition is written into an OpenAPI 3.1 document and, *)
(* with less detail, into the Swagger 2.0 one of a gateway                 *)
(* (openapi/internal/schema/schema.go), and what a document accepts.       *)
(*                                                                         *)
(* A schema has a type, "" for any, with the values of its enum, its       *)
(* properties and the required ones, the schema of its items and of its    *)
(* additional properties (sets of at most one), the sets of schemas of     *)
(* oneOf, anyOf, allOf and not, and the bounds of its type.                *)
(***************************************************************************)
EXTENDS ParamParser

CONSTANTS
    Characters,     \* how many characters each text has
    Schemas,        \* the schemas of the documents, with all they consist of
    SchemaDepth     \* how deep each is: deeper than what it consists of

NoSchema ==
    [type |-> "", enum |-> {}, properties |-> <<>>, required |-> {}, items |-> {},
     additional |-> {}, oneOf |-> {}, anyOf |-> {}, allOf |-> {}, not |-> {},
     min |-> NoBound, max |-> NoBound]

ParamTypeSchema(type) ==
    [NoSchema EXCEPT !.type = CASE type = "int64" -> "integer"
                                [] type = "bool" -> "boolean"
                                [] type = "float64" -> "number"
                                [] type = "any" -> ""
                                [] OTHER -> type]

RequiredNames(names) == [NoSchema EXCEPT !.required = names]

NameCombinations(names, count) == {chosen \in SUBSET names : Cardinality(chosen) = count}

RequiredNameSchemas(names, count) == {RequiredNames(c) : c \in NameCombinations(names, count)}

\* Mutant: a rule rejects the largest combinations it allows.
LargestCombinations(rule) == NameCombinations(rule.names, rule.max)

TooLargeCombinations(rule) == NameCombinations(rule.names, rule.max + 1)

\* An exactly-one rule is oneOf; a minimum is anyOf, a maximum rejects every
\* larger combination.
ParamRuleSchemas(rule) ==
    LET AtLeast == [NoSchema EXCEPT !.anyOf = RequiredNameSchemas(rule.names, rule.min)]
        Without(names) == [NoSchema EXCEPT !.not = {RequiredNames(names)}]
    IN  IF rule.min = 1 /\ rule.max = 1
        THEN {[NoSchema EXCEPT !.oneOf = RequiredNameSchemas(rule.names, 1)]}
        ELSE (IF rule.min = 0 THEN {} ELSE {AtLeast})
             \cup (IF rule.max = 0 THEN {} ELSE {Without(names) : names \in TooLargeCombinations(rule)})

ParamRules(rules) == UNION {ParamRuleSchemas(rules[i]) : i \in DOMAIN rules}

ParamRequired(params) ==
    {params[i].name : i \in {j \in DOMAIN params : params[j].required}}

CloneFirst(bound, other) == IF bound # NoBound THEN bound ELSE other

ApplyParamBounds(schema, parameter) ==
    CASE WireType(parameter.shape) \in {"string", "int64", "float64", "object"} ->
            [schema EXCEPT !.min = parameter.min, !.max = parameter.max]
      [] WireType(parameter.shape) = "array" ->
            [schema EXCEPT !.min = CloneFirst(parameter.minItems, parameter.min),
                           !.max = CloneFirst(parameter.maxItems, parameter.max)]
      [] OTHER -> schema

-----------------------------------------------------------------------------
(***************************************************************************)
(* A shape in a document.  `from` is how the shapes in it are written.     *)
(***************************************************************************)
ParamProperties(from, params) ==
    [name \in Names(params) |->
        LET parameter == params[CHOOSE i \in DOMAIN params : params[i].name = name]
        IN  ApplyParamBounds(from[parameter.shape], parameter)]

OneOfTexts(values) == [ParamTypeSchema("string") EXCEPT !.enum = values]

\* Each variant is a branch with its value as the only one of the discriminator.
Branch(schema, discriminator, value) ==
    [schema EXCEPT
        !.properties = [name \in {discriminator} \cup DOMAIN schema.properties |->
                           IF name = discriminator THEN OneOfTexts({value})
                           ELSE schema.properties[name]],
        !.required = schema.required \cup {discriminator}]

DiscriminatorOneOf(from, shape) ==
    {Branch(from[shape.variants[i].shape], shape.discriminator, shape.variants[i].value) :
        i \in DOMAIN shape.variants}

\* The union of the variants' properties, the first of each name.
DiscriminatorSwaggerProperties(from, shape) ==
    LET Of(i) == from[shape.variants[i].shape].properties
        Earliest(name) == Min({i \in DOMAIN shape.variants : name \in DOMAIN Of(i)})
    IN [name \in {shape.discriminator} \cup UNION {DOMAIN Of(i) : i \in DOMAIN shape.variants} |->
           IF name = shape.discriminator
           THEN OneOfTexts({shape.variants[i].value : i \in DOMAIN shape.variants})
           ELSE Of(Earliest(name))[name]]

Written(document, from, shape) ==
    LET schema == ParamTypeSchema(WireType(shape))
        exact == document = "openapi31"
    IN CASE shape.kind = "enum" -> [schema EXCEPT !.enum = shape.values]
         [] shape.kind = "map" -> [schema EXCEPT !.additional = {from[shape.item]}]
         [] shape.kind = "array" -> [schema EXCEPT !.items = {from[shape.item]}]
         [] shape.kind = "object" ->
                [schema EXCEPT !.properties = ParamProperties(from, shape.params),
                               !.required = ParamRequired(shape.params),
                               !.allOf = IF exact THEN ParamRules(shape.rules) ELSE {}]
         [] shape.kind = "variants" /\ exact ->
                [schema EXCEPT !.oneOf = DiscriminatorOneOf(from, shape)]
         [] shape.kind = "variants" /\ ~ exact ->
                [schema EXCEPT !.properties = DiscriminatorSwaggerProperties(from, shape),
                               !.required = {shape.discriminator}]
         [] OTHER -> schema

FromParamShape[shape \in Shapes] == Written("openapi31", FromParamShape, shape)

FromParamShapeSwagger2[shape \in Shapes] ==
    Written("swagger2", FromParamShapeSwagger2, shape)

-----------------------------------------------------------------------------
(***************************************************************************)
(* What the JSON Schema a client reads accepts.                            *)
(***************************************************************************)
SchemasIn(schema) ==
    {schema.properties[name] : name \in DOMAIN schema.properties}
    \cup schema.items \cup schema.additional
    \cup schema.oneOf \cup schema.anyOf \cup schema.allOf \cup schema.not

ASSUME CharactersAssumption ==
    \A raw \in Values : raw.json = "string" => Characters[raw.text] \in Nat

ASSUME SchemasAssumption ==
    /\ SchemaDepth \in [Schemas -> Nat]
    /\ \A schema \in Schemas : \A inner \in SchemasIn(schema) :
          inner \in Schemas /\ SchemaDepth[inner] < SchemaDepth[schema]
    /\ \A shape \in Shapes :
          {FromParamShape[shape], FromParamShapeSwagger2[shape]} \subseteq Schemas

\* Any integer, however large or written: the format "int64" is an annotation.
HasType(type, raw) ==
    CASE type = "" -> TRUE
      [] type = "boolean" -> raw.json = "bool"
      [] type = "integer" -> raw.json = "number" /\ Integral(raw)
      [] OTHER -> raw.json = type

\* minLength and maxLength count characters, minimum and maximum are exact.
SizesOf(raw) ==
    CASE raw.json = "string" -> {Characters[raw.text]}
      [] raw.json = "number" -> raw.around
      [] raw.json = "array" -> {Len(raw.items)}
      [] raw.json = "object" -> {Cardinality(DOMAIN raw.fields)}
      [] OTHER -> {}

ValidatesObject(validates, schema, fields) ==
    /\ schema.required \subseteq DOMAIN fields
    /\ \A name \in DOMAIN fields :
          IF name \in DOMAIN schema.properties
          THEN validates[<<schema.properties[name], fields[name]>>]
          ELSE \A other \in schema.additional : validates[<<other, fields[name]>>]

ValidatesSchema(validates, schema, raw) ==
    /\ HasType(schema.type, raw)
    /\ schema.enum # {} => raw.json = "string" /\ raw.text \in schema.enum
    /\ WithinBounds(SizesOf(raw), schema.min, schema.max) = {}
    /\ raw.json = "object" => ValidatesObject(validates, schema, raw.fields)
    /\ raw.json = "array" =>
          \A i \in DOMAIN raw.items, item \in schema.items : validates[<<item, raw.items[i]>>]
    /\ schema.oneOf # {} => Cardinality({s \in schema.oneOf : validates[<<s, raw>>]}) = 1
    /\ schema.anyOf # {} => \E s \in schema.anyOf : validates[<<s, raw>>]
    /\ \A s \in schema.allOf : validates[<<s, raw>>]
    /\ \A s \in schema.not : ~ validates[<<s, raw>>]

\* Whether a value is valid by a schema.
Validates[at \in Schemas \X Values] == ValidatesSchema(Validates, at[1], at[2])

-----------------------------------------------------------------------------
\* The caller may send every parameter of a shape.
SeesAll(shape, caller) ==
    \A part \in Parts[shape] : part.kind = "object" =>
        \A i \in DOMAIN part.params : Available(part.params[i], caller)

\* A value that the parser and a document measure alike: nothing is null, every
\* text is trimmed, not empty and has as many bytes as characters, every number is
\* what the parser reads it as, and an integer is one the parser takes for one.
PortableBy(portable, raw) ==
    /\ raw.json # "null"
    /\ raw.json = "string" => /\ ~ Blank(raw.text) /\ Trimmed[raw.text] = raw.text
                              /\ Bytes[raw.text] = Characters[raw.text]
    /\ raw.json = "number" => raw.read = raw.around /\ (Integral(raw) => RawInt64(raw))
    /\ \A inner \in ValuesIn(raw) : portable[inner]

Portable[raw \in Values] == PortableBy(Portable, raw)

\* A definition whose variants are objects without the discriminator, in which
\* no parameter has two bounds for one, or bounds and no type.
Describable(shape) ==
    /\ OmitsDiscriminator(shape)
    /\ \A part \in Parts[shape] :
          /\ part.kind = "variants" =>
                \A inner \in ShapesIn(part) : inner.kind \in {"object", "map"}
          /\ part.kind = "object" => \A i \in DOMAIN part.params :
                LET parameter == part.params[i]
                IN /\ NoBound \in {parameter.min, parameter.minItems}
                   /\ NoBound \in {parameter.max, parameter.maxItems}
                   /\ WireType(parameter.shape) = "any"
                         => parameter.min = NoBound /\ parameter.max = NoBound

\* The names two variants share stand for one schema, and a variant has names.
SwaggerExact(shape) ==
    \A part \in Parts[shape] : part.kind = "variants" =>
        \A left, right \in ShapesIn(part) :
            /\ left.kind = "object"
            /\ LET mine == FromParamShapeSwagger2[left].properties
                   other == FromParamShapeSwagger2[right].properties
               IN  \A name \in DOMAIN mine \cap DOMAIN other : mine[name] = other[name]

\* A body that passes the checks of the parser, for a caller who may send every
\* parameter there is, validates against the OpenAPI 3.1 schema of the
\* definition, and one that fails them does not, but for names the definition
\* does not have, which the schema lets pass, and for what the program's own
\* parsers refuse; and the gateway's document never refuses what passed
\* (schema.go:42-49, spec/v0.2.md:752-757).  The two disagree, and this says
\* nothing, about a body with a null, a text with spaces around it or with other
\* than one byte for a character (parameter.go:295-297 counts bytes), an integer
\* written as 1.0 or beyond 64 bits (shape.go:262), and a number that is rounded
\* when it is read (parameter.go:300-303).
DocumentsDescribeTheParser ==
    WellFormed /\ Describable(definition) => \A w \in Workers :
        LET outcome == workers[w].outcome
            body == workers[w].body
            own == [paths |-> {<<>>}, code |-> "parse_failed"]
            passed == \/ outcome.kind = "accepted"
                      \/ outcome.kind = "rejected" /\ outcome.error = own
            failed == /\ outcome.kind = "rejected"
                      /\ outcome.error.code \notin {"unexpected", "parse_failed"}
        IN  Parsed(w) /\ Portable[body] /\ SeesAll(definition, workers[w].caller) =>
                /\ passed => Validates[<<FromParamShape[definition], body>>]
                /\ failed => ~ Validates[<<FromParamShape[definition], body>>]
                /\ passed /\ SwaggerExact(definition) =>
                       Validates[<<FromParamShapeSwagger2[definition], body>>]
=============================================================================
