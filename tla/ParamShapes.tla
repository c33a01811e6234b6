------------------------------ MODULE ParamShapes ------------------------------
(***************************************************************************)
(* What a parameter definition accepts (param/).  A parse is modelled by   *)
(* the set of errors it may report, the empty set when it succeeds: fields *)
(* are visited in the order of a Go map, so it may report one of several.  *)
(* The paths of an error start at the value that is parsed: there is one,  *)
(* but for the error of a rule, which names every parameter that the rule  *)
(* is about and the caller can see.  The values parsed are left out, but   *)
(* for which parameters are present.                                       *)
(*                                                                         *)
(* A JSON value is a record with its kind in "json":                       *)
(*   [json |-> "null"], [json |-> "bool"], [json |-> "string", text],      *)
(*   [json |-> "number", around, read, whole], [json |-> "array", items],  *)
(*   [json |-> "object", fields], with a function from names to values.    *)
(* A number is known by the integers next to it, itself when it is one     *)
(* (around), by those next to the float64 it is read as, none when it is   *)
(* too large for one (read), and by whether it is written without fraction *)
(* and exponent (whole).  The bounds of a program are exact in a float64.  *)
(* A shape has its kind in "kind": "string", "int64", "float64", "bool",   *)
(* "any", "enum" (values, trim), "array" (item), "map" (item), "object"    *)
(* (params, rules, refuses), "variants" (discriminator, variants).         *)
(***************************************************************************)
EXTENDS Callers, Integers, FiniteSetsExt

CONSTANTS
    Bytes,          \* the length of each text, as it is sent
    Trimmed,        \* each text without its leading and trailing spaces
    MaxInt64,       \* the largest integer
    Shapes,         \* the shapes of a program, with all they consist of
    ShapeDepth,     \* how deep each is: deeper than what it consists of
    Values,         \* the JSON values it is sent, with all they consist of
    ValueDepth      \* how deep each is

Calling == Caller \cup {NoCaller}
Parses == Shapes \X Values \X Calling

NoBound == -1
Blank(text) == Trimmed[text] = ""
ObjectWithoutKey(fields, key) ==
    [json |-> "object", fields |-> [name \in DOMAIN fields \ {key} |-> fields[name]]]

\* The shapes a shape is built from, and the values that are in a value.
ShapesIn(shape) ==
    CASE shape.kind \in {"array", "map"} -> {shape.item}
      [] shape.kind = "object" -> {shape.params[i].shape : i \in DOMAIN shape.params}
      [] shape.kind = "variants" -> {shape.variants[i].shape : i \in DOMAIN shape.variants}
      [] OTHER -> {}

ValuesIn(raw) ==
    CASE raw.json = "array" -> {raw.items[i] : i \in DOMAIN raw.items}
      [] raw.json = "object" -> {raw.fields[name] : name \in DOMAIN raw.fields}
      [] OTHER -> {}

Integral(raw) == Cardinality(raw.around) = 1

WireType(shape) ==
    CASE shape.kind = "enum" -> "string"
      [] shape.kind \in {"map", "variants"} -> "object"
      [] OTHER -> shape.kind

Kinds == {"string", "int64", "float64", "bool", "any", "enum", "array", "map", "object", "variants"}

IsList(list) == Len(list) \in Nat /\ DOMAIN list = 1 .. Len(list)

\* A parser that wants text can only be given to a parameter that is text.
IsParameter(parameter) ==
    /\ parameter.name \in STRING
    /\ parameter.required \in BOOLEAN
    /\ parameter.null \in {"as_absent", "rejected", "accepted"}
    /\ {parameter.min, parameter.max, parameter.minItems, parameter.maxItems} \subseteq Int
    /\ parameter.parser = "nonempty" => WireType(parameter.shape) = "string"

ASSUME ShapesAssumption ==
    /\ ShapeDepth \in [Shapes -> Nat]
    /\ \A shape \in Shapes :
          /\ shape.kind \in Kinds
          /\ \A inner \in ShapesIn(shape) :
                inner \in Shapes /\ ShapeDepth[inner] < ShapeDepth[shape]
          /\ shape.kind = "object" =>
                /\ IsList(shape.params)
                /\ \A i \in DOMAIN shape.params : IsParameter(shape.params[i])
                /\ IsList(shape.rules)
                /\ \A i \in DOMAIN shape.rules : /\ IsFiniteSet(shape.rules[i].names)
                                                 /\ shape.rules[i].min \in Nat
                                                 /\ shape.rules[i].max \in Nat
          /\ shape.kind = "variants" =>
                shape.discriminator \in STRING /\ IsList(shape.variants)

ASSUME ValuesAssumption ==
    /\ ValueDepth \in [Values -> Nat]
    /\ \A raw \in Values :
          /\ \A inner \in ValuesIn(raw) :
                inner \in Values /\ ValueDepth[inner] < ValueDepth[raw]
          /\ raw.json = "string" => Bytes[raw.text] \in Nat
          /\ raw.json = "number" => /\ raw.around \subseteq Int /\ raw.around # {}
                                    /\ raw.read \subseteq Int
                                    /\ raw.whole \in BOOLEAN
                                    /\ raw.whole => Integral(raw)
          /\ raw.json = "array" => IsList(raw.items)
          /\ raw.json = "object" =>
                /\ IsFiniteSet(DOMAIN raw.fields)
                /\ DOMAIN raw.fields \subseteq STRING
                /\ \A shape \in Shapes : shape.kind = "variants" =>
                      ObjectWithoutKey(raw.fields, shape.discriminator) \in Values

-----------------------------------------------------------------------------
(***************************************************************************)
(* What the builders check, and panic about, when a definition is made.    *)
(***************************************************************************)
\* A shape and, over and over, what it is built from.
Parts[shape \in Shapes] == {shape} \cup UNION {Parts[inner] : inner \in ShapesIn(shape)}

BoundsParameter(parameter) ==
    /\ NoBound \in {parameter.min, parameter.max} \/ parameter.min <= parameter.max
    /\ NoBound \in {parameter.minItems, parameter.maxItems}
          \/ parameter.minItems <= parameter.maxItems
    /\ parameter.minItems # NoBound \/ parameter.maxItems # NoBound
          => WireType(parameter.shape) = "array"

NormalizesRule(rule) ==
    /\ rule.names # {}
    /\ rule.min > 0 \/ rule.max > 0
    /\ rule.min > 0 /\ rule.max > 0 => rule.min <= rule.max
    /\ rule.min <= Cardinality(rule.names)

NormalizesEnum(shape) ==
    /\ shape.values # {}
    /\ \A value \in shape.values : value # "" /\ Trimmed[value] = value

Names(params) == {params[i].name : i \in DOMAIN params}

\* objectDef.normalize: its names are unique, its rules know them.
NormalizesObject(shape) ==
    /\ \A i, j \in DOMAIN shape.params :
          shape.params[i].name = shape.params[j].name => i = j
    /\ \A i \in DOMAIN shape.rules : shape.rules[i].names \subseteq Names(shape.params)

\* A list of variants is only looked at when it is used.
NormalizesVariants(shape) ==
    /\ Len(shape.variants) > 0
    /\ \A i, j \in DOMAIN shape.variants :
          shape.variants[i].value = shape.variants[j].value => i = j

Builds(shape) ==
    /\ shape.kind = "object" =>
          /\ NormalizesObject(shape)
          /\ \A i \in DOMAIN shape.rules : NormalizesRule(shape.rules[i])
          /\ \A i \in DOMAIN shape.params : BoundsParameter(shape.params[i])
    /\ shape.kind = "variants" =>
          \A i \in DOMAIN shape.variants : /\ shape.variants[i].value # ""
                                           /\ WireType(shape.variants[i].shape) = "object"
    /\ shape.kind = "enum" => NormalizesEnum(shape)

Defines(shape) == \A part \in Parts[shape] : Builds(part)

-----------------------------------------------------------------------------
Fail(code) == {[paths |-> {<<>>}, code |-> code]}
Mismatch == Fail("type_mismatch")
Missing == Fail("missing")

\* presenceRule.errorParam: the names of a choice, joined.
FailChoice(names, code) == {[paths |-> {<<name>> : name \in names}, code |-> code]}

\* The errors of what is at a step inside a value.
Under(step, errors) ==
    {[paths |-> {<<step>> \o path : path \in error.paths}, code |-> error.code] :
        error \in errors}

\* A check that is only made when the one before it reports nothing.
Then(errors, next) == IF errors # {} THEN errors ELSE next

\* The first of some checks, in the order of their numbers, that reports an error.
First(checks) ==
    LET failed == {i \in DOMAIN checks : checks[i] # {}}
    IN IF failed = {} THEN {} ELSE checks[Min(failed)]

\* rawInt64 of a decoded number; "1.0" is not one.
RawInt64(raw) ==
    raw.json = "number" /\ raw.whole /\ raw.around \subseteq -MaxInt64 - 1 .. MaxInt64

Available(parameter, caller) == Allows(parameter.availability, caller)

\* A null is no value, unless the parameter has a policy about it.
ParamPresent(parameter, raw) == raw.json # "null" \/ parameter.null # "as_absent"

Present(parameter, fields) ==
    parameter.name \in DOMAIN fields /\ ParamPresent(parameter, fields[parameter.name])

\* What the size of a value is for its bounds, if it has one.
Measured(shape, raw) ==
    LET type == IF shape.kind = "any" THEN raw.json ELSE WireType(shape)
    IN CASE type = "string" /\ raw.json = "string" -> {Bytes[raw.text]}
         [] type = "int64" /\ RawInt64(raw) -> raw.read
         [] type = "float64" /\ raw.json = "number" -> raw.read
         [] type = "array" /\ raw.json = "array" -> {Len(raw.items)}
         [] type = "object" /\ raw.json = "object" -> {Cardinality(DOMAIN raw.fields)}
         [] OTHER -> {}

Counted(raw) == IF raw.json = "array" THEN {Len(raw.items)} ELSE {}

WithinBounds(sizes, min, max) ==
    IF min # NoBound /\ \E size \in sizes : size < min THEN Fail("too_small")
    ELSE IF max # NoBound /\ \E size \in sizes : size > max THEN Fail("too_large")
    ELSE {}

EnforceSize(parameter, raw) ==
    Then(WithinBounds(Measured(parameter.shape, raw), parameter.min, parameter.max),
         WithinBounds(Counted(raw), parameter.minItems, parameter.maxItems))

\* A parser that wants text (NonEmptyTrimmedString): null is the empty text.
ApplyParser(parameter, raw) ==
    IF parameter.parser = "nonempty" /\ (raw.json = "null" \/ Blank(raw.text))
    THEN Fail("invalid")
    ELSE {}

-----------------------------------------------------------------------------
(***************************************************************************)
(* An object.  `parse` is how the values in it are parsed.                 *)
(***************************************************************************)
\* Parameter.parseParameter.
ParseParameter(parse, parameter, fields, caller) ==
    LET raw == fields[parameter.name]
    IN Under(parameter.name,
         IF ~ Present(parameter, fields) THEN IF parameter.required THEN Missing ELSE {}
         ELSE IF raw.json = "null" /\ parameter.null = "rejected" THEN Fail("null_rejected")
         ELSE IF raw.json = "null" THEN ApplyParser(parameter, raw)
         ELSE IF /\ parameter.required /\ WireType(parameter.shape) = "string"
                 /\ raw.json = "string" /\ Blank(raw.text)
         THEN Missing
         ELSE Then(EnforceSize(parameter, raw),
              Then(parse[<<parameter.shape, raw, caller>>], ApplyParser(parameter, raw))))

\* Which fields of an object a caller may not send, by the names in the index
\* of its definition.
Unexpected(params, known, fields, caller) ==
    {name \in DOMAIN fields :
        \/ name \notin known
        \/ \E i \in DOMAIN params : /\ params[i].name = name
                                    /\ ~ Available(params[i], caller)
                                    /\ ParamPresent(params[i], fields[name])}

Visible(params, caller) == {i \in DOMAIN params : Available(params[i], caller)}
Seen(params, caller) == {params[i].name : i \in Visible(params, caller)}

\* Of the parameters a caller sees, the ones it sent.
Sent(params, fields, caller) ==
    {params[i].name : i \in {j \in Visible(params, caller) : Present(params[j], fields)}}

\* Mutant: the minimum is not lowered to the names a caller can see.
ApplyAllOf(rule, seen, sent) ==
    LET visible == rule.names \cap seen
        chosen == Cardinality(visible \cap sent)
    IN IF chosen < rule.min THEN FailChoice(visible, "required_choice")
       ELSE IF rule.max > 0 /\ chosen > rule.max THEN FailChoice(visible, "mutually_exclusive")
       ELSE {}

\* presenceRule.apply: among the names the caller can see.
ApplyRule(rule, seen, sent) ==
    LET visible == rule.names \cap seen
        chosen == Cardinality(visible \cap sent)
    IN IF chosen < rule.min /\ chosen < Cardinality(visible)
       THEN FailChoice(visible, "required_choice")
       ELSE IF rule.max > 0 /\ chosen > rule.max THEN FailChoice(visible, "mutually_exclusive")
       ELSE {}

\* The parser of the object itself refuses some combination of parameters.
ApplyObjectParser(shape, sent) ==
    IF shape.refuses # {} /\ shape.refuses \subseteq sent THEN Fail("parse_failed") ELSE {}

\* parseObject, once it has found no unexpected field.
ParseExpected(parse, shape, fields, caller) ==
    LET seen == Seen(shape.params, caller)
        sent == Sent(shape.params, fields, caller)
    IN Then(First([i \in Visible(shape.params, caller) |->
                      ParseParameter(parse, shape.params[i], fields, caller)]),
       Then(First([i \in DOMAIN shape.rules |-> ApplyRule(shape.rules[i], seen, sent)]),
            ApplyObjectParser(shape, sent)))

ParseObject(parse, shape, known, fields, caller) ==
    Then(UNION {Under(name, Fail("unexpected")) :
                   name \in Unexpected(shape.params, known, fields, caller)},
         ParseExpected(parse, shape, fields, caller))

-----------------------------------------------------------------------------
(***************************************************************************)
(* A list of variants.                                                     *)
(***************************************************************************)
Chosen(shape, known, text) ==
    {i \in DOMAIN shape.variants : /\ shape.variants[i].value \in known
                                   /\ shape.variants[i].value = text}

\* What is wrong with the discriminator.
ParseDiscriminator(shape, known, fields) ==
    LET key == fields[shape.discriminator]
    IN IF shape.discriminator \notin DOMAIN fields \/ key.json = "null" THEN Missing
       ELSE IF key.json # "string" THEN Mismatch
       ELSE IF Chosen(shape, known, key.text) = {} THEN Fail("value_not_allowed")
       ELSE {}

ParseVariant(parse, shape, known, fields, caller) ==
    LET chosen == Chosen(shape, known, fields[shape.discriminator].text)
    IN parse[<<shape.variants[Min(chosen)].shape,
               ObjectWithoutKey(fields, shape.discriminator), caller>>]

\* Mutant: an error of the discriminator names the object it is in.
ParseVariantsOfObject(parse, shape, known, fields, caller) ==
    Then(ParseDiscriminator(shape, known, fields),
         ParseVariant(parse, shape, known, fields, caller))

\* DiscriminatedObjectShape.parseShape, with the variants in its index.
ParseVariants(parse, shape, known, fields, caller) ==
    Then(Under(shape.discriminator, ParseDiscriminator(shape, known, fields)),
         ParseVariant(parse, shape, known, fields, caller))

-----------------------------------------------------------------------------
\* What an object looks its names up in: every one it declares.
Declared(shape) ==
    IF shape.kind = "object" THEN Names(shape.params)
    ELSE {shape.variants[i].value : i \in DOMAIN shape.variants}

ParseFields(parse, shape, known, fields, caller) ==
    IF shape.kind = "object" THEN ParseObject(parse, shape, known, fields, caller)
    ELSE ParseVariants(parse, shape, known, fields, caller)

\* Accepts one of the values, a text that may have to be trimmed.
ParseEnum(shape, raw) ==
    IF raw.json # "string" THEN Mismatch
    ELSE IF (IF shape.trim THEN Trimmed[raw.text] ELSE raw.text) \in shape.values THEN {}
    ELSE Fail("value_not_allowed")

\* The items in order; the values of a map in any order.
ParseItems(parse, shape, items, caller) ==
    First([i \in DOMAIN items |-> Under(i, parse[<<shape.item, items[i], caller>>])])

ParseValues(parse, shape, fields, caller) ==
    UNION {Under(name, parse[<<shape.item, fields[name], caller>>]) : name \in DOMAIN fields}

AcceptsScalar(shape, raw) ==
    CASE shape.kind = "int64" -> RawInt64(raw)
      [] shape.kind = "float64" -> raw.json = "number" /\ raw.read # {}
      [] shape.kind = "any" -> TRUE
      [] OTHER -> raw.json = shape.kind

ParseKind(parse, shape, raw, caller) ==
    CASE shape.kind = "enum" -> ParseEnum(shape, raw)
      [] shape.kind = "array" ->
            IF raw.json # "array" THEN Mismatch
            ELSE ParseItems(parse, shape, raw.items, caller)
      [] shape.kind = "map" ->
            IF raw.json # "object" THEN Mismatch
            ELSE ParseValues(parse, shape, raw.fields, caller)
      [] shape.kind \in {"object", "variants"} ->
            IF raw.json # "object" THEN Mismatch
            ELSE ParseFields(parse, shape, Declared(shape), raw.fields, caller)
      [] OTHER -> IF AcceptsScalar(shape, raw) THEN {} ELSE Mismatch

\* The errors of a value that a caller sends for a shape.
ParseShape[at \in Parses] == ParseKind(ParseShape, at[1], at[2], at[3])

ParseBody(shape, known, fields, caller) == ParseFields(ParseShape, shape, known, fields, caller)
=============================================================================
