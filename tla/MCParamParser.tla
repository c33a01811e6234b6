---------------------------- MODULE MCParamParser ----------------------------
(***************************************************************************)
(* Definitions that have between them every kind of shape, rule and null   *)
(* policy, and the bodies in which each field takes the values that tell   *)
(* its cases apart, one size below and one above its bounds.               *)
(***************************************************************************)
EXTENDS ParamSchema, TLC

CONSTANTS public, admin

MCBytes == [ab |-> 2, abc |-> 3, wide |-> 3] @@ ("" :> 0) @@ (" " :> 1) @@ (" ab" :> 3)
MCCharacters == [MCBytes EXCEPT !["wide"] = 2]
MCTrimmed == [ab |-> "ab", abc |-> "abc", wide |-> "wide"] @@ ("" :> "") @@ (" " :> "") @@ (" ab" :> "ab")

Plain(name, shape) ==
    [name |-> name, shape |-> shape, required |-> FALSE, null |-> "as_absent",
     availability |-> Unrestricted, min |-> NoBound, max |-> NoBound,
     minItems |-> NoBound, maxItems |-> NoBound, parser |-> "none"]

Object(params, rules) ==
    [kind |-> "object", params |-> params, rules |-> rules, refuses |-> {}]
Variants(variants) ==
    [kind |-> "variants", discriminator |-> "name", variants |-> variants]
Rule(names, min, max) == [names |-> names, min |-> min, max |-> max]
Kind(kind) == [kind |-> kind]
Tag == [kind |-> "enum", values |-> {"ab"}, trim |-> TRUE]
ForAdmin == SetOf({admin})

Name == [Plain("name", Kind("string")) EXCEPT !.required = TRUE, !.max = 2]
Count == [Plain("count", Kind("int64")) EXCEPT !.min = 1, !.max = 2, !.null = "rejected"]
Secret == [Plain("secret", Kind("float64")) EXCEPT !.availability = ForAdmin]
Note == [Plain("note", Kind("string")) EXCEPT !.parser = "nonempty", !.null = "accepted"]
Tags == [Plain("count", [kind |-> "array", item |-> Tag])
            EXCEPT !.minItems = 1, !.maxItems = 2, !.availability = ForAdmin]
Labels == Plain("secret", [kind |-> "map", item |-> Kind("bool")])
Inner == Plain("note", Object(<<Secret, Plain("count", Kind("any"))>>, <<>>))

Choice == Plain("note", Variants(<<[value |-> "ab", shape |-> Object(<<Secret>>, <<>>)]>>))

MCDefinitions ==
    {Object(<<Name, Count, Secret>>, <<Rule({"count", "secret"}, 2, 0)>>),
     [Object(<<Count, Secret, Note>>, <<Rule({"count", "secret", "note"}, 1, 2)>>)
         EXCEPT !.refuses = {"count", "note"}],
     Object(<<Tags, Labels, Inner>>, <<Rule({"count"}, 1, 1)>>),
     Variants(<<[value |-> "ab", shape |-> Object(<<Count>>, <<>>)],
                [value |-> "abc", shape |-> Object(<<Secret>>, <<>>)]>>),
     Variants(<<[value |-> "ab", shape |-> Object(<<Count>>, <<>>)],
                [value |-> "ab", shape |-> Object(<<Secret>>, <<>>)]>>),
     Variants(<<>>),
     Object(<<Name, Count>>, <<Rule({"count"}, 2, 2)>>),
     Object(<<Choice>>, <<>>)}

Absent == [json |-> "absent"]
Null == [json |-> "null"]
Text(text) == [json |-> "string", text |-> text]
Number(value) == [json |-> "number", around |-> {value}, read |-> {value}, whole |-> TRUE]
Fraction == [json |-> "number", around |-> {1, 2}, read |-> {1, 2}, whole |-> FALSE]
WithPoint == [Number(1) EXCEPT !.whole = FALSE]
Rounded == [Number(3) EXCEPT !.read = {2}]
Huge == [Number(9) EXCEPT !.read = {}]
Items(items) == [json |-> "array", items |-> items]
Fields(fields) == [json |-> "object", fields |-> fields]

Named == {Absent, Null, Text(" "), Text("ab"), Text("abc"), Text("wide")}
Odd == {Fraction, WithPoint, Rounded, Huge}
Counts == {Absent, Null, Number(0), Number(2), Number(3), Number(5)}
        \cup {Items([i \in 1 .. n |-> Text(" ab")]) : n \in 0 .. 3}
        \cup {Items(<<Text("ab"), Text("abc")>>)}
Kept == {Absent, Null, Number(1), Text("ab"), Fields([name |-> [json |-> "bool"]]),
         Fields([name |-> [json |-> "bool"], note |-> Null])}
Noted == {Absent, Null, Text("ab"), Fields([secret |-> Null]),
          Fields([secret |-> Number(1), count |-> Text("")]), Fields([name |-> Null]),
          Fields([name |-> Text("ab"), secret |-> Number(1)]), Fields([name |-> Text(" ")])}

Body(values) ==
    Fields([n \in {f \in DOMAIN values : values[f] # Absent} |-> values[n]])

MCBodies ==
    {[json |-> "blank"], [json |-> "malformed"], Null, Items(<<>>)}
    \cup {Body([name |-> n, count |-> c, secret |-> s]) :
            n \in Named, c \in Counts \cup Odd, s \in Kept}
    \cup {Body([name |-> Text("ab"), secret |-> s]) : s \in Odd}
    \cup {Body([count |-> c, secret |-> s, note |-> o]) :
            c \in Counts, s \in Kept, o \in Noted}

RaceBodies == {Fields(<<>>), Fields([name |-> Text("ab"), count |-> Number(1)])}

\* All that these consist of, with the values a discriminator was taken from.
RECURSIVE ShapeParts(_), ShapeHeight(_), ValueParts(_), ValueHeight(_)
ShapeParts(shape) == {shape} \cup UNION {ShapeParts(inner) : inner \in ShapesIn(shape)}
ShapeHeight(shape) == 1 + Max({0} \cup {ShapeHeight(inner) : inner \in ShapesIn(shape)})
ValueParts(raw) == {raw} \cup UNION {ValueParts(inner) : inner \in ValuesIn(raw)}
ValueHeight(raw) == 1 + Max({0} \cup {ValueHeight(inner) : inner \in ValuesIn(raw)})

WithoutName(raw) == IF raw.json = "object" THEN ObjectWithoutKey(raw.fields, "name") ELSE raw
Whole == UNION {ValueParts(raw) :
                   raw \in {b \in MCBodies \cup RaceBodies : b.json = "object"} \cup {Empty}}

RECURSIVE SchemaParts(_), SchemaHeight(_)
SchemaParts(schema) == {schema} \cup UNION {SchemaParts(inner) : inner \in SchemasIn(schema)}
SchemaHeight(schema) == 1 + Max({0} \cup {SchemaHeight(inner) : inner \in SchemasIn(schema)})

MCShapes == UNION {ShapeParts(shape) : shape \in MCDefinitions}
MCShapeDepth == [shape \in MCShapes |-> ShapeHeight(shape)]
MCValues == Whole \cup {WithoutName(raw) : raw \in Whole}
MCValueDepth == [raw \in MCValues |-> ValueHeight(raw)]
MCSchemas == UNION {SchemaParts(FromParamShape[shape]) \cup SchemaParts(FromParamShapeSwagger2[shape]) :
                       shape \in Shapes}
MCSchemaDepth == [schema \in MCSchemas |-> SchemaHeight(schema)]
=============================================================================
