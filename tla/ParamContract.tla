----------------------------- MODULE ParamContract -----------------------------
(***************************************************************************)
(* What a parameter definition promises each caller, stated without an     *)
(* order: which values satisfy the contract the caller sees, in which      *)
(* nothing can be sent for a parameter it does not see.                    *)
(***************************************************************************)
EXTENDS ParamShapes

WithinSizes(parameter, raw) ==
    LET AtLeast(bound, sizes) == bound # NoBound => \A size \in sizes : size >= bound
        AtMost(bound, sizes) == bound # NoBound => \A size \in sizes : size <= bound
    IN /\ AtLeast(parameter.min, Measured(parameter.shape, raw))
       /\ AtMost(parameter.max, Measured(parameter.shape, raw))
       /\ AtLeast(parameter.minItems, Counted(raw))
       /\ AtMost(parameter.maxItems, Counted(raw))

\* A value sent for a parameter.  `satisfies` is which values fit their shapes.
SatisfiesParameter(satisfies, parameter, raw, caller) ==
    LET blank == \/ raw.json = "null"
                 \/ raw.json = "string" /\ Blank(raw.text)
    IN /\ parameter.parser = "nonempty" => ~ blank
       /\ raw.json = "null" => parameter.null = "accepted"
       /\ raw.json # "null" =>
             /\ satisfies[<<parameter.shape, raw, caller>>]
             /\ WithinSizes(parameter, raw)
             /\ ~ (parameter.required /\ WireType(parameter.shape) = "string" /\ blank)

\* Of the names a caller sees, at least the minimum are there, or all of them,
\* and at most the maximum.
SatisfiesRule(rule, seen, present) ==
    LET visible == rule.names \cap seen
        chosen == Cardinality(visible \cap present)
    IN /\ chosen >= rule.min \/ visible \subseteq present
       /\ rule.max > 0 => chosen <= rule.max

SatisfiesObject(satisfies, shape, fields, caller) ==
    LET seen == Seen(shape.params, caller)
        present == {shape.params[i].name :
                       i \in {j \in DOMAIN shape.params : Present(shape.params[j], fields)}}
    IN /\ DOMAIN fields \subseteq Names(shape.params)
       /\ \A i \in DOMAIN shape.params :
             LET parameter == shape.params[i]
             IN IF Present(parameter, fields)
                THEN /\ Available(parameter, caller)
                     /\ SatisfiesParameter(satisfies, parameter, fields[parameter.name], caller)
                ELSE parameter.required => ~ Available(parameter, caller)
       /\ \A i \in DOMAIN shape.rules : SatisfiesRule(shape.rules[i], seen, present)
       /\ shape.refuses # {} => ~ (shape.refuses \subseteq present)

SatisfiesVariants(satisfies, shape, fields, caller) ==
    /\ shape.discriminator \in DOMAIN fields
    /\ LET key == fields[shape.discriminator]
       IN /\ key.json = "string"
          /\ \E i \in DOMAIN shape.variants :
                /\ key.text = shape.variants[i].value
                /\ satisfies[<<shape.variants[i].shape,
                                ObjectWithoutKey(fields, shape.discriminator), caller>>]

SatisfiesKind(satisfies, shape, raw, caller) ==
    CASE shape.kind = "object" ->
            raw.json = "object" /\ SatisfiesObject(satisfies, shape, raw.fields, caller)
      [] shape.kind = "variants" ->
            raw.json = "object" /\ SatisfiesVariants(satisfies, shape, raw.fields, caller)
      [] shape.kind = "array" ->
            /\ raw.json = "array"
            /\ \A i \in DOMAIN raw.items : satisfies[<<shape.item, raw.items[i], caller>>]
      [] shape.kind = "map" ->
            /\ raw.json = "object"
            /\ \A name \in DOMAIN raw.fields :
                  satisfies[<<shape.item, raw.fields[name], caller>>]
      [] shape.kind = "enum" ->
            raw.json = "string" /\ {raw.text, IF shape.trim THEN Trimmed[raw.text] ELSE raw.text}
                                       \cap shape.values # {}
      [] OTHER -> AcceptsScalar(shape, raw)

\* Whether a value satisfies what a caller sees of a shape.
Satisfies[at \in Parses] == SatisfiesKind(Satisfies, at[1], at[2], at[3])

\* What is in a value, each with its path.
Inside(step, contents) ==
    {[path |-> <<step>> \o found.path, raw |-> found.raw] : found \in contents}

ContentsOf(contents, raw) ==
    {[path |-> <<>>, raw |-> raw]} \cup
    CASE raw.json = "array" ->
            UNION {Inside(i, contents[raw.items[i]]) : i \in DOMAIN raw.items}
      [] raw.json = "object" ->
            UNION {Inside(name, contents[raw.fields[name]]) : name \in DOMAIN raw.fields}
      [] OTHER -> {}

Contents[raw \in Values] == ContentsOf(Contents, raw)

\* What is at a path of a value: nothing, or one value.
At(raw, path) == {found.raw : found \in {f \in Contents[raw] : f.path = path}}

\* An error is about what is at its paths: nothing that can be used, one of them
\* not given, several of them given, or what is there.
InPlace(raw, error) ==
    LET Given(path) == At(raw, path) # {}
        Withheld(path) == \A found \in At(raw, path) : found.json = "null"
        Blanked(path) == \A found \in At(raw, path) :
                            \/ found.json = "null"
                            \/ found.json = "string" /\ Blank(found.text)
    IN CASE error.code = "missing" -> \A path \in error.paths : Blanked(path)
         [] error.code = "required_choice" -> \E path \in error.paths : Withheld(path)
         [] error.code = "mutually_exclusive" ->
                \E left, right \in error.paths : left # right /\ Given(left) /\ Given(right)
         [] OTHER -> \A path \in error.paths : Given(path)

\* The names a shape looks up in the object it is given.
NamesReadBy(read, shape) ==
    CASE shape.kind = "object" -> Names(shape.params)
      [] shape.kind = "variants" ->
            {shape.discriminator} \cup UNION {read[inner] : inner \in ShapesIn(shape)}
      [] OTHER -> {}

NamesRead[shape \in Shapes] == NamesReadBy(NamesRead, shape)

\* "Variant object shapes should omit the discriminator parameter"
\* (discriminator.go:11).
OmitsDiscriminator(shape) ==
    \A part \in Parts[shape] : part.kind = "variants" =>
        \A inner \in ShapesIn(part) : part.discriminator \notin NamesRead[inner]
=============================================================================
