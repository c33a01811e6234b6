------------------------------ MODULE ParamProofs ------------------------------
(***************************************************************************)
(* Proofs about ParamParser and ParamSchema, for any set of definitions,   *)
(* bodies and callers: a request that is parsed alone is accepted exactly  *)
(* when it satisfies the contract its caller sees, the errors of any       *)
(* request are in place, and the OpenAPI documents of a definition tell    *)
(* what parses.  The functions of the model that call themselves are first *)
(* shown to be what their definitions say (ProofFacts).                    *)
(***************************************************************************)
EXTENDS ParamSchema, FiniteSetTheorems, ProofFacts

-----------------------------------------------------------------------------
(***************************************************************************)
(* What is in a shape, and the recursive functions over shapes and values. *)
(***************************************************************************)
LEMMA ShapesRank == ShapeDepth \in [Shapes -> Nat]
  BY ShapesAssumption

LEMMA ShapeInside ==
    ASSUME NEW shape \in Shapes, NEW inner \in ShapesIn(shape)
    PROVE  inner \in Shapes /\ ShapeDepth[inner] < ShapeDepth[shape]
  BY ShapesAssumption, Zenon

LEMMA ValuesRank == ValueDepth \in [Values -> Nat]
  BY ValuesAssumption

LEMMA ValueInside ==
    ASSUME NEW raw \in Values, NEW inner \in ValuesIn(raw)
    PROVE  inner \in Values /\ ValueDepth[inner] < ValueDepth[raw]
  BY ValuesAssumption, Zenon

\* A shape is one of its parts, and has the parts of what it is built from.
LEMMA PartsOfShape ==
    ASSUME NEW shape \in Shapes
    PROVE  /\ shape \in Parts[shape]
           /\ \A inner \in ShapesIn(shape) : Parts[inner] \subseteq Parts[shape]
  <1> DEFINE T == SUBSET Shapes
             Body(g, s) == {s} \cup UNION {g[inner] : inner \in ShapesIn(s)}
             D == [p \in [Shapes -> T] \X Shapes |-> Body(p[1], p[2])]
  <1>1. ASSUME NEW g \in [Shapes -> T], NEW s \in Shapes
        PROVE  Body(g, s) \in T
    BY ShapeInside
  <1>2. ASSUME NEW g, NEW h, NEW s \in Shapes,
               \A x \in Shapes : ShapeDepth[x] < ShapeDepth[s] => g[x] = h[x]
        PROVE  Body(g, s) = Body(h, s)
    BY <1>2, ShapeInside
  <1> HIDE DEF Body
  <1>3. \A g \in [Shapes -> T], s \in Shapes : D[<<g, s>>] = Body(g, s)
    BY DEF D
  <1>4. D \in [[Shapes -> T] \X Shapes -> T]
    <2> HIDE DEF T
    <2> QED
      BY <1>1 DEF D
  <1> HIDE DEF D, T
  <1>5. LooksLower(Shapes, T, ShapeDepth, D)
    BY <1>2, <1>3 DEF LooksLower
  <1>6. Recursion(Shapes, T, ShapeDepth, D)
    <2>1. T # {}
      BY DEF T
    <2> QED
      BY <1>4, <1>5, <2>1, ShapesRank DEF Recursion
  <1>7. PICK f : Solves(Shapes, T, D, f)
    BY <1>6, RecursiveFunction
  <1>8. f = [s \in Shapes |-> Body(f, s)]
    BY <1>3, <1>7 DEF Solves
  <1>9. Parts = [s \in Shapes |-> Body(Parts, s)]
    BY <1>8, ZenonT(60) DEF Parts, Body
  <1>10. Parts[shape] = {shape} \cup UNION {Parts[inner] : inner \in ShapesIn(shape)}
    BY <1>9 DEF Body
  <1> QED
    BY <1>10

\* What a shape looks up: the names of its parameters, or its discriminator and
\* what its variants look up.
LEMMA NamesReadIs ==
    ASSUME NEW shape \in Shapes
    PROVE  NamesRead[shape] = NamesReadBy(NamesRead, shape)
  <1> DEFINE T == SUBSET STRING
             D == [p \in [Shapes -> T] \X Shapes |-> NamesReadBy(p[1], p[2])]
  <1>1. ASSUME NEW g \in [Shapes -> T], NEW s \in Shapes
        PROVE  NamesReadBy(g, s) \in T
    <2>1. CASE s.kind = "object"
      <3>1. Names(s.params) \subseteq STRING
        BY <2>1, ShapesAssumption DEF Names, IsParameter
      <3> QED
        BY <2>1, <3>1 DEF NamesReadBy
    <2>2. CASE s.kind = "variants"
      <3>1. s.discriminator \in STRING
        BY <2>2, ShapesAssumption
      <3>2. \A inner \in ShapesIn(s) : g[inner] \in T
        BY ShapeInside
      <3> QED
        BY <2>2, <3>1, <3>2 DEF NamesReadBy
    <2> QED
      BY <2>1, <2>2 DEF NamesReadBy
  <1>2. ASSUME NEW g, NEW h, NEW s \in Shapes,
               \A x \in Shapes : ShapeDepth[x] < ShapeDepth[s] => g[x] = h[x]
        PROVE  NamesReadBy(g, s) = NamesReadBy(h, s)
    <2>1. UNION {g[inner] : inner \in ShapesIn(s)} = UNION {h[inner] : inner \in ShapesIn(s)}
      BY <1>2, ShapeInside
    <2> QED
      BY <2>1 DEF NamesReadBy
  <1>3. \A g \in [Shapes -> T], s \in Shapes : D[<<g, s>>] = NamesReadBy(g, s)
    OBVIOUS
  <1>4. D \in [[Shapes -> T] \X Shapes -> T]
    <2> HIDE DEF T
    <2> QED
      BY <1>1
  <1> HIDE DEF D, T
  <1>5. LooksLower(Shapes, T, ShapeDepth, D)
    BY <1>2, <1>3 DEF LooksLower
  <1>6. Recursion(Shapes, T, ShapeDepth, D)
    <2>1. T # {}
      BY DEF T
    <2> QED
      BY <1>4, <1>5, <2>1, ShapesRank DEF Recursion
  <1>7. PICK f : Solves(Shapes, T, D, f)
    BY <1>6, RecursiveFunction
  <1>8. f = [s \in Shapes |-> NamesReadBy(f, s)]
    BY <1>3, <1>7 DEF Solves
  <1>9. NamesRead = [s \in Shapes |-> NamesReadBy(NamesRead, s)]
    BY <1>8, ZenonT(60) DEF NamesRead
  <1> QED
    BY <1>9

-----------------------------------------------------------------------------
(***************************************************************************)
(* The errors of a parse.                                                  *)
(***************************************************************************)
Steps == Nat \cup STRING
Codes == {"type_mismatch", "missing", "unexpected", "null_rejected", "invalid", "too_small",
          "too_large", "value_not_allowed", "required_choice", "mutually_exclusive",
          "parse_failed"}
Errors == [paths : SUBSET Seq(Steps), code : Codes]

LEMMA FailOnce ==
    ASSUME NEW code \in Codes
    PROVE  Fail(code) \subseteq Errors /\ Fail(code) # {}
  <1>1. <<>> \in Seq(Steps)
    OBVIOUS
  <1> QED
    BY <1>1 DEF Fail, Errors

LEMMA ChoiceErrors ==
    ASSUME NEW names, names \subseteq Steps, NEW code \in Codes
    PROVE  FailChoice(names, code) \subseteq Errors
  <1>1. \A name \in names : <<name>> \in Seq(Steps)
    OBVIOUS
  <1>2. {<<name>> : name \in names} \subseteq Seq(Steps)
    BY <1>1
  <1> QED
    BY <1>2 DEF FailChoice, Errors

LEMMA UnderErrors ==
    ASSUME NEW step \in Steps, NEW errors, errors \subseteq Errors
    PROVE  Under(step, errors) \subseteq Errors
  <1> SUFFICES ASSUME NEW error \in errors
               PROVE  [paths |-> {<<step>> \o path : path \in error.paths},
                       code |-> error.code] \in Errors
    BY DEF Under
  <1>1. error.paths \subseteq Seq(Steps) /\ error.code \in Codes
    BY DEF Errors
  <1>2. \A path \in error.paths : <<step>> \o path \in Seq(Steps)
    BY <1>1
  <1> QED
    BY <1>1, <1>2 DEF Errors

LEMMA UnderNone ==
    ASSUME NEW step, NEW errors
    PROVE  Under(step, errors) = {} <=> errors = {}
  BY DEF Under

LEMMA ThenErrors ==
    ASSUME NEW errors, NEW next, errors \subseteq Errors, next \subseteq Errors
    PROVE  Then(errors, next) \subseteq Errors
  BY DEF Then

\* The first check that fails is one that fails; there is none when none does.
LEMMA FirstFails ==
    ASSUME NEW checks, DOMAIN checks \subseteq Nat
    PROVE  /\ First(checks) = {} <=> \A i \in DOMAIN checks : checks[i] = {}
           /\ First(checks) # {} => \E i \in DOMAIN checks : First(checks) = checks[i]
  <1> DEFINE failed == {i \in DOMAIN checks : checks[i] # {}}
  <1>1. CASE failed = {}
    BY <1>1 DEF First
  <1>2. CASE failed # {}
    <2>1. failed \subseteq Nat
      OBVIOUS
    <2>2. \E x \in failed : \A y \in failed : x <= y
      BY <1>2, <2>1, Least
    <2>3. Min(failed) \in failed
      BY <2>2 DEF Min
    <2>4. First(checks) = checks[Min(failed)]
      BY <1>2 DEF First
    <2> QED
      BY <2>3, <2>4
  <1> QED
    BY <1>1, <1>2

LEMMA FirstErrors ==
    ASSUME NEW checks, DOMAIN checks \subseteq Nat,
           \A i \in DOMAIN checks : checks[i] \subseteq Errors
    PROVE  First(checks) \subseteq Errors
  BY FirstFails, Zenon

\* What a shape is built from, and what is in a value, kind by kind.
LEMMA BuiltFrom ==
    ASSUME NEW shape \in Shapes
    PROVE  /\ shape.kind \in {"array", "map"} => shape.item \in ShapesIn(shape)
           /\ shape.kind = "object" =>
                 /\ DOMAIN shape.params \subseteq Nat /\ DOMAIN shape.rules \subseteq Nat
                 /\ \A i \in DOMAIN shape.params : /\ IsParameter(shape.params[i])
                                                   /\ shape.params[i].shape \in ShapesIn(shape)
           /\ shape.kind = "variants" =>
                 /\ DOMAIN shape.variants \subseteq Nat
                 /\ shape.discriminator \in STRING
                 /\ \A i \in DOMAIN shape.variants :
                       shape.variants[i].shape \in ShapesIn(shape)
  <1>1. CASE shape.kind = "object"
    <2>1. /\ IsList(shape.params) /\ IsList(shape.rules)
          /\ \A i \in DOMAIN shape.params : IsParameter(shape.params[i])
      BY <1>1, ShapesAssumption
    <2> QED
      BY <1>1, <2>1 DEF IsList, ShapesIn
  <1>2. CASE shape.kind = "variants"
    <2>1. shape.discriminator \in STRING /\ IsList(shape.variants)
      BY <1>2, ShapesAssumption
    <2> QED
      BY <1>2, <2>1 DEF IsList, ShapesIn
  <1>3. CASE shape.kind \in {"array", "map"}
    BY <1>3 DEF ShapesIn
  <1> QED
    BY <1>1, <1>2, <1>3

LEMMA FoundIn ==
    ASSUME NEW raw \in Values
    PROVE  /\ raw.json = "array" =>
                 /\ DOMAIN raw.items \subseteq Nat
                 /\ \A i \in DOMAIN raw.items : raw.items[i] \in ValuesIn(raw) /\ raw.items[i] \in Values
           /\ raw.json = "object" =>
                 /\ DOMAIN raw.fields \subseteq STRING
                 /\ \A name \in DOMAIN raw.fields :
                       raw.fields[name] \in ValuesIn(raw) /\ raw.fields[name] \in Values
                 /\ \A shape \in Shapes : shape.kind = "variants" =>
                       ObjectWithoutKey(raw.fields, shape.discriminator) \in Values
  <1>1. CASE raw.json = "array"
    <2>1. IsList(raw.items)
      BY <1>1, ValuesAssumption
    <2>2. \A i \in DOMAIN raw.items : raw.items[i] \in ValuesIn(raw)
      BY <1>1 DEF ValuesIn
    <2> QED
      BY <1>1, <2>1, <2>2, ValueInside DEF IsList
  <1>2. CASE raw.json = "object"
    <2>1. \A name \in DOMAIN raw.fields : raw.fields[name] \in ValuesIn(raw)
      BY <1>2 DEF ValuesIn
    <2>2. /\ DOMAIN raw.fields \subseteq STRING
          /\ \A shape \in Shapes : shape.kind = "variants" =>
                ObjectWithoutKey(raw.fields, shape.discriminator) \in Values
      BY <1>2, ValuesAssumption
    <2> QED
      BY <1>2, <2>1, <2>2, ValueInside
  <1> QED
    BY <1>1, <1>2

\* The least of the variants that are chosen is one of them.
LEMMA ChosenFirst ==
    ASSUME NEW shape \in Shapes, shape.kind = "variants", NEW known, NEW text,
           Chosen(shape, known, text) # {}
    PROVE  Min(Chosen(shape, known, text)) \in Chosen(shape, known, text)
  <1> DEFINE chosen == Chosen(shape, known, text)
  <1>1. chosen \subseteq Nat
    BY BuiltFrom DEF Chosen
  <1> HIDE DEF chosen
  <1>2. \E x \in chosen : \A y \in chosen : x <= y
    BY <1>1, Least DEF chosen
  <1>3. Min(chosen) \in chosen
    BY <1>2 DEF Min
  <1> QED
    BY <1>3 DEF chosen

LEMMA Fails == \A code \in Codes : Fail(code) \subseteq Errors
  BY FailOnce

\* What a discriminator that is right says, and what it may report.
LEMMA DiscriminatorRight ==
    ASSUME NEW shape, NEW known, NEW fields
    PROVE  /\ ParseDiscriminator(shape, known, fields) = {} <=>
                 /\ shape.discriminator \in DOMAIN fields
                 /\ fields[shape.discriminator].json = "string"
                 /\ Chosen(shape, known, fields[shape.discriminator].text) # {}
           /\ ParseDiscriminator(shape, known, fields) \subseteq Errors
  <1>1. /\ Missing \subseteq Errors /\ Mismatch \subseteq Errors
        /\ Fail("value_not_allowed") \subseteq Errors
    BY Fails DEF Missing, Mismatch, Codes
  <1>2. Missing # {} /\ Mismatch # {} /\ Fail("value_not_allowed") # {}
    BY DEF Missing, Mismatch, Fail
  <1> QED
    BY <1>1, <1>2 DEF ParseDiscriminator

\* Two ways to parse that are the same for what a shape is built from, and one
\* that reports errors.
Agree(g, h, shape) ==
    \A s \in ShapesIn(shape), raw \in Values, caller \in Calling :
        g[<<s, raw, caller>>] = h[<<s, raw, caller>>]

Reports(g, shape) ==
    \A s \in ShapesIn(shape), raw \in Values, caller \in Calling :
        g[<<s, raw, caller>>] \subseteq Errors

LEMMA ParameterAgrees ==
    ASSUME NEW g, NEW h, NEW shape \in Shapes, shape.kind = "object", Agree(g, h, shape),
           NEW i \in DOMAIN shape.params,
           NEW raw \in Values, raw.json = "object", NEW caller \in Calling
    PROVE  ParseParameter(g, shape.params[i], raw.fields, caller)
               = ParseParameter(h, shape.params[i], raw.fields, caller)
  <1> DEFINE parameter == shape.params[i]
             sent == raw.fields[parameter.name]
  <1>1. CASE parameter.name \in DOMAIN raw.fields
    <2>1. g[<<parameter.shape, sent, caller>>] = h[<<parameter.shape, sent, caller>>]
      BY <1>1, BuiltFrom, FoundIn DEF Agree
    <2> QED
      BY <2>1 DEF ParseParameter
  <1>2. CASE parameter.name \notin DOMAIN raw.fields
    <2>1. ~ Present(parameter, raw.fields)
      BY <1>2 DEF Present
    <2> QED
      BY <2>1 DEF ParseParameter
  <1> QED
    BY <1>1, <1>2

LEMMA VariantAgrees ==
    ASSUME NEW g, NEW h, NEW shape \in Shapes, shape.kind = "variants", Agree(g, h, shape),
           NEW known, NEW raw \in Values, raw.json = "object", NEW caller \in Calling
    PROVE  ParseVariants(g, shape, known, raw.fields, caller)
               = ParseVariants(h, shape, known, raw.fields, caller)
  <1> DEFINE text == raw.fields[shape.discriminator].text
             chosen == Chosen(shape, known, text)
             rest == ObjectWithoutKey(raw.fields, shape.discriminator)
  <1>1. CASE ParseDiscriminator(shape, known, raw.fields) = {}
    <2>1. chosen # {}
      BY <1>1, DiscriminatorRight
    <2>2. Min(chosen) \in chosen
      BY <2>1, ChosenFirst
    <2>3. shape.variants[Min(chosen)].shape \in ShapesIn(shape) /\ rest \in Values
      BY <2>2, BuiltFrom, FoundIn DEF Chosen
    <2>4. g[<<shape.variants[Min(chosen)].shape, rest, caller>>]
              = h[<<shape.variants[Min(chosen)].shape, rest, caller>>]
      BY <2>3 DEF Agree
    <2> QED
      BY <2>4 DEF ParseVariants, ParseVariant
  <1>2. CASE ParseDiscriminator(shape, known, raw.fields) # {}
    <2>1. Under(shape.discriminator, ParseDiscriminator(shape, known, raw.fields)) # {}
      BY <1>2, UnderNone
    <2> QED
      BY <2>1 DEF ParseVariants, Then
  <1> QED
    BY <1>1, <1>2

LEMMA FieldsAgree ==
    ASSUME NEW g, NEW h, NEW shape \in Shapes, shape.kind \in {"object", "variants"},
           Agree(g, h, shape), NEW known,
           NEW raw \in Values, raw.json = "object", NEW caller \in Calling
    PROVE  ParseFields(g, shape, known, raw.fields, caller)
               = ParseFields(h, shape, known, raw.fields, caller)
  <1>1. CASE shape.kind = "object"
    <2>1. \A i \in Visible(shape.params, caller) :
             ParseParameter(g, shape.params[i], raw.fields, caller)
                 = ParseParameter(h, shape.params[i], raw.fields, caller)
      BY <1>1, ParameterAgrees DEF Visible
    <2>2. [i \in Visible(shape.params, caller) |->
                ParseParameter(g, shape.params[i], raw.fields, caller)]
              = [i \in Visible(shape.params, caller) |->
                    ParseParameter(h, shape.params[i], raw.fields, caller)]
      BY <2>1
    <2> QED
      BY <1>1, <2>2 DEF ParseFields, ParseObject, ParseExpected
  <1>2. CASE shape.kind = "variants"
    BY <1>2, VariantAgrees DEF ParseFields
  <1> QED
    BY <1>1, <1>2

LEMMA KindAgrees ==
    ASSUME NEW g, NEW h, NEW shape \in Shapes, Agree(g, h, shape),
           NEW raw \in Values, NEW caller \in Calling
    PROVE  ParseKind(g, shape, raw, caller) = ParseKind(h, shape, raw, caller)
  <1>1. CASE shape.kind = "array" /\ raw.json = "array"
    <2>1. \A i \in DOMAIN raw.items :
             g[<<shape.item, raw.items[i], caller>>] = h[<<shape.item, raw.items[i], caller>>]
      BY <1>1, BuiltFrom, FoundIn DEF Agree
    <2>2. [i \in DOMAIN raw.items |-> Under(i, g[<<shape.item, raw.items[i], caller>>])]
              = [i \in DOMAIN raw.items |-> Under(i, h[<<shape.item, raw.items[i], caller>>])]
      BY <2>1
    <2> QED
      BY <1>1, <2>2 DEF ParseKind, ParseItems
  <1>2. CASE shape.kind = "map" /\ raw.json = "object"
    <2>1. \A name \in DOMAIN raw.fields :
             g[<<shape.item, raw.fields[name], caller>>]
                 = h[<<shape.item, raw.fields[name], caller>>]
      BY <1>2, BuiltFrom, FoundIn DEF Agree
    <2>2. {Under(name, g[<<shape.item, raw.fields[name], caller>>]) : name \in DOMAIN raw.fields}
              = {Under(name, h[<<shape.item, raw.fields[name], caller>>]) :
                    name \in DOMAIN raw.fields}
      BY <2>1
    <2> QED
      BY <1>2, <2>2 DEF ParseKind, ParseValues
  <1>3. CASE shape.kind \in {"object", "variants"} /\ raw.json = "object"
    BY <1>3, FieldsAgree DEF ParseKind
  <1>4. CASE shape.kind \notin {"array", "map", "object", "variants"}
    BY <1>4 DEF ParseKind
  <1>5. CASE shape.kind = "array" /\ raw.json # "array"
    BY <1>5 DEF ParseKind
  <1>6. CASE shape.kind \in {"map", "object", "variants"} /\ raw.json # "object"
    BY <1>6 DEF ParseKind
  <1> QED
    BY <1>1, <1>2, <1>3, <1>4, <1>5, <1>6

LEMMA SizeErrors ==
    ASSUME NEW sizes, NEW min, NEW max
    PROVE  /\ WithinBounds(sizes, min, max) \subseteq Errors
           /\ WithinBounds(sizes, min, max) = {} <=>
                 /\ min # NoBound => \A size \in sizes : ~ (size < min)
                 /\ max # NoBound => \A size \in sizes : ~ (size > max)
  <1>1. Fail("too_small") \subseteq Errors /\ Fail("too_large") \subseteq Errors
    BY Fails DEF Codes
  <1>2. Fail("too_small") # {} /\ Fail("too_large") # {}
    BY DEF Fail
  <1> QED
    BY <1>1, <1>2 DEF WithinBounds

LEMMA ParameterErrors ==
    ASSUME NEW g, NEW shape \in Shapes, shape.kind = "object", Reports(g, shape),
           NEW i \in DOMAIN shape.params,
           NEW raw \in Values, raw.json = "object", NEW caller \in Calling
    PROVE  ParseParameter(g, shape.params[i], raw.fields, caller) \subseteq Errors
  <1> DEFINE parameter == shape.params[i]
             sent == raw.fields[parameter.name]
  <1>1. parameter.name \in Steps
    BY BuiltFrom DEF IsParameter, Steps
  <1>2. /\ Missing \subseteq Errors /\ Fail("null_rejected") \subseteq Errors
        /\ Fail("invalid") \subseteq Errors
    BY Fails DEF Missing, Codes
  <1>3. /\ EnforceSize(parameter, sent) \subseteq Errors
        /\ ApplyParser(parameter, sent) \subseteq Errors
    BY <1>2, SizeErrors DEF EnforceSize, ApplyParser, Then
  <1>4. CASE parameter.name \in DOMAIN raw.fields
    <2>1. g[<<parameter.shape, sent, caller>>] \subseteq Errors
      BY <1>4, BuiltFrom, FoundIn DEF Reports
    <2> QED
      BY <1>1, <1>2, <1>3, <2>1, ThenErrors, UnderErrors DEF ParseParameter
  <1>5. CASE parameter.name \notin DOMAIN raw.fields
    <2>1. ~ Present(parameter, raw.fields)
      BY <1>5 DEF Present
    <2> QED
      BY <1>1, <1>2, <2>1, UnderErrors DEF ParseParameter
  <1> QED
    BY <1>4, <1>5

LEMMA SeenSteps ==
    ASSUME NEW shape \in Shapes, shape.kind = "object", NEW caller
    PROVE  Seen(shape.params, caller) \subseteq Names(shape.params) \cap Steps
  BY BuiltFrom DEF Seen, Visible, Names, IsParameter, Steps

LEMMA ObjectErrors ==
    ASSUME NEW g, NEW shape \in Shapes, shape.kind = "object", Reports(g, shape), NEW known,
           NEW raw \in Values, raw.json = "object", NEW caller \in Calling
    PROVE  ParseObject(g, shape, known, raw.fields, caller) \subseteq Errors
  <1> DEFINE seen == Seen(shape.params, caller)
             sent == Sent(shape.params, raw.fields, caller)
             visible == Visible(shape.params, caller)
             parsed == [i \in visible |-> ParseParameter(g, shape.params[i], raw.fields, caller)]
             applied == [i \in DOMAIN shape.rules |-> ApplyRule(shape.rules[i], seen, sent)]
             unexpected == Unexpected(shape.params, known, raw.fields, caller)
  <1>1. First(parsed) \subseteq Errors
    <2>1. DOMAIN parsed \subseteq Nat
      BY BuiltFrom DEF Visible
    <2>2. \A i \in DOMAIN parsed : parsed[i] \subseteq Errors
      BY ParameterErrors DEF Visible
    <2> HIDE DEF parsed
    <2> QED
      BY <2>1, <2>2, FirstErrors
  <1>2. First(applied) \subseteq Errors
    <2>1. DOMAIN applied \subseteq Nat
      BY BuiltFrom
    <2>2. \A names \in SUBSET Steps : /\ FailChoice(names, "required_choice") \subseteq Errors
                                      /\ FailChoice(names, "mutually_exclusive") \subseteq Errors
      BY ChoiceErrors DEF Codes
    <2>3. \A i \in DOMAIN shape.rules : shape.rules[i].names \cap seen \in SUBSET Steps
      BY SeenSteps
    <2>4. \A i \in DOMAIN applied : applied[i] \subseteq Errors
      <3> HIDE DEF seen, sent
      <3> QED
        BY <2>2, <2>3 DEF ApplyRule
    <2> HIDE DEF applied
    <2> QED
      BY <2>1, <2>4, FirstErrors
  <1>3. ApplyObjectParser(shape, sent) \subseteq Errors
    BY Fails DEF ApplyObjectParser, Codes
  <1>4. ASSUME NEW name \in unexpected
        PROVE  Under(name, Fail("unexpected")) \subseteq Errors
    <2>1. name \in Steps
      BY FoundIn DEF Unexpected, Steps
    <2> QED
      BY <2>1, Fails, UnderErrors DEF Codes
  <1> HIDE DEF parsed, applied, unexpected
  <1>5. UNION {Under(name, Fail("unexpected")) : name \in unexpected} \subseteq Errors
    BY <1>4
  <1>6. ParseExpected(g, shape, raw.fields, caller)
            = Then(First(parsed), Then(First(applied), ApplyObjectParser(shape, sent)))
    BY DEF ParseExpected, parsed, applied
  <1> QED
    BY <1>1, <1>2, <1>3, <1>5, <1>6, ThenErrors DEF ParseObject, unexpected

LEMMA VariantErrors ==
    ASSUME NEW g, NEW shape \in Shapes, shape.kind = "variants", Reports(g, shape), NEW known,
           NEW raw \in Values, raw.json = "object", NEW caller \in Calling
    PROVE  ParseVariants(g, shape, known, raw.fields, caller) \subseteq Errors
  <1> DEFINE text == raw.fields[shape.discriminator].text
             chosen == Chosen(shape, known, text)
             rest == ObjectWithoutKey(raw.fields, shape.discriminator)
             wrong == ParseDiscriminator(shape, known, raw.fields)
  <1>1. Under(shape.discriminator, wrong) \subseteq Errors
    <2>1. shape.discriminator \in Steps
      BY BuiltFrom DEF Steps
    <2> QED
      BY <2>1, DiscriminatorRight, UnderErrors
  <1>2. CASE wrong = {}
    <2>1. Min(chosen) \in chosen
      BY <1>2, DiscriminatorRight, ChosenFirst
    <2>2. shape.variants[Min(chosen)].shape \in ShapesIn(shape) /\ rest \in Values
      BY <2>1, BuiltFrom, FoundIn DEF Chosen
    <2>3. g[<<shape.variants[Min(chosen)].shape, rest, caller>>] \subseteq Errors
      BY <2>2 DEF Reports
    <2> QED
      BY <1>1, <2>3, ThenErrors DEF ParseVariants, ParseVariant
  <1>3. CASE wrong # {}
    BY <1>1, <1>3, UnderNone DEF ParseVariants, Then
  <1> QED
    BY <1>2, <1>3

LEMMA FieldsErrors ==
    ASSUME NEW g, NEW shape \in Shapes, shape.kind \in {"object", "variants"},
           Reports(g, shape), NEW known,
           NEW raw \in Values, raw.json = "object", NEW caller \in Calling
    PROVE  ParseFields(g, shape, known, raw.fields, caller) \subseteq Errors
  BY ObjectErrors, VariantErrors DEF ParseFields

LEMMA KindErrors ==
    ASSUME NEW g, NEW shape \in Shapes, Reports(g, shape),
           NEW raw \in Values, NEW caller \in Calling
    PROVE  ParseKind(g, shape, raw, caller) \subseteq Errors
  <1>0. Mismatch \subseteq Errors /\ Fail("value_not_allowed") \subseteq Errors
    BY Fails DEF Mismatch, Codes
  <1>1. CASE shape.kind = "array" /\ raw.json = "array"
    <2> DEFINE checks == [i \in DOMAIN raw.items |->
                             Under(i, g[<<shape.item, raw.items[i], caller>>])]
    <2>1. DOMAIN checks \subseteq Nat
      BY <1>1, FoundIn
    <2>2. ASSUME NEW i \in DOMAIN checks
          PROVE  checks[i] \subseteq Errors
      <3>1. i \in Steps /\ g[<<shape.item, raw.items[i], caller>>] \subseteq Errors
        BY <1>1, <2>1, BuiltFrom, FoundIn DEF Reports, Steps
      <3> QED
        BY <3>1, UnderErrors
    <2> HIDE DEF checks
    <2>3. First(checks) \subseteq Errors
      BY <2>1, <2>2, FirstErrors
    <2> QED
      BY <1>1, <2>3 DEF ParseKind, ParseItems, checks
  <1>2. CASE shape.kind = "map" /\ raw.json = "object"
    <2>1. ASSUME NEW name \in DOMAIN raw.fields
          PROVE  Under(name, g[<<shape.item, raw.fields[name], caller>>]) \subseteq Errors
      <3>1. name \in Steps /\ g[<<shape.item, raw.fields[name], caller>>] \subseteq Errors
        BY <1>2, BuiltFrom, FoundIn DEF Reports, Steps
      <3> QED
        BY <3>1, UnderErrors
    <2> QED
      BY <1>2, <2>1 DEF ParseKind, ParseValues
  <1>3. CASE shape.kind \in {"object", "variants"} /\ raw.json = "object"
    BY <1>3, FieldsErrors DEF ParseKind
  <1>4. CASE shape.kind \notin {"array", "map", "object", "variants"}
    BY <1>0, <1>4 DEF ParseKind, ParseEnum
  <1>5. CASE shape.kind = "array" /\ raw.json # "array"
    BY <1>0, <1>5 DEF ParseKind
  <1>6. CASE shape.kind \in {"map", "object", "variants"} /\ raw.json # "object"
    BY <1>0, <1>6 DEF ParseKind
  <1> QED
    BY <1>1, <1>2, <1>3, <1>4, <1>5, <1>6

-----------------------------------------------------------------------------
(***************************************************************************)
(* ParseShape is what its definition says.                                 *)
(***************************************************************************)
ParseDepth == [at \in Parses |-> ShapeDepth[at[1]]]

LEMMA ParsePlace ==
    ASSUME NEW shape \in Shapes, NEW raw \in Values, NEW caller \in Calling
    PROVE  <<shape, raw, caller>> \in Parses
  BY DEF Parses

LEMMA ParsesRank ==
    /\ ParseDepth \in [Parses -> Nat]
    /\ \A at \in Parses :
          /\ at[1] \in Shapes /\ at[2] \in Values /\ at[3] \in Calling
          /\ ParseDepth[at] = ShapeDepth[at[1]]
          /\ \A s \in ShapesIn(at[1]), raw \in Values, caller \in Calling :
                /\ <<s, raw, caller>> \in Parses
                /\ ParseDepth[<<s, raw, caller>>] < ParseDepth[at]
  <1>1. \A at \in Parses : at[1] \in Shapes /\ at[2] \in Values /\ at[3] \in Calling
    BY DEF Parses
  <1>2. ParseDepth \in [Parses -> Nat] /\ \A at \in Parses : ParseDepth[at] = ShapeDepth[at[1]]
    BY <1>1, ShapesRank DEF ParseDepth
  <1>3. ASSUME NEW at \in Parses, NEW s \in ShapesIn(at[1]), NEW raw \in Values,
               NEW caller \in Calling
        PROVE  /\ <<s, raw, caller>> \in Parses
               /\ ParseDepth[<<s, raw, caller>>] < ParseDepth[at]
    <2>1. s \in Shapes /\ ShapeDepth[s] < ShapeDepth[at[1]]
      BY <1>1, ShapeInside
    <2>2. <<s, raw, caller>> \in Parses
      BY <2>1, ParsePlace
    <2> QED
      BY <1>2, <2>1, <2>2
  <1> QED
    BY <1>1, <1>2, <1>3

LEMMA ParseShapeIs ==
    ASSUME NEW shape \in Shapes, NEW raw \in Values, NEW caller \in Calling
    PROVE  ParseShape[<<shape, raw, caller>>] = ParseKind(ParseShape, shape, raw, caller)
  <1> DEFINE T == SUBSET Errors
             Body(g, at) == ParseKind(g, at[1], at[2], at[3])
             D == [p \in [Parses -> T] \X Parses |-> Body(p[1], p[2])]
  <1>1. ASSUME NEW g \in [Parses -> T], NEW at \in Parses
        PROVE  Body(g, at) \in T
    <2>1. Reports(g, at[1])
      BY ParsesRank DEF Reports
    <2> QED
      BY <2>1, ParsesRank, KindErrors
  <1>2. ASSUME NEW g, NEW h, NEW at \in Parses,
               \A x \in Parses : ParseDepth[x] < ParseDepth[at] => g[x] = h[x]
        PROVE  Body(g, at) = Body(h, at)
    <2>1. Agree(g, h, at[1])
      BY <1>2, ParsesRank DEF Agree
    <2> QED
      BY <2>1, ParsesRank, KindAgrees
  <1> HIDE DEF Body
  <1>3. \A g \in [Parses -> T], at \in Parses : D[<<g, at>>] = Body(g, at)
    BY DEF D
  <1>4. D \in [[Parses -> T] \X Parses -> T]
    <2> HIDE DEF T
    <2> QED
      BY <1>1 DEF D
  <1> HIDE DEF D, T
  <1>5. LooksLower(Parses, T, ParseDepth, D)
    BY <1>2, <1>3 DEF LooksLower
  <1>6. Recursion(Parses, T, ParseDepth, D)
    <2>1. T # {}
      BY DEF T
    <2> QED
      BY <1>4, <1>5, <2>1, ParsesRank DEF Recursion
  <1>7. PICK f : Solves(Parses, T, D, f)
    BY <1>6, RecursiveFunction
  <1>8. f = [at \in Parses |-> ParseKind(f, at[1], at[2], at[3])]
    BY <1>3, <1>7 DEF Solves, Body
  <1>9. ParseShape = [at \in Parses |-> ParseKind(ParseShape, at[1], at[2], at[3])]
    BY <1>8, ZenonT(60) DEF ParseShape
  <1> QED
    BY <1>9, ParsePlace

-----------------------------------------------------------------------------
(***************************************************************************)
(* Satisfies is what its definition says.                                  *)
(***************************************************************************)
LEMMA ParameterFits ==
    ASSUME NEW g, NEW h, NEW shape \in Shapes, shape.kind = "object", Agree(g, h, shape),
           NEW i \in DOMAIN shape.params,
           NEW raw \in Values, raw.json = "object", NEW caller \in Calling,
           shape.params[i].name \in DOMAIN raw.fields
    PROVE  SatisfiesParameter(g, shape.params[i], raw.fields[shape.params[i].name], caller)
             <=> SatisfiesParameter(h, shape.params[i], raw.fields[shape.params[i].name], caller)
  <1> DEFINE parameter == shape.params[i]
             sent == raw.fields[parameter.name]
  <1>1. g[<<parameter.shape, sent, caller>>] = h[<<parameter.shape, sent, caller>>]
    BY BuiltFrom, FoundIn DEF Agree
  <1> QED
    BY <1>1 DEF SatisfiesParameter

LEMMA ObjectFits ==
    ASSUME NEW g, NEW h, NEW shape \in Shapes, shape.kind = "object", Agree(g, h, shape),
           NEW raw \in Values, raw.json = "object", NEW caller \in Calling
    PROVE  SatisfiesObject(g, shape, raw.fields, caller)
             <=> SatisfiesObject(h, shape, raw.fields, caller)
  <1>1. \A i \in DOMAIN shape.params : Present(shape.params[i], raw.fields) =>
           (SatisfiesParameter(g, shape.params[i], raw.fields[shape.params[i].name], caller)
              <=> SatisfiesParameter(h, shape.params[i], raw.fields[shape.params[i].name], caller))
    BY ParameterFits DEF Present
  <1> QED
    BY <1>1 DEF SatisfiesObject

LEMMA VariantFits ==
    ASSUME NEW g, NEW h, NEW shape \in Shapes, shape.kind = "variants", Agree(g, h, shape),
           NEW raw \in Values, raw.json = "object", NEW caller \in Calling
    PROVE  SatisfiesVariants(g, shape, raw.fields, caller)
             <=> SatisfiesVariants(h, shape, raw.fields, caller)
  <1> DEFINE rest == ObjectWithoutKey(raw.fields, shape.discriminator)
  <1>1. \A i \in DOMAIN shape.variants :
           g[<<shape.variants[i].shape, rest, caller>>]
               = h[<<shape.variants[i].shape, rest, caller>>]
    BY BuiltFrom, FoundIn DEF Agree
  <1> QED
    BY <1>1 DEF SatisfiesVariants

LEMMA KindFits ==
    ASSUME NEW g, NEW h, NEW shape \in Shapes, Agree(g, h, shape),
           NEW raw \in Values, NEW caller \in Calling
    PROVE  SatisfiesKind(g, shape, raw, caller) <=> SatisfiesKind(h, shape, raw, caller)
  <1>1. CASE shape.kind = "array" /\ raw.json = "array"
    <2>1. \A i \in DOMAIN raw.items :
             g[<<shape.item, raw.items[i], caller>>] = h[<<shape.item, raw.items[i], caller>>]
      BY <1>1, BuiltFrom, FoundIn DEF Agree
    <2> QED
      BY <1>1, <2>1 DEF SatisfiesKind
  <1>2. CASE shape.kind = "map" /\ raw.json = "object"
    <2>1. \A name \in DOMAIN raw.fields :
             g[<<shape.item, raw.fields[name], caller>>]
                 = h[<<shape.item, raw.fields[name], caller>>]
      BY <1>2, BuiltFrom, FoundIn DEF Agree
    <2> QED
      BY <1>2, <2>1 DEF SatisfiesKind
  <1>3. CASE shape.kind = "object" /\ raw.json = "object"
    BY <1>3, ObjectFits DEF SatisfiesKind
  <1>4. CASE shape.kind = "variants" /\ raw.json = "object"
    BY <1>4, VariantFits DEF SatisfiesKind
  <1>5. CASE shape.kind \notin {"array", "map", "object", "variants"}
    BY <1>5 DEF SatisfiesKind
  <1>6. CASE shape.kind = "array" /\ raw.json # "array"
    BY <1>6 DEF SatisfiesKind
  <1>7. CASE shape.kind \in {"map", "object", "variants"} /\ raw.json # "object"
    BY <1>7 DEF SatisfiesKind
  <1> QED
    BY <1>1, <1>2, <1>3, <1>4, <1>5, <1>6, <1>7

LEMMA SatisfiesIs ==
    ASSUME NEW shape \in Shapes, NEW raw \in Values, NEW caller \in Calling
    PROVE  Satisfies[<<shape, raw, caller>>] <=> SatisfiesKind(Satisfies, shape, raw, caller)
  <1> DEFINE T == BOOLEAN
             Body(g, at) == SatisfiesKind(g, at[1], at[2], at[3])
             D == [p \in [Parses -> T] \X Parses |-> Body(p[1], p[2])]
  <1>1. ASSUME NEW g, NEW at
        PROVE  Body(g, at) \in T
    BY DEF SatisfiesKind, SatisfiesObject, SatisfiesVariants, AcceptsScalar, RawInt64
  <1>2. ASSUME NEW g, NEW h, NEW at \in Parses,
               \A x \in Parses : ParseDepth[x] < ParseDepth[at] => g[x] = h[x]
        PROVE  Body(g, at) = Body(h, at)
    <2>1. Agree(g, h, at[1])
      BY <1>2, ParsesRank DEF Agree
    <2>2. Body(g, at) <=> Body(h, at)
      BY <2>1, ParsesRank, KindFits
    <2> QED
      BY <1>1, <2>2
  <1> HIDE DEF Body
  <1>3. \A g \in [Parses -> T], at \in Parses : D[<<g, at>>] = Body(g, at)
    BY DEF D
  <1>4. D \in [[Parses -> T] \X Parses -> T]
    <2> HIDE DEF T
    <2> QED
      BY <1>1 DEF D
  <1> HIDE DEF D, T
  <1>5. LooksLower(Parses, T, ParseDepth, D)
    BY <1>2, <1>3 DEF LooksLower
  <1>6. Recursion(Parses, T, ParseDepth, D)
    <2>1. T # {}
      BY DEF T
    <2> QED
      BY <1>4, <1>5, <2>1, ParsesRank DEF Recursion
  <1>7. PICK f : Solves(Parses, T, D, f)
    BY <1>6, RecursiveFunction
  <1>8. f = [at \in Parses |-> SatisfiesKind(f, at[1], at[2], at[3])]
    BY <1>3, <1>7 DEF Solves, Body
  <1>9. Satisfies = [at \in Parses |-> SatisfiesKind(Satisfies, at[1], at[2], at[3])]
    BY <1>8, ZenonT(60) DEF Satisfies
  <1> QED
    BY <1>9, ParsePlace

-----------------------------------------------------------------------------
(***************************************************************************)
(* A parse reports nothing exactly when the contract is satisfied.         *)
(***************************************************************************)
Right(shape) ==
    \A raw \in Values, caller \in Calling :
        ParseShape[<<shape, raw, caller>>] = {} <=> Satisfies[<<shape, raw, caller>>]

\* Everything in a definition was accepted by its builder, and its lists of
\* variants will be when they are used.
Usable(shape) ==
    \A part \in Parts[shape] :
        Builds(part) /\ (part.kind = "variants" => NormalizesVariants(part))

LEMMA FailCodes == \A code \in Codes : Fail(code) # {}
  BY DEF Fail

\* What is parsed as a text is one.
LEMMA TextParsed ==
    ASSUME NEW shape \in Shapes, WireType(shape) = "string", NEW raw \in Values,
           NEW caller \in Calling, ParseShape[<<shape, raw, caller>>] = {}
    PROVE  raw.json = "string"
  <1>1. ParseKind(ParseShape, shape, raw, caller) = {}
    BY ParseShapeIs
  <1>2. Mismatch # {}
    BY FailCodes DEF Mismatch, Codes
  <1>3. CASE shape.kind = "enum"
    BY <1>1, <1>2, <1>3 DEF ParseKind, ParseEnum
  <1>4. CASE shape.kind = "string"
    BY <1>1, <1>2, <1>4 DEF ParseKind, AcceptsScalar
  <1> QED
    BY <1>3, <1>4 DEF WireType

LEMMA SizesRight ==
    ASSUME NEW parameter, IsParameter(parameter), NEW raw \in Values
    PROVE  EnforceSize(parameter, raw) = {} <=> WithinSizes(parameter, raw)
  <1>1. Measured(parameter.shape, raw) \subseteq Int
    <2>1. raw.json = "object" => Cardinality(DOMAIN raw.fields) \in Nat
      BY ValuesAssumption, FS_CardinalityType
    <2>2. raw.json = "array" => Len(raw.items) \in Nat
      BY ValuesAssumption DEF IsList
    <2>3. raw.json = "string" => Bytes[raw.text] \in Nat
      BY ValuesAssumption
    <2>4. raw.json = "number" => raw.read \subseteq Int
      BY ValuesAssumption
    <2> QED
      BY <2>1, <2>2, <2>3, <2>4 DEF Measured, RawInt64
  <1>2. Counted(raw) \subseteq Int
    BY ValuesAssumption DEF IsList, Counted
  <1>3. /\ parameter.min \in Int /\ parameter.max \in Int
        /\ parameter.minItems \in Int /\ parameter.maxItems \in Int
    BY DEF IsParameter
  <1>4. EnforceSize(parameter, raw) = {} <=>
           /\ WithinBounds(Measured(parameter.shape, raw), parameter.min, parameter.max) = {}
           /\ WithinBounds(Counted(raw), parameter.minItems, parameter.maxItems) = {}
    BY DEF EnforceSize, Then
  <1>5. \A sizes, bound : sizes \subseteq Int /\ bound \in Int =>
           \A size \in sizes : (~ (size < bound) <=> size >= bound)
                               /\ (~ (size > bound) <=> size <= bound)
    OBVIOUS
  <1> QED
    BY <1>1, <1>2, <1>3, <1>4, <1>5, SizeErrors DEF WithinSizes

LEMMA ParameterRight ==
    ASSUME NEW shape \in Shapes, shape.kind = "object", NEW i \in DOMAIN shape.params,
           Right(shape.params[i].shape),
           NEW raw \in Values, raw.json = "object", NEW caller \in Calling
    PROVE  ParseParameter(ParseShape, shape.params[i], raw.fields, caller) = {} <=>
              IF Present(shape.params[i], raw.fields)
              THEN SatisfiesParameter(Satisfies, shape.params[i],
                                      raw.fields[shape.params[i].name], caller)
              ELSE ~ shape.params[i].required
  <1> DEFINE parameter == shape.params[i]
             sent == raw.fields[parameter.name]
             blank == sent.json = "string" /\ Blank(sent.text)
             parsed == ParseShape[<<parameter.shape, sent, caller>>]
             errors == ParseParameter(ParseShape, parameter, raw.fields, caller)
             fits == SatisfiesParameter(Satisfies, parameter, sent, caller)
  <1>0. /\ IsParameter(parameter) /\ parameter.shape \in Shapes
        /\ parameter.required \in BOOLEAN
        /\ parameter.null \in {"as_absent", "rejected", "accepted"}
        /\ parameter.parser = "nonempty" => WireType(parameter.shape) = "string"
    BY BuiltFrom, ShapeInside DEF IsParameter
  <1>1. Missing # {} /\ Fail("null_rejected") # {} /\ Fail("invalid") # {}
    BY DEF Missing, Fail
  <1>2. CASE ~ Present(parameter, raw.fields)
    BY <1>0, <1>1, <1>2, UnderNone DEF ParseParameter
  <1>3. CASE Present(parameter, raw.fields) /\ sent.json = "null"
    <2>1. parameter.null \in {"rejected", "accepted"}
      BY <1>0, <1>3 DEF Present, ParamPresent
    <2>2. errors = {} <=> parameter.null # "rejected" /\ parameter.parser # "nonempty"
      BY <1>1, <1>3, UnderNone DEF ParseParameter, ApplyParser
    <2>3. fits <=> parameter.null = "accepted" /\ parameter.parser # "nonempty"
      BY <1>3 DEF SatisfiesParameter
    <2> QED
      BY <1>3, <2>1, <2>2, <2>3
  <1>4. CASE Present(parameter, raw.fields) /\ sent.json # "null"
    <2>1. sent \in Values
      BY <1>4, FoundIn DEF Present
    <2>2. errors = {} <=>
             /\ ~ (parameter.required /\ WireType(parameter.shape) = "string" /\ blank)
             /\ EnforceSize(parameter, sent) = {}
             /\ parsed = {}
             /\ ApplyParser(parameter, sent) = {}
      BY <1>1, <1>4, UnderNone DEF ParseParameter, Then
    <2>3. parsed = {} => (ApplyParser(parameter, sent) = {} <=>
                             (parameter.parser = "nonempty" => ~ blank))
      BY <1>0, <1>1, <1>4, <2>1, TextParsed DEF ApplyParser
    <2>4. EnforceSize(parameter, sent) = {} <=> WithinSizes(parameter, sent)
      BY <1>0, <2>1, SizesRight
    <2>5. parsed = {} <=> Satisfies[<<parameter.shape, sent, caller>>]
      BY <2>1 DEF Right
    <2>6. fits <=>
             /\ parameter.parser = "nonempty" => ~ blank
             /\ Satisfies[<<parameter.shape, sent, caller>>]
             /\ WithinSizes(parameter, sent)
             /\ ~ (parameter.required /\ WireType(parameter.shape) = "string" /\ blank)
      BY <1>4 DEF SatisfiesParameter
    <2> HIDE DEF parsed, blank, errors, fits
    <2> QED
      BY <1>4, <2>2, <2>3, <2>4, <2>5, <2>6 DEF errors, fits
  <1> QED
    BY <1>2, <1>3, <1>4

LEMMA RuleRight ==
    ASSUME NEW rule, IsFiniteSet(rule.names), rule.min \in Nat, rule.max \in Nat,
           NEW seen, NEW sent
    PROVE  ApplyRule(rule, seen, sent) = {} <=> SatisfiesRule(rule, seen, sent)
  <1> DEFINE visible == rule.names \cap seen
             chosen == visible \cap sent
  <1>1. FailChoice(visible, "required_choice") # {} /\ FailChoice(visible, "mutually_exclusive") # {}
    BY DEF FailChoice
  <1>2. IsFiniteSet(visible) /\ chosen \subseteq visible
    BY FS_Subset
  <1>3. /\ Cardinality(chosen) \in Nat /\ Cardinality(visible) \in Nat
        /\ Cardinality(chosen) <= Cardinality(visible)
        /\ Cardinality(chosen) = Cardinality(visible) => chosen = visible
    BY <1>2, FS_Subset, FS_CardinalityType
  <1>4. Cardinality(chosen) < Cardinality(visible) <=> ~ (visible \subseteq sent)
    BY <1>3
  <1>5. ApplyRule(rule, seen, sent) = {} <=>
           /\ ~ (Cardinality(chosen) < rule.min /\ Cardinality(chosen) < Cardinality(visible))
           /\ ~ (rule.max > 0 /\ Cardinality(chosen) > rule.max)
    BY <1>1 DEF ApplyRule
  <1>6. SatisfiesRule(rule, seen, sent) <=>
           /\ Cardinality(chosen) >= rule.min \/ visible \subseteq sent
           /\ rule.max > 0 => Cardinality(chosen) <= rule.max
    BY DEF SatisfiesRule
  <1> HIDE DEF chosen, visible
  <1> QED
    BY <1>3, <1>4, <1>5, <1>6

\* An object reports nothing when no field is unexpected, each parameter is
\* right and each rule holds.
LEMMA ObjectRight ==
    ASSUME NEW shape \in Shapes, shape.kind = "object",
           \A inner \in ShapesIn(shape) : Right(inner),
           NEW raw \in Values, raw.json = "object", NEW caller \in Calling
    PROVE  ParseObject(ParseShape, shape, Declared(shape), raw.fields, caller) = {}
             <=> SatisfiesObject(Satisfies, shape, raw.fields, caller)
  <1> DEFINE fields == raw.fields
             params == shape.params
             seen == Seen(params, caller)
             sent == Sent(params, fields, caller)
             present == {params[i].name : i \in {j \in DOMAIN params : Present(params[j], fields)}}
             visible == Visible(params, caller)
             parsed == [i \in visible |-> ParseParameter(ParseShape, params[i], fields, caller)]
             applied == [i \in DOMAIN shape.rules |-> ApplyRule(shape.rules[i], seen, sent)]
             unexpected == Unexpected(params, Declared(shape), fields, caller)
             allowed == \A i \in DOMAIN params :
                           Present(params[i], fields) => Available(params[i], caller)
             Fits(i) == IF Present(params[i], fields)
                        THEN SatisfiesParameter(Satisfies, params[i], fields[params[i].name], caller)
                        ELSE ~ params[i].required
  <1>0. /\ DOMAIN params \subseteq Nat /\ DOMAIN shape.rules \subseteq Nat
        /\ \A i \in DOMAIN params : /\ params[i].required \in BOOLEAN
                                    /\ params[i].shape \in ShapesIn(shape)
    BY BuiltFrom DEF IsParameter
  <1>1. unexpected = {} <=> DOMAIN fields \subseteq Names(params) /\ allowed
    <2>1. Declared(shape) = Names(params)
      BY DEF Declared
    <2> QED
      BY <2>1 DEF Unexpected, Present, Names
  <1>2. UNION {Under(name, Fail("unexpected")) : name \in unexpected} = {} <=> unexpected = {}
    <2>1. \A name \in unexpected : Under(name, Fail("unexpected")) # {}
      BY UnderNone DEF Fail
    <2> HIDE DEF unexpected
    <2> QED
      BY <2>1
  <1>3. First(parsed) = {} <=> \A i \in visible : Fits(i)
    <2>1. DOMAIN parsed \subseteq Nat
      BY <1>0 DEF Visible
    <2>2. \A i \in visible : parsed[i] = {} <=> Fits(i)
      BY <1>0, ParameterRight DEF Visible
    <2> HIDE DEF Fits
    <2>3. First(parsed) = {} <=> \A i \in visible : parsed[i] = {}
      <3> HIDE DEF visible
      <3>1. DOMAIN parsed = visible
        OBVIOUS
      <3> HIDE DEF parsed
      <3> QED
        BY <2>1, <3>1, FirstFails
    <2> QED
      BY <2>2, <2>3
  <1>4. First(applied) = {} <=>
           \A i \in DOMAIN shape.rules : SatisfiesRule(shape.rules[i], seen, sent)
    <2>1. \A i \in DOMAIN shape.rules : applied[i] = {} <=> SatisfiesRule(shape.rules[i], seen, sent)
      <3> SUFFICES ASSUME NEW i \in DOMAIN shape.rules
                   PROVE  applied[i] = {} <=> SatisfiesRule(shape.rules[i], seen, sent)
        OBVIOUS
      <3>1. /\ IsFiniteSet(shape.rules[i].names)
            /\ shape.rules[i].min \in Nat /\ shape.rules[i].max \in Nat
        BY ShapesAssumption
      <3> QED
        BY <3>1, RuleRight
    <2>2. DOMAIN applied = DOMAIN shape.rules
      OBVIOUS
    <2> HIDE DEF applied
    <2> QED
      BY <1>0, <2>1, <2>2, FirstFails
  <1>5. ApplyObjectParser(shape, sent) = {} <=>
           (shape.refuses # {} => ~ (shape.refuses \subseteq sent))
    BY DEF ApplyObjectParser, Fail
  <1>6. ParseObject(ParseShape, shape, Declared(shape), fields, caller) = {} <=>
           /\ unexpected = {} /\ First(parsed) = {} /\ First(applied) = {}
           /\ ApplyObjectParser(shape, sent) = {}
    <2> HIDE DEF unexpected
    <2> QED
      BY <1>2 DEF ParseObject, ParseExpected, Then, unexpected
  <1>7. allowed => sent = present
    BY DEF Sent, Visible
  <1>8. SatisfiesObject(Satisfies, shape, fields, caller) <=>
           /\ DOMAIN fields \subseteq Names(params)
           /\ allowed
           /\ \A i \in visible : Fits(i)
           /\ \A i \in DOMAIN shape.rules : SatisfiesRule(shape.rules[i], seen, present)
           /\ shape.refuses # {} => ~ (shape.refuses \subseteq present)
    BY <1>0 DEF SatisfiesObject, Visible
  <1> HIDE DEF unexpected, parsed, applied, Fits, allowed, sent, present, visible
  <1> QED
    BY <1>1, <1>3, <1>4, <1>5, <1>6, <1>7, <1>8

LEMMA VariantRight ==
    ASSUME NEW shape \in Shapes, shape.kind = "variants", NormalizesVariants(shape),
           \A inner \in ShapesIn(shape) : Right(inner),
           NEW raw \in Values, raw.json = "object", NEW caller \in Calling
    PROVE  ParseVariants(ParseShape, shape, Declared(shape), raw.fields, caller) = {}
             <=> SatisfiesVariants(Satisfies, shape, raw.fields, caller)
  <1> DEFINE fields == raw.fields
             key == fields[shape.discriminator]
             chosen == Chosen(shape, Declared(shape), key.text)
             first == Min(chosen)
             rest == ObjectWithoutKey(fields, shape.discriminator)
             wrong == ParseDiscriminator(shape, Declared(shape), fields)
             errors == ParseShape[<<shape.variants[first].shape, rest, caller>>]
  <1>1. chosen = {i \in DOMAIN shape.variants : shape.variants[i].value = key.text}
    BY DEF Chosen, Declared
  <1>2. wrong = {} <=> /\ shape.discriminator \in DOMAIN fields
                       /\ key.json = "string"
                       /\ chosen # {}
    BY DiscriminatorRight
  <1>3. ParseVariants(ParseShape, shape, Declared(shape), fields, caller) = {} <=>
           wrong = {} /\ errors = {}
    BY UnderNone DEF ParseVariants, ParseVariant, Then
  <1>4. CASE chosen = {}
    <2> HIDE DEF wrong, errors, rest
    <2> QED
      BY <1>1, <1>2, <1>3, <1>4 DEF SatisfiesVariants
  <1>5. CASE chosen # {}
    <2>1. first \in chosen
      BY <1>5, ChosenFirst
    <2>2. \A i \in DOMAIN shape.variants : shape.variants[i].value = key.text <=> i = first
      BY <1>1, <2>1 DEF NormalizesVariants
    <2>3. errors = {} <=> Satisfies[<<shape.variants[first].shape, rest, caller>>]
      <3>1. first \in DOMAIN shape.variants
        BY <1>1, <2>1
      <3>2. shape.variants[first].shape \in ShapesIn(shape) /\ rest \in Values
        BY <3>1, BuiltFrom, FoundIn
      <3> QED
        BY <3>2 DEF Right
    <2>4. SatisfiesVariants(Satisfies, shape, fields, caller) <=>
             /\ shape.discriminator \in DOMAIN fields
             /\ key.json = "string"
             /\ Satisfies[<<shape.variants[first].shape, rest, caller>>]
      <3>1. first \in DOMAIN shape.variants
        BY <1>1, <2>1
      <3> HIDE DEF first, chosen
      <3> QED
        BY <2>2, <3>1 DEF SatisfiesVariants
    <2> HIDE DEF wrong, errors, rest, first, chosen, key
    <2> QED
      BY <1>2, <1>3, <1>5, <2>3, <2>4
  <1> QED
    BY <1>4, <1>5

LEMMA KindRight ==
    ASSUME NEW shape \in Shapes, \A inner \in ShapesIn(shape) : Right(inner), Builds(shape),
           shape.kind = "variants" => NormalizesVariants(shape)
    PROVE  Right(shape)
  <1> SUFFICES ASSUME NEW raw \in Values, NEW caller \in Calling
               PROVE  ParseKind(ParseShape, shape, raw, caller) = {}
                        <=> SatisfiesKind(Satisfies, shape, raw, caller)
    BY ParseShapeIs, SatisfiesIs DEF Right
  <1>0. Mismatch # {} /\ Fail("value_not_allowed") # {}
    BY DEF Mismatch, Fail
  <1>1. CASE shape.kind = "array" /\ raw.json = "array"
    <2> DEFINE checks == [i \in DOMAIN raw.items |->
                             Under(i, ParseShape[<<shape.item, raw.items[i], caller>>])]
    <2>1. DOMAIN checks = DOMAIN raw.items /\ DOMAIN raw.items \subseteq Nat
      BY <1>1, FoundIn
    <2>2. \A i \in DOMAIN raw.items :
             checks[i] = {} <=> Satisfies[<<shape.item, raw.items[i], caller>>]
      BY <1>1, BuiltFrom, FoundIn, UnderNone, ZenonT(60) DEF Right
    <2> HIDE DEF checks
    <2>3. First(checks) = {} <=> \A i \in DOMAIN raw.items : checks[i] = {}
      BY <2>1, FirstFails
    <2> QED
      BY <1>1, <2>2, <2>3 DEF ParseKind, ParseItems, SatisfiesKind, checks
  <1>2. CASE shape.kind = "map" /\ raw.json = "object"
    <2> DEFINE Checks(name) == Under(name, ParseShape[<<shape.item, raw.fields[name], caller>>])
    <2>1. \A name \in DOMAIN raw.fields :
             Checks(name) = {} <=> Satisfies[<<shape.item, raw.fields[name], caller>>]
      BY <1>2, BuiltFrom, FoundIn, UnderNone DEF Right
    <2>2. ParseKind(ParseShape, shape, raw, caller)
              = UNION {Checks(name) : name \in DOMAIN raw.fields}
      BY <1>2 DEF ParseKind, ParseValues
    <2>3. SatisfiesKind(Satisfies, shape, raw, caller) <=>
             \A name \in DOMAIN raw.fields : Satisfies[<<shape.item, raw.fields[name], caller>>]
      BY <1>2 DEF SatisfiesKind
    <2> HIDE DEF Checks
    <2>4. UNION {Checks(name) : name \in DOMAIN raw.fields} = {} <=>
             \A name \in DOMAIN raw.fields : Checks(name) = {}
      OBVIOUS
    <2> QED
      BY <2>1, <2>2, <2>3, <2>4
  <1>3. CASE shape.kind = "object" /\ raw.json = "object"
    BY <1>3, ObjectRight DEF ParseKind, ParseFields, SatisfiesKind
  <1>4. CASE shape.kind = "variants" /\ raw.json = "object"
    BY <1>4, VariantRight DEF ParseKind, ParseFields, SatisfiesKind
  <1>5. CASE shape.kind = "enum"
    <2>1. raw.text \in shape.values => Trimmed[raw.text] = raw.text
      BY <1>5 DEF Builds, NormalizesEnum
    <2> QED
      BY <1>0, <1>5, <2>1 DEF ParseKind, ParseEnum, SatisfiesKind
  <1>6. CASE shape.kind \notin {"array", "map", "object", "variants", "enum"}
    BY <1>0, <1>6 DEF ParseKind, SatisfiesKind
  <1>7. CASE shape.kind = "array" /\ raw.json # "array"
    BY <1>0, <1>7 DEF ParseKind, SatisfiesKind
  <1>8. CASE shape.kind \in {"map", "object", "variants"} /\ raw.json # "object"
    BY <1>0, <1>8 DEF ParseKind, SatisfiesKind
  <1> QED
    BY <1>1, <1>2, <1>3, <1>4, <1>5, <1>6, <1>7, <1>8

\* For every definition, value and caller: a parse that is not disturbed
\* reports nothing exactly when the value satisfies the caller's contract.
THEOREM ParsesByContract ==
    ASSUME NEW shape \in Shapes, Usable(shape)
    PROVE  \A raw \in Values, caller \in Calling :
              ParseShape[<<shape, raw, caller>>] = {} <=> Satisfies[<<shape, raw, caller>>]
  <1> DEFINE Good == {s \in Shapes : Usable(s) => Right(s)}
  <1>1. ASSUME NEW s \in Shapes,
               \A x \in Shapes : ShapeDepth[x] < ShapeDepth[s] => x \in Good
        PROVE  s \in Good
    <2> SUFFICES ASSUME Usable(s) PROVE Right(s)
      OBVIOUS
    <2>1. /\ s \in Parts[s]
          /\ \A inner \in ShapesIn(s) : Parts[inner] \subseteq Parts[s]
      BY PartsOfShape
    <2>2. \A inner \in ShapesIn(s) : Usable(inner)
      BY <2>1 DEF Usable
    <2>3. \A inner \in ShapesIn(s) : Right(inner)
      BY <1>1, <2>2, ShapeInside
    <2>4. Builds(s) /\ (s.kind = "variants" => NormalizesVariants(s))
      BY <2>1 DEF Usable
    <2> QED
      BY <2>3, <2>4, KindRight
  <1>2. Good \subseteq Shapes
    OBVIOUS
  <1> HIDE DEF Good
  <1>3. Good = Shapes
    BY <1>1, <1>2, ShapesRank, Everywhere
  <1> QED
    BY <1>3 DEF Good, Right

-----------------------------------------------------------------------------
(***************************************************************************)
(* The workers.                                                            *)
(***************************************************************************)
WorkerFields == {"step", "body", "caller", "next", "outcome"}

\* What a worker has, and that nothing is parsed before its body is an object.
Typed ==
    /\ definition \in Definitions /\ Defines(definition)
    /\ DOMAIN workers = Workers
    /\ \A w \in Workers :
          /\ DOMAIN workers[w] = WorkerFields
          /\ workers[w].body \in Bodies \cup {Empty}
          /\ workers[w].caller \in Calling
          /\ workers[w].step \in {"normalize", "insert", "rules", "check"} =>
                workers[w].body.json = "object"

\* How a parse ends that may report these errors.
Results(errors) ==
    IF errors = {} THEN {[kind |-> "accepted"]}
    ELSE {[kind |-> "rejected", error |-> error] : error \in errors}

ErrorsOf(w, known) ==
    ParseBody(definition, known, workers[w].body.fields, workers[w].caller)

\* A worker that goes on to another step, or that ends.
LEMMA Stepped ==
    ASSUME Typed, NEW w \in Workers, NEW from, NEW to, Step(w, from, to)
    PROVE  /\ workers[w].step = from
           /\ DOMAIN workers' = Workers
           /\ \A v \in Workers : v # w => workers'[v] = workers[v]
           /\ DOMAIN workers'[w] = WorkerFields
           /\ workers'[w].step = to
           /\ workers'[w].body = workers[w].body /\ workers'[w].caller = workers[w].caller
           /\ workers'[w].next = workers[w].next /\ workers'[w].outcome = workers[w].outcome
  BY DEF Typed, Step, WorkerFields

LEMMA Ended ==
    ASSUME Typed, NEW w \in Workers, NEW from, NEW outcome, End(w, from, outcome)
    PROVE  /\ workers[w].step = from
           /\ DOMAIN workers' = Workers
           /\ \A v \in Workers : v # w => workers'[v] = workers[v]
           /\ DOMAIN workers'[w] = WorkerFields
           /\ workers'[w].step = "done" /\ workers'[w].outcome = outcome
           /\ workers'[w].body = workers[w].body /\ workers'[w].caller = workers[w].caller
  BY DEF Typed, End, WorkerFields

LEMMA Reported ==
    ASSUME Typed, NEW w \in Workers, NEW from, NEW errors, Report(w, from, errors)
    PROVE  \E outcome \in Results(errors) : End(w, from, outcome)
  <1>1. CASE errors = {} /\ End(w, from, [kind |-> "accepted"])
    BY <1>1 DEF Results
  <1>2. ASSUME NEW error \in errors, End(w, from, [kind |-> "rejected", error |-> error])
        PROVE  \E outcome \in Results(errors) : End(w, from, outcome)
    <2>1. [kind |-> "rejected", error |-> error] \in Results(errors)
      BY DEF Results
    <2> QED
      BY <1>2, <2>1
  <1> QED
    BY <1>1, <1>2 DEF Report

\* Each action leaves the definition and the other workers as they are.
LEMMA Others ==
    ASSUME Typed, NEW w \in Workers,
           \/ \E body \in Bodies, caller \in Calling : Receive(w, body, caller)
           \/ DecodeBody(w) \/ ResetIndex(w) \/ InsertName(w)
           \/ CheckRules(w) \/ Parse(w) \/ Return(w)
    PROVE  /\ definition' = definition
           /\ DOMAIN workers' = Workers /\ DOMAIN workers'[w] = WorkerFields
           /\ \A v \in Workers : v # w => workers'[v] = workers[v]
  <1>1. CASE \E body \in Bodies, caller \in Calling : Receive(w, body, caller)
    BY <1>1 DEF Receive, Typed, Idle, WorkerFields
  <1>2. CASE DecodeBody(w)
    <2>1. CASE Step(w, "decode", "normalize")
      BY <1>2, <2>1, Stepped DEF DecodeBody
    <2>2. CASE Report(w, "decode", Under("request_body", Fail("invalid_body")))
      BY <1>2, <2>2, Reported, Ended DEF DecodeBody
    <2>3. CASE workers' = [workers EXCEPT ![w].step = "normalize", ![w].body = Empty]
      BY <1>2, <2>3 DEF DecodeBody, Typed, WorkerFields
    <2> QED
      BY <1>2, <2>1, <2>2, <2>3 DEF DecodeBody
  <1>3. CASE ResetIndex(w)
    BY <1>3, Stepped, Ended DEF ResetIndex
  <1>4. CASE InsertName(w)
    <2>1. CASE workers' = [workers EXCEPT ![w].next = workers[w].next + 1]
      BY <1>4, <2>1 DEF InsertName, Typed, WorkerFields
    <2> QED
      BY <1>4, <2>1, Stepped, Ended DEF InsertName
  <1>5. CASE CheckRules(w)
    BY <1>5, Stepped, Ended DEF CheckRules
  <1>6. CASE Parse(w)
    BY <1>6, Reported, Ended DEF Parse
  <1>7. CASE Return(w)
    BY <1>7 DEF Return, Typed, Idle, WorkerFields
  <1> QED
    BY <1>1, <1>2, <1>3, <1>4, <1>5, <1>6, <1>7

LEMMA TypedInit ==
    ASSUME Init
    PROVE  Typed
  <1>1. /\ DOMAIN Idle = WorkerFields /\ Idle.body = Empty /\ Idle.caller = NoCaller
        /\ Idle.step = "idle"
    BY DEF Idle, WorkerFields
  <1>2. NoCaller \in Calling
    BY DEF Calling
  <1> QED
    BY <1>1, <1>2 DEF Init, Typed

\* What each action leaves its worker with.
Fit(w) ==
    /\ workers[w].body \in Bodies \cup {Empty}
    /\ workers[w].caller \in Calling
    /\ workers[w].step \in {"normalize", "insert", "rules", "check"} =>
          workers[w].body.json = "object"

LEMMA FitStep ==
    ASSUME Typed, NEW w \in Workers,
           \/ \E body \in Bodies, caller \in Calling : Receive(w, body, caller)
           \/ DecodeBody(w) \/ ResetIndex(w) \/ InsertName(w)
           \/ CheckRules(w) \/ Parse(w) \/ Return(w)
    PROVE  Fit(w)'
  <1>0. Fit(w)
    BY DEF Typed, Fit
  <1>1. CASE \E body \in Bodies, caller \in Calling : Receive(w, body, caller)
    BY <1>1 DEF Receive, Typed, Fit, Idle
  <1>2. CASE DecodeBody(w)
    <2>1. CASE workers[w].body.json = "object" /\ Step(w, "decode", "normalize")
      BY <1>0, <2>1, Stepped DEF Fit
    <2>2. CASE Report(w, "decode", Under("request_body", Fail("invalid_body")))
      BY <1>0, <2>2, Reported, Ended DEF Fit
    <2>3. CASE workers' = [workers EXCEPT ![w].step = "normalize", ![w].body = Empty]
      <3>1. /\ workers'[w].step = "normalize" /\ workers'[w].body = Empty
            /\ workers'[w].caller = workers[w].caller
        BY <2>3 DEF Typed, WorkerFields
      <3> QED
        BY <1>0, <3>1 DEF Fit, Empty
    <2> QED
      BY <1>2, <2>1, <2>2, <2>3 DEF DecodeBody
  <1>3. CASE ResetIndex(w)
    BY <1>0, <1>3, Stepped, Ended DEF ResetIndex, Fit
  <1>4. CASE InsertName(w)
    <2>1. CASE /\ workers[w].step = "insert"
               /\ workers' = [workers EXCEPT ![w].next = workers[w].next + 1]
      <3>1. /\ workers'[w].step = workers[w].step /\ workers'[w].body = workers[w].body
            /\ workers'[w].caller = workers[w].caller
        BY <2>1 DEF Typed, WorkerFields
      <3> QED
        BY <1>0, <2>1, <3>1 DEF Fit
    <2> QED
      BY <1>0, <1>4, <2>1, Stepped, Ended DEF InsertName, Fit
  <1>5. CASE CheckRules(w)
    BY <1>0, <1>5, Stepped, Ended DEF CheckRules, Fit
  <1>6. CASE Parse(w)
    BY <1>0, <1>6, Reported, Ended DEF Parse, Fit
  <1>7. CASE Return(w)
    BY <1>7 DEF Return, Typed, Idle, Fit, Calling
  <1> QED
    BY <1>1, <1>2, <1>3, <1>4, <1>5, <1>6, <1>7

LEMMA TypedNext ==
    ASSUME Typed, [Next]_vars
    PROVE  Typed'
  <1>1. CASE UNCHANGED vars
    BY <1>1 DEF Typed, vars
  <1>2. ASSUME NEW w \in Workers,
               \/ \E body \in Bodies, caller \in Calling : Receive(w, body, caller)
               \/ DecodeBody(w) \/ ResetIndex(w) \/ InsertName(w)
               \/ CheckRules(w) \/ Parse(w) \/ Return(w)
        PROVE  Typed'
    <2>1. /\ definition' = definition
          /\ DOMAIN workers' = Workers /\ DOMAIN workers'[w] = WorkerFields
          /\ \A v \in Workers : v # w => workers'[v] = workers[v]
      BY <1>2, Others
    <2>2. Fit(w)'
      BY <1>2, FitStep
    <2> QED
      BY <2>1, <2>2 DEF Typed, Fit
  <1> QED
    BY <1>1, <1>2 DEF Next

-----------------------------------------------------------------------------
(***************************************************************************)
(* One worker alone: it finds in the index what it has put there.          *)
(***************************************************************************)
\* What a worker that is alone has done to the index: from its first step on it
\* has put in it the entries up to its next one, then all of them.
Filled(n) == {Entries(definition)[i] : i \in 1 .. n - 1}

Solo(w) ==
    /\ workers[w].step \in {"idle", "decode", "normalize"} => workers[w].next = 1
    /\ workers[w].step = "insert" =>
          /\ workers[w].next \in 1 .. Len(Entries(definition)) + 1
          /\ index.names = Filled(workers[w].next)
    /\ workers[w].step \in {"rules", "check"} => index.names = Declared(definition)
    /\ workers[w].step = "rules" => definition.kind = "object"
    /\ definition.kind = "variants" /\ workers[w].step # "insert" /\ index.built =>
          index.names = Declared(definition)
    /\ Parsed(w) => workers[w].outcome \in Results(ErrorsOf(w, Declared(definition)))

Alone == DOMAIN index = {"built", "names"} /\ (WellFormed => \A w \in Workers : Solo(w))

\* The entries of a definition that can be used are distinct, and all that it
\* declares.
LEMMA EntriesAre ==
    ASSUME Typed, WellFormed
    PROVE  /\ definition \in Shapes /\ definition.kind \in {"object", "variants"}
           /\ Len(Entries(definition)) \in Nat
           /\ \A i, j \in 1 .. Len(Entries(definition)) :
                 Entries(definition)[i] = Entries(definition)[j] => i = j
           /\ Filled(Len(Entries(definition)) + 1) = Declared(definition)
           /\ definition.kind = "variants" => Len(definition.variants) > 0
           /\ definition.kind = "object" =>
                 \A i \in DOMAIN definition.rules :
                    definition.rules[i].names \subseteq Declared(definition)
  <1>1. definition \in Shapes /\ definition.kind \in {"object", "variants"}
    BY BodiesAssumption DEF Typed
  <1>2. definition \in Parts[definition]
    BY <1>1, PartsOfShape
  <1>3. Builds(definition) /\ (definition.kind = "variants" => NormalizesVariants(definition))
    BY <1>2 DEF Typed, Defines, WellFormed
  <1>4. CASE definition.kind = "object"
    <2> DEFINE params == definition.params
               entries == [i \in DOMAIN params |-> params[i].name]
    <2>1. DOMAIN params = 1 .. Len(params) /\ Len(params) \in Nat
      BY <1>1, <1>4, ShapesAssumption DEF IsList
    <2>2. Entries(definition) = entries
      BY <1>4 DEF Entries
    <2>3. Len(entries) = Len(params)
      BY <2>1
    <2>4. /\ \A i, j \in DOMAIN params : params[i].name = params[j].name => i = j
          /\ \A i \in DOMAIN definition.rules : definition.rules[i].names \subseteq Names(params)
      BY <1>3, <1>4 DEF Builds, NormalizesObject
    <2>5. Declared(definition) = Names(params)
      BY <1>4 DEF Declared
    <2>6. Filled(Len(params) + 1) = Names(params)
      BY <2>1, <2>2 DEF Filled, Names
    <2> QED
      BY <1>1, <1>4, <2>1, <2>2, <2>3, <2>4, <2>5, <2>6
  <1>5. CASE definition.kind = "variants"
    <2> DEFINE variants == definition.variants
               entries == [i \in DOMAIN variants |-> variants[i].value]
    <2>1. DOMAIN variants = 1 .. Len(variants) /\ Len(variants) \in Nat
      BY <1>1, <1>5, ShapesAssumption DEF IsList
    <2>2. Entries(definition) = entries
      BY <1>5 DEF Entries
    <2>3. Len(entries) = Len(variants)
      BY <2>1
    <2>4. /\ \A i, j \in DOMAIN variants : variants[i].value = variants[j].value => i = j
          /\ Len(variants) > 0
      BY <1>3, <1>5 DEF NormalizesVariants
    <2>5. Declared(definition) = {variants[i].value : i \in DOMAIN variants}
      BY <1>5 DEF Declared
    <2>6. Filled(Len(variants) + 1) = Declared(definition)
      BY <2>1, <2>2, <2>5 DEF Filled
    <2> QED
      BY <1>1, <1>5, <2>1, <2>2, <2>3, <2>4, <2>5, <2>6
  <1> QED
    BY <1>1, <1>4, <1>5

LEMMA AloneInit ==
    ASSUME Init, Typed
    PROVE  Alone
  <1>1. DOMAIN index = {"built", "names"}
    BY DEF Init, NoIndex
  <1>2. ASSUME WellFormed, NEW w \in Workers
        PROVE  Solo(w)
    <2>1. workers[w] = Idle /\ Idle.step = "idle" /\ Idle.next = 1
      BY DEF Init, Idle
    <2>2. definition.kind = "variants" => ~ index.built
      BY DEF Init, NoIndex
    <2> QED
      BY <2>1, <2>2 DEF Solo, Parsed
  <1> QED
    BY <1>1, <1>2 DEF Alone

\* What is in the index after one more entry.
LEMMA FilledOnce ==
    ASSUME NEW n \in Nat \ {0}
    PROVE  Filled(n + 1) = Filled(n) \cup {Entries(definition)[n]}
  <1>1. 1 .. n + 1 - 1 = (1 .. n - 1) \cup {n}
    OBVIOUS
  <1> QED
    BY <1>1 DEF Filled

LEMMA SoloStep ==
    ASSUME Typed, WellFormed, DOMAIN index = {"built", "names"}, NEW w \in Workers, Solo(w),
           \/ \E body \in Bodies, caller \in Calling : Receive(w, body, caller)
           \/ DecodeBody(w) \/ ResetIndex(w) \/ InsertName(w)
           \/ CheckRules(w) \/ Parse(w) \/ Return(w)
    PROVE  DOMAIN index' = {"built", "names"} /\ Solo(w)'
  <1>0. definition' = definition
    BY Others
  <1>a. /\ definition.kind \in {"object", "variants"}
        /\ Len(Entries(definition)) \in Nat
        /\ \A i, j \in 1 .. Len(Entries(definition)) :
              Entries(definition)[i] = Entries(definition)[j] => i = j
        /\ Filled(Len(Entries(definition)) + 1) = Declared(definition)
        /\ definition.kind = "variants" => Len(definition.variants) > 0
        /\ definition.kind = "object" =>
              \A i \in DOMAIN definition.rules :
                 definition.rules[i].names \subseteq Declared(definition)
    BY EntriesAre
  <1>1. CASE \E body \in Bodies, caller \in Calling : Receive(w, body, caller)
    <2>1. /\ workers[w].step = "idle" /\ index' = index
          /\ workers'[w].step = "decode" /\ workers'[w].next = 1
      BY <1>1 DEF Receive, Typed, Idle
    <2> QED
      BY <1>0, <2>1 DEF Solo, Parsed
  <1>2. CASE DecodeBody(w)
    <2>0. workers[w].step = "decode" /\ index' = index
      BY <1>2 DEF DecodeBody
    <2>1. CASE Step(w, "decode", "normalize")
      BY <1>0, <2>0, <2>1, Stepped DEF Solo, Parsed
    <2>2. CASE /\ workers[w].body.json # "object"
               /\ Report(w, "decode", Under("request_body", Fail("invalid_body")))
      BY <1>0, <2>0, <2>2, Reported, Ended DEF Solo, Parsed
    <2>3. CASE workers' = [workers EXCEPT ![w].step = "normalize", ![w].body = Empty]
      <3>1. workers'[w].step = "normalize" /\ workers'[w].next = workers[w].next
        BY <2>3 DEF Typed, WorkerFields
      <3> QED
        BY <1>0, <2>0, <3>1 DEF Solo, Parsed
    <2> QED
      BY <1>2, <2>1, <2>2, <2>3 DEF DecodeBody
  <1>3. CASE ResetIndex(w)
    <2>1. CASE definition.kind = "object" \/ ~ index.built
      <3>1. Step(w, "normalize", "insert") /\ index' = [built |-> TRUE, names |-> {}]
        BY <1>3, <1>a, <2>1 DEF ResetIndex
      <3>2. /\ workers[w].step = "normalize" /\ workers'[w].step = "insert"
            /\ workers'[w].next = workers[w].next
        BY <3>1, Stepped
      <3>3. workers'[w].next = 1
        BY <3>2 DEF Solo
      <3>4. 1 .. workers'[w].next - 1 = {}
        BY <3>3
      <3>5. Filled(workers[w].next)' = {}
        BY <3>4 DEF Filled
      <3>6. /\ DOMAIN index' = {"built", "names"} /\ index'.names = {}
            /\ workers'[w].next \in 1 .. Len(Entries(definition)) + 1
        BY <1>a, <3>1, <3>3
      <3> QED
        BY <1>0, <3>2, <3>5, <3>6 DEF Solo, Parsed
    <2>2. CASE definition.kind = "variants" /\ index.built
      <3>1. Step(w, "normalize", "check") /\ index' = index
        BY <1>3, <1>a, <2>2 DEF ResetIndex
      <3>2. /\ workers[w].step = "normalize" /\ workers'[w].step = "check"
            /\ workers'[w].next = workers[w].next
        BY <3>1, Stepped
      <3> QED
        BY <1>0, <2>2, <3>1, <3>2 DEF Solo, Parsed
    <2> QED
      BY <1>a, <2>1, <2>2
  <1>4. CASE InsertName(w)
    <2> DEFINE next == workers[w].next
               entries == Entries(definition)
    <2>0. workers[w].step = "insert"
      BY <1>4 DEF InsertName, Step, End
    <2>1. next \in 1 .. Len(entries) + 1 /\ index.names = Filled(next)
      BY <2>0 DEF Solo
    <2>2. CASE next > Len(entries)
      <3>1. /\ Step(w, "insert", IF definition.kind = "object" THEN "rules" ELSE "check")
            /\ index' = index
        BY <1>4, <1>a, <2>1, <2>2 DEF InsertName
      <3>2. /\ workers'[w].step = IF definition.kind = "object" THEN "rules" ELSE "check"
        BY <3>1, Stepped
      <3>3. next = Len(entries) + 1
        BY <1>a, <2>1, <2>2
      <3>4. index'.names = Declared(definition)
        BY <1>a, <2>1, <3>1, <3>3
      <3> QED
        BY <1>0, <1>a, <3>1, <3>2, <3>4 DEF Solo, Parsed
    <2>3. CASE next <= Len(entries)
      <3>1. entries[next] \notin index.names
        BY <1>a, <2>1, <2>3 DEF Filled
      <3>2. /\ index' = [index EXCEPT !.names = @ \cup {entries[next]}]
            /\ workers' = [workers EXCEPT ![w].next = next + 1]
        BY <1>4, <1>a, <2>1, <2>3, <3>1 DEF InsertName
      <3>3. workers'[w].step = "insert" /\ workers'[w].next = next + 1
        BY <2>0, <3>2 DEF Typed, WorkerFields
      <3>4. DOMAIN index' = {"built", "names"} /\ index'.names = index.names \cup {entries[next]}
        BY <3>2
      <3>5. index'.names = Filled(next + 1)
        <4>1. next \in Nat \ {0}
          BY <1>a, <2>1
        <4> HIDE DEF next
        <4> QED
          BY <2>1, <3>4, <4>1, FilledOnce
      <3>6. next + 1 \in 1 .. Len(entries) + 1
        BY <1>a, <2>1, <2>3
      <3>7. Filled(workers[w].next)' = Filled(next + 1)
        BY <1>0, <3>3 DEF Filled
      <3> QED
        BY <1>0, <3>3, <3>4, <3>5, <3>6, <3>7 DEF Solo, Parsed
    <2> QED
      BY <1>a, <2>1, <2>2, <2>3
  <1>5. CASE CheckRules(w)
    <2>1. workers[w].step = "rules" /\ index' = index
      BY <1>5 DEF CheckRules
    <2>2. definition.kind = "object" /\ index.names = Declared(definition)
      BY <2>1 DEF Solo
    <2>3. Step(w, "rules", "check")
      BY <1>5, <1>a, <2>2 DEF CheckRules
    <2>4. workers'[w].step = "check"
      BY <2>3, Stepped
    <2> QED
      BY <1>0, <2>1, <2>2, <2>4 DEF Solo, Parsed
  <1>6. CASE Parse(w)
    <2>1. /\ workers[w].step = "check" /\ index' = index
          /\ Report(w, "check", ErrorsOf(w, index.names))
      BY <1>6 DEF Parse, ErrorsOf
    <2>2. index.names = Declared(definition)
      BY <2>1 DEF Solo
    <2>3. PICK outcome \in Results(ErrorsOf(w, Declared(definition))) : End(w, "check", outcome)
      BY <2>1, <2>2, Reported
    <2>4. /\ workers'[w].step = "done" /\ workers'[w].outcome = outcome
          /\ workers'[w].body = workers[w].body /\ workers'[w].caller = workers[w].caller
      BY <2>3, Ended
    <2>5. ErrorsOf(w, Declared(definition))' = ErrorsOf(w, Declared(definition))
      BY <1>0, <2>4 DEF ErrorsOf
    <2> QED
      BY <1>0, <2>1, <2>2, <2>3, <2>4, <2>5 DEF Solo, Parsed, Results
  <1>7. CASE Return(w)
    <2>1. /\ workers[w].step = "done" /\ index' = index
          /\ workers'[w].step = "idle" /\ workers'[w].next = 1
      BY <1>7 DEF Return, Typed, Idle
    <2> QED
      BY <1>0, <2>1 DEF Solo, Parsed
  <1> QED
    BY <1>1, <1>2, <1>3, <1>4, <1>5, <1>6, <1>7

LEMMA AloneNext ==
    ASSUME \A v, w \in Workers : v = w, Typed, Alone, [Next]_vars
    PROVE  Alone'
  <1>1. CASE UNCHANGED vars
    <2>1. definition' = definition /\ index' = index /\ workers' = workers
      BY <1>1 DEF vars
    <2> QED
      BY <2>1 DEF Alone, Solo, Filled, WellFormed, Parsed, ErrorsOf
  <1>2. ASSUME NEW w \in Workers,
               \/ \E body \in Bodies, caller \in Calling : Receive(w, body, caller)
               \/ DecodeBody(w) \/ ResetIndex(w) \/ InsertName(w)
               \/ CheckRules(w) \/ Parse(w) \/ Return(w)
        PROVE  Alone'
    <2>1. definition' = definition /\ (WellFormed' <=> WellFormed)
      BY <1>2, Others DEF WellFormed
    <2>2. CASE WellFormed
      <3>1. Solo(w) /\ DOMAIN index = {"built", "names"}
        BY <2>2 DEF Alone
      <3>2. DOMAIN index' = {"built", "names"} /\ Solo(w)'
        BY <1>2, <2>2, <3>1, SoloStep
      <3>3. \A v \in Workers : Solo(v)'
        BY <3>2
      <3> QED
        BY <3>2, <3>3 DEF Alone
    <2>3. CASE ~ WellFormed
      <3>1. DOMAIN index' = DOMAIN index
        <4>1. \/ index' = index
              \/ index' = [built |-> TRUE, names |-> {}]
              \/ \E new : index' = [index EXCEPT !.names = new]
          BY <1>2 DEF Receive, DecodeBody, ResetIndex, InsertName, CheckRules, Parse, Return
        <4> QED
          BY <4>1 DEF Alone
      <3> QED
        BY <2>1, <2>3, <3>1 DEF Alone
    <2> QED
      BY <2>2, <2>3
  <1> QED
    BY <1>1, <1>2 DEF Next

LEMMA AloneAlways ==
    ASSUME \A v, w \in Workers : v = w
    PROVE  Spec => [](Typed /\ Alone)
  <1>1. Init => Typed /\ Alone
    BY TypedInit, AloneInit
  <1>2. Typed /\ Alone /\ [Next]_vars => (Typed /\ Alone)'
    BY TypedNext, AloneNext
  <1> QED
    BY <1>1, <1>2, PTL DEF Spec

\* A request that is parsed alone has the result its body has: whatever was
\* parsed before it, the index it looks its names up in is what the definition
\* declares.
THEOREM AloneIsIndependent ==
    ASSUME \A v, w \in Workers : v = w
    PROVE  Spec => []ParsesAreIndependent
  <1>1. Typed /\ Alone => ParsesAreIndependent
    BY DEF Alone, Solo, ParsesAreIndependent, ErrorsOf, Results
  <1> QED
    BY <1>1, AloneAlways, PTL

\* What a parse that has the index to itself reports.
LEMMA WholeParse ==
    ASSUME NEW shape \in Shapes, shape.kind \in {"object", "variants"},
           NEW raw \in Values, raw.json = "object", NEW caller \in Calling
    PROVE  ParseBody(shape, Declared(shape), raw.fields, caller)
               = ParseShape[<<shape, raw, caller>>]
  <1>1. ParseShape[<<shape, raw, caller>>] = ParseKind(ParseShape, shape, raw, caller)
    BY ParseShapeIs
  <1> QED
    BY <1>1 DEF ParseKind, ParseBody

\* A request that is parsed alone is accepted just when its body satisfies the
\* contract that its caller sees, and is never answered by a panic.
THEOREM AloneByContract ==
    ASSUME \A v, w \in Workers : v = w
    PROVE  Spec => []AcceptsTheVisibleContract
  <1>1. ASSUME Typed, Alone, WellFormed, NEW w \in Workers, Parsed(w)
        PROVE  /\ workers[w].outcome # Panicked
               /\ workers[w].outcome.kind = "accepted" <=>
                     Satisfies[<<definition, workers[w].body, workers[w].caller>>]
    <2> DEFINE body == workers[w].body
               caller == workers[w].caller
               errors == ErrorsOf(w, Declared(definition))
    <2>1. definition \in Shapes /\ definition.kind \in {"object", "variants"}
      BY <1>1, BodiesAssumption DEF Typed
    <2>2. body \in Values /\ body.json = "object" /\ caller \in Calling
      BY <1>1, BodiesAssumption DEF Typed, Parsed
    <2>3. Usable(definition)
      BY <1>1 DEF Typed, Defines, WellFormed, Usable
    <2>4. errors = ParseShape[<<definition, body, caller>>]
      BY <2>1, <2>2, WholeParse DEF ErrorsOf
    <2>5. errors = {} <=> Satisfies[<<definition, body, caller>>]
      BY <2>1, <2>2, <2>3, <2>4, ParsesByContract
    <2>6. workers[w].outcome \in Results(errors)
      BY <1>1 DEF Alone, Solo
    <2>7. /\ \A outcome \in Results(errors) : outcome # Panicked
          /\ \A outcome \in Results(errors) : outcome.kind = "accepted" <=> errors = {}
      BY DEF Results, Panicked
    <2> QED
      BY <2>5, <2>6, <2>7
  <1>2. Typed /\ Alone => AcceptsTheVisibleContract
    BY <1>1 DEF AcceptsTheVisibleContract
  <1> QED
    BY <1>2, AloneAlways, PTL

-----------------------------------------------------------------------------
(***************************************************************************)
(* What is in a value, and at which path.                                  *)
(***************************************************************************)
Places == [path : Seq(Steps), raw : Values]

LEMMA InsidePlaces ==
    ASSUME NEW step \in Steps, NEW contents, contents \subseteq Places
    PROVE  Inside(step, contents) \subseteq Places
  <1> SUFFICES ASSUME NEW found \in contents
               PROVE  [path |-> <<step>> \o found.path, raw |-> found.raw] \in Places
    BY DEF Inside
  <1>1. found.path \in Seq(Steps) /\ found.raw \in Values
    BY DEF Places
  <1>2. <<step>> \o found.path \in Seq(Steps)
    BY <1>1, Led
  <1> QED
    BY <1>1, <1>2 DEF Places

LEMMA ContentsPlaces ==
    ASSUME NEW raw \in Values, NEW g, \A x \in ValuesIn(raw) : g[x] \subseteq Places
    PROVE  ContentsOf(g, raw) \subseteq Places
  <1>1. {[path |-> <<>>, raw |-> raw]} \subseteq Places
    <2>1. <<>> \in Seq(Steps)
      OBVIOUS
    <2> QED
      BY <2>1 DEF Places
  <1>2. CASE raw.json = "array"
    <2>1. ASSUME NEW i \in DOMAIN raw.items
          PROVE  Inside(i, g[raw.items[i]]) \subseteq Places
      <3>1. i \in Steps /\ g[raw.items[i]] \subseteq Places
        BY <1>2, FoundIn DEF Steps
      <3> QED
        BY <3>1, InsidePlaces
    <2> QED
      BY <1>1, <1>2, <2>1 DEF ContentsOf
  <1>3. CASE raw.json = "object"
    <2>1. ASSUME NEW name \in DOMAIN raw.fields
          PROVE  Inside(name, g[raw.fields[name]]) \subseteq Places
      <3>1. name \in Steps /\ g[raw.fields[name]] \subseteq Places
        BY <1>3, FoundIn DEF Steps
      <3> QED
        BY <3>1, InsidePlaces
    <2> QED
      BY <1>1, <1>3, <2>1 DEF ContentsOf
  <1>4. CASE raw.json \notin {"array", "object"}
    BY <1>1, <1>4 DEF ContentsOf
  <1> QED
    BY <1>2, <1>3, <1>4

LEMMA ContentsAgree ==
    ASSUME NEW raw \in Values, NEW g, NEW h, \A x \in ValuesIn(raw) : g[x] = h[x]
    PROVE  ContentsOf(g, raw) = ContentsOf(h, raw)
  <1>1. CASE raw.json = "array"
    <2>1. \A i \in DOMAIN raw.items : g[raw.items[i]] = h[raw.items[i]]
      BY <1>1, FoundIn
    <2>2. {Inside(i, g[raw.items[i]]) : i \in DOMAIN raw.items}
              = {Inside(i, h[raw.items[i]]) : i \in DOMAIN raw.items}
      BY <2>1
    <2> QED
      BY <1>1, <2>2 DEF ContentsOf
  <1>2. CASE raw.json = "object"
    <2>1. \A name \in DOMAIN raw.fields : g[raw.fields[name]] = h[raw.fields[name]]
      BY <1>2, FoundIn
    <2>2. {Inside(name, g[raw.fields[name]]) : name \in DOMAIN raw.fields}
              = {Inside(name, h[raw.fields[name]]) : name \in DOMAIN raw.fields}
      BY <2>1
    <2> QED
      BY <1>2, <2>2 DEF ContentsOf
  <1>3. CASE raw.json \notin {"array", "object"}
    BY <1>3 DEF ContentsOf
  <1> QED
    BY <1>1, <1>2, <1>3

LEMMA ContentsIs ==
    ASSUME NEW raw \in Values
    PROVE  Contents[raw] = ContentsOf(Contents, raw) /\ Contents[raw] \subseteq Places
  <1> DEFINE T == SUBSET Places
             D == [p \in [Values -> T] \X Values |-> ContentsOf(p[1], p[2])]
  <1>1. ASSUME NEW g \in [Values -> T], NEW x \in Values
        PROVE  ContentsOf(g, x) \in T
    <2>1. \A y \in ValuesIn(x) : g[y] \subseteq Places
      BY ValueInside
    <2> QED
      BY <2>1, ContentsPlaces
  <1>2. ASSUME NEW g, NEW h, NEW x \in Values,
               \A y \in Values : ValueDepth[y] < ValueDepth[x] => g[y] = h[y]
        PROVE  ContentsOf(g, x) = ContentsOf(h, x)
    <2>1. \A y \in ValuesIn(x) : g[y] = h[y]
      BY <1>2, ValueInside
    <2> QED
      BY <2>1, ContentsAgree
  <1>3. \A g \in [Values -> T], x \in Values : D[<<g, x>>] = ContentsOf(g, x)
    OBVIOUS
  <1>4. D \in [[Values -> T] \X Values -> T]
    <2> HIDE DEF T
    <2> QED
      BY <1>1
  <1> HIDE DEF D, T
  <1>5. LooksLower(Values, T, ValueDepth, D)
    BY <1>2, <1>3 DEF LooksLower
  <1>6. Recursion(Values, T, ValueDepth, D)
    <2>1. T # {}
      BY DEF T
    <2> QED
      BY <1>4, <1>5, <2>1, ValuesRank DEF Recursion
  <1>7. PICK f : Solves(Values, T, D, f)
    BY <1>6, RecursiveFunction
  <1>8. f = [x \in Values |-> ContentsOf(f, x)]
    BY <1>3, <1>7 DEF Solves
  <1>9. Contents = [x \in Values |-> ContentsOf(Contents, x)]
    BY <1>8, ZenonT(60) DEF Contents
  <1>10. \A x \in Values : Contents[x] \subseteq Places
    <2> DEFINE Good == {x \in Values : Contents[x] \subseteq Places}
    <2>1. ASSUME NEW x \in Values,
                 \A y \in Values : ValueDepth[y] < ValueDepth[x] => y \in Good
          PROVE  x \in Good
      <3>1. \A y \in ValuesIn(x) : Contents[y] \subseteq Places
        BY <2>1, ValueInside
      <3>2. ContentsOf(Contents, x) \subseteq Places
        BY <3>1, ContentsPlaces
      <3> QED
        BY <1>9, <3>2
    <2>2. Good \subseteq Values
      OBVIOUS
    <2> HIDE DEF Good
    <2>3. Good = Values
      BY <2>1, <2>2, ValuesRank, Everywhere
    <2> QED
      BY <2>3 DEF Good
  <1> QED
    BY <1>9, <1>10

Has(contents, path, value) == \E found \in contents : found.path = path /\ found.raw = value

LEMMA InsideFound ==
    ASSUME NEW step \in Steps, NEW contents, contents \subseteq Places,
           NEW other \in Steps, NEW path \in Seq(Steps), NEW value
    PROVE  Has(Inside(step, contents), <<other>> \o path, value)
             <=> step = other /\ Has(contents, path, value)
  <1>1. \A found \in contents : found.path \in Seq(Steps)
    BY DEF Places
  <1>2. \A found \in contents :
           <<step>> \o found.path = <<other>> \o path <=> step = other /\ found.path = path
    BY <1>1, LedOnce
  <1> DEFINE Within(found) == [path |-> <<step>> \o found.path, raw |-> found.raw]
  <1>3. \A found : Within(found).path = <<step>> \o found.path /\ Within(found).raw = found.raw
    OBVIOUS
  <1>4. Inside(step, contents) = {Within(found) : found \in contents}
    BY DEF Inside
  <1> HIDE DEF Within
  <1>5. (\E found \in Inside(step, contents) :
             found.path = <<other>> \o path /\ found.raw = value)
          <=> \E found \in contents :
                 Within(found).path = <<other>> \o path /\ Within(found).raw = value
    BY <1>4
  <1> QED
    BY <1>2, <1>3, <1>5 DEF Has

\* Nothing is inside a value at the path of the value itself.
LEMMA InsideLonger ==
    ASSUME NEW step \in Steps, NEW contents, contents \subseteq Places
    PROVE  \A found \in Inside(step, contents) : found.path # <<>>
  <1> SUFFICES ASSUME NEW found \in contents
               PROVE  <<step>> \o found.path # <<>>
    BY DEF Inside
  <1>1. found.path \in Seq(Steps)
    BY DEF Places
  <1> QED
    BY <1>1, Led

LEMMA AtSelf ==
    ASSUME NEW raw \in Values
    PROVE  At(raw, <<>>) = {raw}
  <1> DEFINE self == [path |-> <<>>, raw |-> raw]
  <1>1. self \in Contents[raw] /\ self.path = <<>> /\ self.raw = raw
    BY ContentsIs DEF ContentsOf
  <1>2. ASSUME NEW found \in Contents[raw], found.path = <<>>
        PROVE  found.raw = raw
    <2>1. CASE raw.json = "array"
      <3>1. ASSUME NEW i \in DOMAIN raw.items
            PROVE  \A f \in Inside(i, Contents[raw.items[i]]) : f.path # <<>>
        <4>1. i \in Steps /\ Contents[raw.items[i]] \subseteq Places
          BY <2>1, FoundIn, ContentsIs DEF Steps
        <4> QED
          BY <4>1, InsideLonger
      <3>2. found \in {self} \cup UNION {Inside(i, Contents[raw.items[i]]) : i \in DOMAIN raw.items}
        BY <2>1, ContentsIs DEF ContentsOf
      <3> QED
        BY <1>2, <3>1, <3>2
    <2>2. CASE raw.json = "object"
      <3>1. ASSUME NEW name \in DOMAIN raw.fields
            PROVE  \A f \in Inside(name, Contents[raw.fields[name]]) : f.path # <<>>
        <4>1. name \in Steps /\ Contents[raw.fields[name]] \subseteq Places
          BY <2>2, FoundIn, ContentsIs DEF Steps
        <4> QED
          BY <4>1, InsideLonger
      <3>2. found \in {self} \cup
               UNION {Inside(name, Contents[raw.fields[name]]) : name \in DOMAIN raw.fields}
        BY <2>2, ContentsIs DEF ContentsOf
      <3> QED
        BY <1>2, <3>1, <3>2
    <2>3. CASE raw.json \notin {"array", "object"}
      BY <2>3, ContentsIs DEF ContentsOf
    <2> QED
      BY <2>1, <2>2, <2>3
  <1> QED
    BY <1>1, <1>2 DEF At

\* What is inside an object is in one of its fields, and in an array in one of
\* its items.
LEMMA AtField ==
    ASSUME NEW raw \in Values, raw.json = "object", NEW step \in Steps, NEW path \in Seq(Steps)
    PROVE  /\ step \in DOMAIN raw.fields =>
                 At(raw, <<step>> \o path) = At(raw.fields[step], path)
           /\ step \notin DOMAIN raw.fields => At(raw, <<step>> \o path) = {}
  <1> DEFINE self == [path |-> <<>>, raw |-> raw]
  <1>1. Contents[raw] = {self} \cup
           UNION {Inside(name, Contents[raw.fields[name]]) : name \in DOMAIN raw.fields}
    BY ContentsIs DEF ContentsOf
  <1>2. self.path # <<step>> \o path
    BY Led
  <1>3. \A name \in DOMAIN raw.fields : name \in Steps /\ Contents[raw.fields[name]] \subseteq Places
    BY FoundIn, ContentsIs DEF Steps
  <1>4. ASSUME NEW value
        PROVE  value \in At(raw, <<step>> \o path) <=>
                 \E name \in DOMAIN raw.fields :
                    Has(Inside(name, Contents[raw.fields[name]]), <<step>> \o path, value)
    BY <1>1, <1>2 DEF At, Has
  <1>5. ASSUME NEW value
        PROVE  value \in At(raw, <<step>> \o path) <=>
                 \E name \in DOMAIN raw.fields :
                    name = step /\ Has(Contents[raw.fields[name]], path, value)
    <2>1. ASSUME NEW name \in DOMAIN raw.fields
          PROVE  Has(Inside(name, Contents[raw.fields[name]]), <<step>> \o path, value)
                   <=> name = step /\ Has(Contents[raw.fields[name]], path, value)
      <3>1. name \in Steps /\ Contents[raw.fields[name]] \subseteq Places
        BY <1>3
      <3>2. step \in Steps
        BY <1>3
      <3> QED
        BY <3>1, <3>2, InsideFound
    <2> QED
      BY <1>4, <2>1
  <1>6. ASSUME NEW value, step \in DOMAIN raw.fields
        PROVE  value \in At(raw, <<step>> \o path) <=> value \in At(raw.fields[step], path)
    BY <1>5, <1>6 DEF At, Has
  <1> QED
    BY <1>5, <1>6

LEMMA AtItem ==
    ASSUME NEW raw \in Values, raw.json = "array", NEW i \in DOMAIN raw.items,
           NEW path \in Seq(Steps)
    PROVE  At(raw, <<i>> \o path) = At(raw.items[i], path)
  <1> DEFINE self == [path |-> <<>>, raw |-> raw]
  <1>1. Contents[raw] = {self} \cup
           UNION {Inside(j, Contents[raw.items[j]]) : j \in DOMAIN raw.items}
    BY ContentsIs DEF ContentsOf
  <1>2. \A j \in DOMAIN raw.items : j \in Steps /\ Contents[raw.items[j]] \subseteq Places
    BY FoundIn, ContentsIs DEF Steps
  <1>3. self.path # <<i>> \o path
    BY <1>2, Led
  <1>4. ASSUME NEW value
        PROVE  value \in At(raw, <<i>> \o path) <=>
                 \E j \in DOMAIN raw.items :
                    Has(Inside(j, Contents[raw.items[j]]), <<i>> \o path, value)
    BY <1>1, <1>3 DEF At, Has
  <1>5. ASSUME NEW value
        PROVE  value \in At(raw, <<i>> \o path) <=>
                 \E j \in DOMAIN raw.items :
                    j = i /\ Has(Contents[raw.items[j]], path, value)
    <2>1. ASSUME NEW j \in DOMAIN raw.items
          PROVE  Has(Inside(j, Contents[raw.items[j]]), <<i>> \o path, value)
                   <=> j = i /\ Has(Contents[raw.items[j]], path, value)
      <3>1. j \in Steps /\ Contents[raw.items[j]] \subseteq Places
        BY <1>2
      <3>2. i \in Steps
        BY <1>2
      <3> QED
        BY <3>1, <3>2, InsideFound
    <2> QED
      BY <1>4, <2>1
  <1>6. ASSUME NEW value
        PROVE  value \in At(raw, <<i>> \o path) <=> value \in At(raw.items[i], path)
    BY <1>5 DEF At, Has
  <1> QED
    BY <1>6

-----------------------------------------------------------------------------
(***************************************************************************)
(* Each error is at the place it is about.                                 *)
(***************************************************************************)
Nothing(raw) == raw.json = "null" \/ (raw.json = "string" /\ Blank(raw.text))

Asks(error) == error.code \in {"missing", "required_choice"}

\* What an object is said to miss is among the names that its shape reads and
\* the ones that were sent.
Known(shape, raw, error) ==
    raw.json = "object" /\ Asks(error) =>
        \A path \in error.paths :
            path # <<>> => path[1] \in NamesRead[shape] \cup DOMAIN raw.fields

AllInPlace(raw, errors) == \A error \in errors : InPlace(raw, error)

LEMMA FailInPlace ==
    ASSUME NEW raw \in Values,
           NEW code \in Codes \ {"required_choice", "mutually_exclusive"},
           code = "missing" => Nothing(raw)
    PROVE  AllInPlace(raw, Fail(code))
  <1>1. At(raw, <<>>) = {raw}
    BY AtSelf
  <1>2. \A error \in Fail(code) : error.code = code /\ error.paths = {<<>>}
    BY DEF Fail
  <1> QED
    BY <1>1, <1>2 DEF AllInPlace, InPlace, Nothing

\* An error that is another one, under a step.
LedFrom(step, inner, error) ==
    /\ inner.paths \subseteq Seq(Steps)
    /\ error.paths = {<<step>> \o path : path \in inner.paths}
    /\ error.code = inner.code
    /\ \A path \in error.paths : path # <<>> /\ path[1] = step

LEMMA UnderHas ==
    ASSUME NEW step \in Steps, NEW errors, errors \subseteq Errors, NEW error \in Under(step, errors)
    PROVE  \E inner \in errors : LedFrom(step, inner, error)
  <1>1. PICK inner \in errors : error = [paths |-> {<<step>> \o path : path \in inner.paths},
                                        code |-> inner.code]
    BY DEF Under
  <1>2. inner.paths \subseteq Seq(Steps)
    BY DEF Errors
  <1>3. \A path \in inner.paths : <<step>> \o path # <<>> /\ (<<step>> \o path)[1] = step
    BY <1>2, Led
  <1>4. error.paths = {<<step>> \o path : path \in inner.paths} /\ error.code = inner.code
    BY <1>1
  <1>5. \A path \in error.paths : path # <<>> /\ path[1] = step
    BY <1>3, <1>4
  <1>6. LedFrom(step, inner, error)
    BY <1>2, <1>4, <1>5, Zenon DEF LedFrom
  <1> QED
    BY <1>6

LEMMA UnderFirst ==
    ASSUME NEW step \in Steps, NEW errors, errors \subseteq Errors
    PROVE  \A error \in Under(step, errors) : \A path \in error.paths : path[1] = step
  <1> SUFFICES ASSUME NEW error \in Under(step, errors)
               PROVE  \A path \in error.paths : path[1] = step
    OBVIOUS
  <1> QED
    BY UnderHas, Zenon DEF LedFrom

\* An error that is in place in what is at a step is in place where the step is.
LEMMA LedInPlace ==
    ASSUME NEW raw, NEW step \in Steps, NEW found,
           \A path \in Seq(Steps) : At(raw, <<step>> \o path) = At(found, path),
           NEW errors, errors \subseteq Errors, AllInPlace(found, errors)
    PROVE  AllInPlace(raw, Under(step, errors))
  <1> SUFFICES ASSUME NEW error \in Under(step, errors)
               PROVE  InPlace(raw, error)
    BY DEF AllInPlace
  <1>0. PICK inner \in errors : LedFrom(step, inner, error)
    BY UnderHas
  <1>1. /\ inner.paths \subseteq Seq(Steps)
        /\ error.paths = {<<step>> \o path : path \in inner.paths}
        /\ error.code = inner.code
    BY <1>0 DEF LedFrom
  <1>2. InPlace(found, inner)
    BY DEF AllInPlace
  <1> DEFINE Longer(path) == <<step>> \o path
  <1>3. \A path \in inner.paths : At(raw, Longer(path)) = At(found, path)
    BY <1>1
  <1>4. \A left, right \in inner.paths : left # right => Longer(left) # Longer(right)
    BY <1>1, LedOnce
  <1>5. error.paths = {Longer(path) : path \in inner.paths}
    BY <1>1
  <1> HIDE DEF Longer
  <1>6. CASE error.code = "missing"
    <2>1. ASSUME NEW path \in inner.paths
          PROVE  \A there \in At(raw, Longer(path)) : Nothing(there)
      <3>1. \A there \in At(found, path) : Nothing(there)
        BY <1>1, <1>2, <1>6 DEF InPlace, Nothing
      <3> QED
        BY <1>3, <3>1
    <2>2. \A path \in error.paths : \A there \in At(raw, path) : Nothing(there)
      BY <1>5, <2>1
    <2> QED
      BY <1>6, <2>2 DEF InPlace, Nothing
  <1>7. CASE error.code = "required_choice"
    <2>1. PICK path \in inner.paths : \A there \in At(found, path) : there.json = "null"
      BY <1>1, <1>2, <1>7 DEF InPlace
    <2>2. /\ Longer(path) \in error.paths
          /\ \A there \in At(raw, Longer(path)) : there.json = "null"
      BY <1>3, <1>5, <2>1
    <2> QED
      BY <1>7, <2>2 DEF InPlace
  <1>8. CASE error.code = "mutually_exclusive"
    <2>1. PICK left, right \in inner.paths :
             left # right /\ At(found, left) # {} /\ At(found, right) # {}
      BY <1>1, <1>2, <1>8 DEF InPlace
    <2>2. /\ Longer(left) \in error.paths /\ Longer(right) \in error.paths
          /\ Longer(left) # Longer(right)
          /\ At(raw, Longer(left)) # {} /\ At(raw, Longer(right)) # {}
      BY <1>3, <1>4, <1>5, <2>1
    <2> QED
      BY <1>8, <2>2 DEF InPlace
  <1>9. CASE error.code \notin {"missing", "required_choice", "mutually_exclusive"}
    BY <1>1, <1>2, <1>3, <1>5, <1>9 DEF InPlace
  <1> QED
    BY <1>6, <1>7, <1>8, <1>9

LEMMA UnderField ==
    ASSUME NEW raw \in Values, raw.json = "object", NEW name \in DOMAIN raw.fields,
           NEW errors, errors \subseteq Errors, AllInPlace(raw.fields[name], errors)
    PROVE  AllInPlace(raw, Under(name, errors))
  <1>1. name \in Steps
    BY FoundIn DEF Steps
  <1>2. \A path \in Seq(Steps) : At(raw, <<name>> \o path) = At(raw.fields[name], path)
    BY <1>1, AtField
  <1> QED
    BY <1>1, <1>2, LedInPlace

LEMMA UnderItem ==
    ASSUME NEW raw \in Values, raw.json = "array", NEW i \in DOMAIN raw.items,
           NEW errors, errors \subseteq Errors, AllInPlace(raw.items[i], errors)
    PROVE  AllInPlace(raw, Under(i, errors))
  <1>1. i \in Steps
    BY FoundIn DEF Steps
  <1>2. \A path \in Seq(Steps) : At(raw, <<i>> \o path) = At(raw.items[i], path)
    BY AtItem
  <1> QED
    BY <1>1, <1>2, LedInPlace

\* A field that is not there is missing.
LEMMA UnderAbsent ==
    ASSUME NEW raw \in Values, raw.json = "object", NEW name \in Steps,
           name \notin DOMAIN raw.fields
    PROVE  AllInPlace(raw, Under(name, Missing))
  <1> SUFFICES ASSUME NEW error \in Under(name, Missing)
               PROVE  InPlace(raw, error)
    BY DEF AllInPlace
  <1>0. PICK inner \in Missing : LedFrom(name, inner, error)
    <2>1. Missing \subseteq Errors
      BY Fails DEF Missing, Codes
    <2> QED
      BY <2>1, UnderHas
  <1>1. /\ inner.paths \subseteq Seq(Steps)
        /\ error.paths = {<<name>> \o path : path \in inner.paths}
        /\ error.code = inner.code
    BY <1>0 DEF LedFrom
  <1>2. inner.code = "missing"
    BY DEF Missing, Fail
  <1>3. \A path \in error.paths : At(raw, path) = {}
    BY <1>1, AtField
  <1> QED
    BY <1>1, <1>2, <1>3 DEF InPlace

\* What is at a name of an object.
LEMMA AtName ==
    ASSUME NEW raw \in Values, raw.json = "object", NEW name \in Steps
    PROVE  At(raw, <<name>>) = IF name \in DOMAIN raw.fields THEN {raw.fields[name]} ELSE {}
  <1>1. <<>> \in Seq(Steps) /\ <<name>> \o <<>> = <<name>>
    OBVIOUS
  <1>2. CASE name \in DOMAIN raw.fields
    <2>1. raw.fields[name] \in Values
      BY <1>2, FoundIn
    <2>2. At(raw.fields[name], <<>>) = {raw.fields[name]}
      BY <2>1, AtSelf
    <2>3. At(raw, <<name>> \o <<>>) = At(raw.fields[name], <<>>)
      BY <1>1, <1>2, AtField
    <2> QED
      BY <1>1, <1>2, <2>2, <2>3
  <1>3. CASE name \notin DOMAIN raw.fields
    <2>1. At(raw, <<name>> \o <<>>) = {}
      BY <1>1, <1>3, AtField
    <2> QED
      BY <1>1, <1>3, <2>1
  <1> QED
    BY <1>2, <1>3

LEMMA ParseShapeErrors ==
    \A shape \in Shapes, raw \in Values, caller \in Calling :
        ParseShape[<<shape, raw, caller>>] \subseteq Errors
  <1> DEFINE Good == {s \in Shapes : \A raw \in Values, caller \in Calling :
                                        ParseShape[<<s, raw, caller>>] \subseteq Errors}
  <1>1. ASSUME NEW s \in Shapes,
               \A x \in Shapes : ShapeDepth[x] < ShapeDepth[s] => x \in Good
        PROVE  s \in Good
    <2>1. Reports(ParseShape, s)
      BY <1>1, ShapeInside DEF Reports
    <2> QED
      BY <2>1, ParseShapeIs, KindErrors
  <1>2. Good \subseteq Shapes
    OBVIOUS
  <1> HIDE DEF Good
  <1>3. Good = Shapes
    BY <1>1, <1>2, ShapesRank, Everywhere
  <1> QED
    BY <1>3 DEF Good

LEMMA ParameterInPlace ==
    ASSUME NEW shape \in Shapes, shape.kind = "object", NEW i \in DOMAIN shape.params,
           NEW raw \in Values, raw.json = "object", NEW caller \in Calling,
           \A sent \in Values :
              AllInPlace(sent, ParseShape[<<shape.params[i].shape, sent, caller>>])
    PROVE  /\ AllInPlace(raw, ParseParameter(ParseShape, shape.params[i], raw.fields, caller))
           /\ \A error \in ParseParameter(ParseShape, shape.params[i], raw.fields, caller) :
                 \A path \in error.paths : path[1] = shape.params[i].name
  <1> DEFINE parameter == shape.params[i]
             name == parameter.name
             fields == raw.fields
             sent == fields[name]
             parsed == ParseShape[<<parameter.shape, sent, caller>>]
             inside == IF ~ Present(parameter, fields)
                       THEN IF parameter.required THEN Missing ELSE {}
                       ELSE IF sent.json = "null" /\ parameter.null = "rejected"
                       THEN Fail("null_rejected")
                       ELSE IF sent.json = "null" THEN ApplyParser(parameter, sent)
                       ELSE IF /\ parameter.required /\ WireType(parameter.shape) = "string"
                               /\ sent.json = "string" /\ Blank(sent.text)
                       THEN Missing
                       ELSE Then(EnforceSize(parameter, sent),
                            Then(parsed, ApplyParser(parameter, sent)))
  <1>1. ParseParameter(ParseShape, parameter, fields, caller) = Under(name, inside)
    BY DEF ParseParameter
  <1>2. name \in Steps
    BY BuiltFrom DEF IsParameter, Steps
  <1>3. /\ Missing \subseteq Errors /\ Fail("null_rejected") \subseteq Errors
        /\ Fail("invalid") \subseteq Errors
    BY Fails DEF Missing, Codes
  <1>4. ASSUME name \notin DOMAIN fields
        PROVE  inside \subseteq Errors /\ AllInPlace(raw, Under(name, inside))
    <2>1. inside \in {Missing, {}}
      BY <1>4 DEF Present
    <2>2. AllInPlace(raw, Under(name, Missing))
      BY <1>2, <1>4, UnderAbsent
    <2>3. AllInPlace(raw, Under(name, {}))
      BY DEF AllInPlace, Under
    <2> QED
      BY <1>3, <2>1, <2>2, <2>3
  <1>5. ASSUME name \in DOMAIN fields
        PROVE  inside \subseteq Errors /\ AllInPlace(raw, Under(name, inside))
    <2>1. sent \in Values /\ parameter.shape \in Shapes
      BY <1>5, BuiltFrom, FoundIn, ShapeInside
    <2>2. parsed \subseteq Errors /\ AllInPlace(sent, parsed)
      BY <2>1, ParseShapeErrors
    <2>3. \A code \in Codes \ {"missing", "required_choice", "mutually_exclusive"} :
             AllInPlace(sent, Fail(code))
      BY <2>1, FailInPlace
    <2>4. Nothing(sent) => AllInPlace(sent, Missing)
      BY <2>1, FailInPlace DEF Missing, Codes
    <2>5. AllInPlace(sent, {})
      BY DEF AllInPlace
    <2>6. AllInPlace(sent, Fail("null_rejected")) /\ AllInPlace(sent, ApplyParser(parameter, sent))
      BY <2>3, <2>5 DEF ApplyParser, Codes
    <2>7. AllInPlace(sent, EnforceSize(parameter, sent))
      BY <2>3, <2>5 DEF EnforceSize, WithinBounds, Then, Codes
    <2>8. EnforceSize(parameter, sent) \subseteq Errors /\ ApplyParser(parameter, sent) \subseteq Errors
      BY <1>3, SizeErrors DEF EnforceSize, ApplyParser, Then
    <2>9. inside \subseteq Errors
      BY <1>3, <2>2, <2>8 DEF Then
    <2>10. AllInPlace(sent, inside)
      <3>1. CASE ~ Present(parameter, fields)
        <4>1. Nothing(sent)
          BY <1>5, <3>1 DEF Present, ParamPresent, Nothing
        <4> QED
          BY <2>4, <2>5, <3>1, <4>1
      <3>2. CASE sent.json = "string" /\ Blank(sent.text)
        <4>1. Nothing(sent)
          BY <3>2 DEF Nothing
        <4> HIDE DEF sent, parsed
        <4> QED
          BY <2>2, <2>4, <2>5, <2>6, <2>7, <4>1 DEF Then
      <3>3. CASE Present(parameter, fields) /\ ~ (sent.json = "string" /\ Blank(sent.text))
        <4> HIDE DEF sent, parsed
        <4> QED
          BY <2>2, <2>5, <2>6, <2>7, <3>3 DEF Then
      <3> QED
        BY <3>1, <3>2, <3>3
    <2> HIDE DEF inside
    <2> QED
      BY <1>5, <2>9, <2>10, UnderField
  <1> HIDE DEF inside
  <1>6. inside \subseteq Errors /\ AllInPlace(raw, Under(name, inside))
    BY <1>4, <1>5
  <1>7. \A error \in Under(name, inside) : \A path \in error.paths : path[1] = name
    <2> HIDE DEF name
    <2> QED
      BY <1>2, <1>6, UnderFirst, Zenon
  <1> QED
    BY <1>1, <1>6, <1>7

\* A rule is about the names that the caller sees: it asks for one that was not
\* sent, and it excludes two that were.
LEMMA RuleInPlace ==
    ASSUME NEW shape \in Shapes, shape.kind = "object", NEW i \in DOMAIN shape.rules,
           NEW raw \in Values, raw.json = "object", NEW caller \in Calling,
           NEW error \in ApplyRule(shape.rules[i], Seen(shape.params, caller),
                                   Sent(shape.params, raw.fields, caller))
    PROVE  InPlace(raw, error) /\ Known(shape, raw, error)
  <1> DEFINE rule == shape.rules[i]
             params == shape.params
             fields == raw.fields
             seen == Seen(params, caller)
             sent == Sent(params, fields, caller)
             visible == rule.names \cap seen
             chosen == visible \cap sent
             paths == {<<name>> : name \in visible}
  <1>1. /\ IsFiniteSet(visible) /\ IsFiniteSet(chosen) /\ chosen \subseteq visible
        /\ Cardinality(chosen) \in Nat /\ Cardinality(visible) \in Nat
        /\ rule.max \in Nat
    <2>1. IsFiniteSet(rule.names) /\ rule.max \in Nat
      BY ShapesAssumption
    <2>2. IsFiniteSet(visible)
      BY <2>1, FS_Subset
    <2>3. IsFiniteSet(chosen)
      BY <2>2, FS_Subset
    <2> QED
      BY <2>1, <2>2, <2>3, FS_CardinalityType
  <1>2. visible \subseteq Names(params) /\ visible \subseteq Steps
    BY SeenSteps
  <1>3. \A name \in seen : name \in sent \/ name \notin DOMAIN fields \/ fields[name].json = "null"
    BY DEF Seen, Sent, Visible, Present, ParamPresent
  <1>4. \A name \in sent : name \in DOMAIN fields
    BY DEF Sent, Present
  <1>5. NamesRead[shape] = Names(params)
    BY NamesReadIs DEF NamesReadBy
  <1>6. error \in IF Cardinality(chosen) < rule.min /\ Cardinality(chosen) < Cardinality(visible)
                 THEN FailChoice(visible, "required_choice")
                 ELSE IF rule.max > 0 /\ Cardinality(chosen) > rule.max
                 THEN FailChoice(visible, "mutually_exclusive")
                 ELSE {}
    BY DEF ApplyRule
  <1> HIDE DEF chosen, visible, sent, seen
  <1>7. CASE /\ Cardinality(chosen) < Cardinality(visible)
             /\ error \in FailChoice(visible, "required_choice")
    <2>1. error.paths = paths /\ error.code = "required_choice"
      BY <1>7 DEF FailChoice
    <2>2. PICK name \in visible : name \notin chosen
      <3>1. chosen # visible
        BY <1>1, <1>7
      <3> QED
        BY <1>1, <3>1
    <2>3. name \in seen /\ name \notin sent /\ name \in Steps
      BY <1>2, <2>2 DEF chosen, visible
    <2>4. \A found \in At(raw, <<name>>) : found.json = "null"
      BY <1>3, <2>3, AtName
    <2>5. <<name>> \in error.paths
      BY <2>1
    <2>6. InPlace(raw, error)
      BY <2>1, <2>4, <2>5 DEF InPlace
    <2>7. \A path \in error.paths : path[1] \in Names(params)
      BY <1>2, <2>1
    <2> QED
      BY <1>5, <2>6, <2>7 DEF Known
  <1>8. CASE /\ rule.max > 0 /\ Cardinality(chosen) > rule.max
             /\ error \in FailChoice(visible, "mutually_exclusive")
    <2>1. error.paths = paths /\ error.code = "mutually_exclusive"
      BY <1>8 DEF FailChoice
    <2>2. PICK one \in chosen, other \in chosen : one # other
      <3>1. Cardinality(chosen) > 1
        BY <1>1, <1>8
      <3>2. chosen # {}
        BY <3>1, FS_EmptySet
      <3>3. PICK one \in chosen : TRUE
        BY <3>2
      <3>4. chosen # {one}
        BY <3>1, FS_Singleton
      <3> QED
        BY <3>3, <3>4
    <2>3. /\ one \in visible /\ other \in visible
          /\ one \in DOMAIN fields /\ other \in DOMAIN fields
      BY <1>4, <2>2 DEF chosen
    <2>4. At(raw, <<one>>) # {} /\ At(raw, <<other>>) # {}
      BY <1>2, <2>3, AtName
    <2>5. /\ <<one>> \in error.paths /\ <<other>> \in error.paths
          /\ <<one>> # <<other>>
      BY <2>1, <2>2, <2>3
    <2>6. InPlace(raw, error)
      BY <2>1, <2>4, <2>5 DEF InPlace
    <2> QED
      BY <2>1, <2>6 DEF Known, Asks
  <1> QED
    BY <1>6, <1>7, <1>8

LEMMA ObjectInPlace ==
    ASSUME NEW shape \in Shapes, shape.kind = "object", NEW known,
           NEW raw \in Values, raw.json = "object", NEW caller \in Calling,
           \A inner \in ShapesIn(shape), sent \in Values :
              AllInPlace(sent, ParseShape[<<inner, sent, caller>>]),
           NEW error \in ParseObject(ParseShape, shape, known, raw.fields, caller)
    PROVE  InPlace(raw, error) /\ Known(shape, raw, error)
  <1> DEFINE params == shape.params
             fields == raw.fields
             seen == Seen(params, caller)
             sent == Sent(params, fields, caller)
             visible == Visible(params, caller)
             parsed == [i \in visible |-> ParseParameter(ParseShape, params[i], fields, caller)]
             applied == [i \in DOMAIN shape.rules |-> ApplyRule(shape.rules[i], seen, sent)]
             unexpected == Unexpected(params, known, fields, caller)
  <1>0. \A code \in Codes \ {"missing", "required_choice", "mutually_exclusive"} :
           AllInPlace(raw, Fail(code))
    BY FailInPlace
  <1>1. CASE \E name \in unexpected : error \in Under(name, Fail("unexpected"))
    <2>1. PICK name \in unexpected : error \in Under(name, Fail("unexpected"))
      BY <1>1
    <2>2. name \in DOMAIN fields /\ name \in Steps
      BY FoundIn DEF Unexpected, Steps
    <2>3. Fail("unexpected") \subseteq Errors /\ AllInPlace(fields[name], Fail("unexpected"))
      BY <2>2, FoundIn, Fails, FailInPlace DEF Codes
    <2>4. AllInPlace(raw, Under(name, Fail("unexpected")))
      BY <2>2, <2>3, UnderField
    <2>5. \A path \in error.paths : path[1] = name
      BY <2>1, <2>2, <2>3, UnderFirst, Zenon
    <2> QED
      BY <2>1, <2>2, <2>4, <2>5 DEF AllInPlace, Known
  <1>2. CASE error \in First(parsed)
    <2>1. DOMAIN parsed = visible /\ visible \subseteq DOMAIN params /\ DOMAIN params \subseteq Nat
      BY BuiltFrom DEF Visible
    <2>2. PICK i \in visible : error \in parsed[i]
      <3> HIDE DEF parsed
      <3> QED
        BY <1>2, <2>1, FirstFails
    <2>3. error \in ParseParameter(ParseShape, params[i], fields, caller) /\ i \in DOMAIN params
      BY <2>1, <2>2
    <2>4. params[i].shape \in ShapesIn(shape)
      BY <2>3, BuiltFrom
    <2>5. /\ InPlace(raw, error)
          /\ \A path \in error.paths : path[1] = params[i].name
      BY <2>3, <2>4, ParameterInPlace DEF AllInPlace
    <2>6. NamesRead[shape] = Names(params)
      BY NamesReadIs DEF NamesReadBy
    <2> QED
      BY <2>3, <2>5, <2>6 DEF Known, Names
  <1>3. CASE error \in First(applied)
    <2>1. DOMAIN applied = DOMAIN shape.rules /\ DOMAIN shape.rules \subseteq Nat
      BY BuiltFrom
    <2>2. PICK i \in DOMAIN shape.rules : error \in applied[i]
      <3> HIDE DEF applied
      <3> QED
        BY <1>3, <2>1, FirstFails
    <2>3. error \in ApplyRule(shape.rules[i], seen, sent)
      BY <2>2
    <2> QED
      BY <2>3, RuleInPlace
  <1>4. CASE error \in ApplyObjectParser(shape, sent)
    <2>1. error \in Fail("parse_failed")
      BY <1>4 DEF ApplyObjectParser
    <2>2. error.code = "parse_failed"
      BY <2>1 DEF Fail
    <2> QED
      BY <1>0, <2>1, <2>2 DEF AllInPlace, Codes, Known, Asks
  <1>5. \/ error \in UNION {Under(name, Fail("unexpected")) : name \in unexpected}
        \/ error \in First(parsed) \/ error \in First(applied)
        \/ error \in ApplyObjectParser(shape, sent)
    <2>1. ParseExpected(ParseShape, shape, fields, caller)
              = Then(First(parsed), Then(First(applied), ApplyObjectParser(shape, sent)))
      BY DEF ParseExpected
    <2> HIDE DEF parsed, applied, unexpected, sent
    <2> QED
      BY <2>1 DEF ParseObject, Then, unexpected
  <1> HIDE DEF parsed, applied, unexpected, sent
  <1> QED
    BY <1>1, <1>2, <1>3, <1>4, <1>5

\* The variant is given the object without its discriminator.  What is in place
\* there is in place in the object, if it is not the discriminator.
LEMMA RestInPlace ==
    ASSUME NEW raw \in Values, raw.json = "object", NEW key,
           ObjectWithoutKey(raw.fields, key) \in Values,
           NEW error \in Errors, InPlace(ObjectWithoutKey(raw.fields, key), error),
           Asks(error) => \A path \in error.paths : path # <<>> => path[1] # key
    PROVE  InPlace(raw, error)
  <1> DEFINE rest == ObjectWithoutKey(raw.fields, key)
  <1>0. /\ rest \in Values /\ rest.json = "object"
        /\ DOMAIN rest.fields = DOMAIN raw.fields \ {key}
        /\ \A name \in DOMAIN rest.fields : rest.fields[name] = raw.fields[name]
        /\ InPlace(rest, error)
    BY DEF ObjectWithoutKey
  <1> HIDE DEF rest
  <1>1. error.paths \subseteq Seq(Steps)
    BY DEF Errors
  <1>2. ASSUME NEW path \in Seq(Steps)
        PROVE  /\ path # <<>> /\ path[1] # key => At(raw, path) = At(rest, path)
               /\ At(rest, path) # {} => At(raw, path) # {}
    <2>1. CASE path = <<>>
      <3>1. At(raw, path) = {raw}
        BY <2>1, AtSelf
      <3> QED
        BY <2>1, <3>1
    <2>2. ASSUME NEW step \in Steps, NEW inner \in Seq(Steps), path = <<step>> \o inner
          PROVE  /\ path[1] # key => At(raw, path) = At(rest, path)
                 /\ At(rest, path) # {} => At(raw, path) # {}
      <3>1. path[1] = step
        BY <2>2, Led
      <3>2. CASE step \in DOMAIN rest.fields
        <4>1. At(rest, <<step>> \o inner) = At(rest.fields[step], inner)
          BY <1>0, <3>2, AtField
        <4>2. At(raw, <<step>> \o inner) = At(raw.fields[step], inner)
          BY <1>0, <3>2, AtField
        <4>3. At(raw, path) = At(rest, path)
          BY <1>0, <2>2, <3>2, <4>1, <4>2, Zenon
        <4> QED
          BY <4>3
      <3>3. CASE step \notin DOMAIN rest.fields
        <4>1. At(rest, path) = {}
          BY <1>0, <2>2, <3>3, AtField
        <4>2. step # key => At(raw, path) = {}
          BY <1>0, <2>2, <3>3, AtField
        <4> QED
          BY <3>1, <4>1, <4>2
      <3> QED
        BY <3>2, <3>3
    <2>3. CASE path # <<>>
      <3>1. PICK step \in Steps, inner \in Seq(Steps) : path = <<step>> \o inner
        BY <2>3, EmptyOrLed
      <3> QED
        BY <2>2, <3>1, Zenon
    <2> QED
      BY <2>1, <2>3
  <1>3. At(rest, <<>>) = {rest}
    BY <1>0, AtSelf
  <1>4. CASE error.code = "missing"
    <2>1. ASSUME NEW path \in error.paths
          PROVE  \A found \in At(raw, path) : Nothing(found)
      <3>1. \A found \in At(rest, path) : Nothing(found)
        BY <1>0, <1>4 DEF InPlace, Nothing
      <3>2. path # <<>>
        BY <1>0, <1>3, <3>1 DEF Nothing
      <3>3. path[1] # key
        BY <1>4, <3>2 DEF Asks
      <3> QED
        BY <1>1, <1>2, <3>1, <3>2, <3>3
    <2> QED
      BY <1>4, <2>1 DEF InPlace, Nothing
  <1>5. CASE error.code = "required_choice"
    <2>1. PICK path \in error.paths : \A found \in At(rest, path) : found.json = "null"
      BY <1>0, <1>5 DEF InPlace
    <2>2. path # <<>>
      BY <1>0, <1>3, <2>1
    <2>3. path[1] # key
      BY <1>5, <2>2 DEF Asks
    <2>4. At(raw, path) = At(rest, path)
      BY <1>1, <1>2, <2>2, <2>3
    <2> QED
      BY <1>5, <2>1, <2>4 DEF InPlace
  <1>6. CASE error.code = "mutually_exclusive"
    BY <1>0, <1>1, <1>2, <1>6 DEF InPlace
  <1>7. CASE error.code \notin {"missing", "required_choice", "mutually_exclusive"}
    BY <1>0, <1>1, <1>2, <1>7 DEF InPlace
  <1> QED
    BY <1>4, <1>5, <1>6, <1>7

LEMMA VariantInPlace ==
    ASSUME NEW shape \in Shapes, shape.kind = "variants", NEW known,
           NEW raw \in Values, raw.json = "object", NEW caller \in Calling,
           \A inner \in ShapesIn(shape) : shape.discriminator \notin NamesRead[inner],
           \A inner \in ShapesIn(shape), sent \in Values :
              \A e \in ParseShape[<<inner, sent, caller>>] :
                 InPlace(sent, e) /\ Known(inner, sent, e),
           NEW error \in ParseVariants(ParseShape, shape, known, raw.fields, caller)
    PROVE  InPlace(raw, error) /\ Known(shape, raw, error)
  <1> DEFINE fields == raw.fields
             key == shape.discriminator
             wrong == ParseDiscriminator(shape, known, fields)
             chosen == Chosen(shape, known, fields[key].text)
             rest == ObjectWithoutKey(fields, key)
  <1>0. /\ key \in STRING /\ key \in Steps
        /\ NamesRead[shape] = {key} \cup UNION {NamesRead[inner] : inner \in ShapesIn(shape)}
    BY BuiltFrom, NamesReadIs DEF NamesReadBy, Steps
  <1>1. CASE error \in Under(key, wrong)
    <2>1. wrong \subseteq Errors
      BY DiscriminatorRight
    <2>2. \A path \in error.paths : path[1] = key
      BY <1>0, <1>1, <2>1, UnderFirst, Zenon
    <2>3. CASE key \notin DOMAIN fields
      <3>1. wrong = Missing
        BY <2>3 DEF ParseDiscriminator
      <3>2. AllInPlace(raw, Under(key, Missing))
        BY <1>0, <2>3, UnderAbsent
      <3> HIDE DEF wrong
      <3> QED
        BY <1>0, <1>1, <2>2, <3>1, <3>2 DEF AllInPlace, Known
    <2>4. CASE key \in DOMAIN fields
      <3>1. fields[key] \in Values
        BY <2>4, FoundIn
      <3>2. /\ AllInPlace(fields[key], Mismatch)
            /\ AllInPlace(fields[key], Fail("value_not_allowed"))
            /\ fields[key].json = "null" => AllInPlace(fields[key], Missing)
        BY <3>1, FailInPlace DEF Mismatch, Missing, Codes, Nothing
      <3>3. AllInPlace(fields[key], {})
        BY DEF AllInPlace
      <3>4. AllInPlace(fields[key], wrong)
        BY <2>4, <3>2, <3>3 DEF ParseDiscriminator
      <3>5. AllInPlace(raw, Under(key, wrong))
        BY <2>1, <2>4, <3>4, UnderField
      <3> HIDE DEF wrong
      <3> QED
        BY <1>0, <1>1, <2>2, <3>5 DEF AllInPlace, Known
    <2> QED
      BY <2>3, <2>4
  <1>2. CASE wrong = {} /\ error \in ParseVariant(ParseShape, shape, known, fields, caller)
    <2>1. Min(chosen) \in chosen
      BY <1>2, DiscriminatorRight, ChosenFirst
    <2> DEFINE inner == shape.variants[Min(chosen)].shape
    <2>2. inner \in ShapesIn(shape) /\ inner \in Shapes /\ rest \in Values
      BY <2>1, BuiltFrom, FoundIn, ShapeInside DEF Chosen
    <2>3. error \in ParseShape[<<inner, rest, caller>>]
      BY <1>2 DEF ParseVariant
    <2> HIDE DEF inner, chosen
    <2>4. error \in Errors /\ InPlace(rest, error) /\ Known(inner, rest, error)
      BY <2>2, <2>3, ParseShapeErrors
    <2>5. /\ rest.json = "object"
          /\ DOMAIN rest.fields = DOMAIN fields \ {key}
      BY DEF ObjectWithoutKey
    <2>6. Asks(error) => \A path \in error.paths : path # <<>> =>
             /\ path[1] \in NamesRead[inner] \cup (DOMAIN fields \ {key})
             /\ path[1] # key
      BY <2>2, <2>4, <2>5 DEF Known
    <2>7. InPlace(raw, error)
      BY <2>2, <2>4, <2>6, RestInPlace
    <2>8. Known(shape, raw, error)
      BY <1>0, <2>2, <2>6 DEF Known
    <2> QED
      BY <2>7, <2>8
  <1>3. error \in Under(key, wrong)
          \/ (wrong = {} /\ error \in ParseVariant(ParseShape, shape, known, fields, caller))
    BY UnderNone DEF ParseVariants, Then
  <1> QED
    BY <1>1, <1>2, <1>3

Placed(shape) ==
    \A raw \in Values, caller \in Calling :
        \A error \in ParseShape[<<shape, raw, caller>>] :
            InPlace(raw, error) /\ Known(shape, raw, error)

\* The variants of a list do not read the discriminator.
Omits(shape) ==
    shape.kind = "variants" =>
        \A inner \in ShapesIn(shape) : shape.discriminator \notin NamesRead[inner]

LEMMA FieldsInPlace ==
    ASSUME NEW shape \in Shapes, shape.kind \in {"object", "variants"}, Omits(shape),
           \A inner \in ShapesIn(shape) : Placed(inner), NEW known,
           NEW raw \in Values, raw.json = "object", NEW caller \in Calling,
           NEW error \in ParseFields(ParseShape, shape, known, raw.fields, caller)
    PROVE  InPlace(raw, error) /\ Known(shape, raw, error)
  <1>1. CASE shape.kind = "object"
    <2>1. \A inner \in ShapesIn(shape), sent \in Values :
             AllInPlace(sent, ParseShape[<<inner, sent, caller>>])
      BY DEF Placed, AllInPlace
    <2>2. error \in ParseObject(ParseShape, shape, known, raw.fields, caller)
      BY <1>1 DEF ParseFields
    <2> QED
      BY <1>1, <2>1, <2>2, ObjectInPlace, Zenon
  <1>2. CASE shape.kind = "variants"
    <2>1. \A inner \in ShapesIn(shape), sent \in Values :
             \A e \in ParseShape[<<inner, sent, caller>>] :
                InPlace(sent, e) /\ Known(inner, sent, e)
      BY DEF Placed
    <2>2. error \in ParseVariants(ParseShape, shape, known, raw.fields, caller)
      BY <1>2 DEF ParseFields
    <2>3. \A inner \in ShapesIn(shape) : shape.discriminator \notin NamesRead[inner]
      BY <1>2 DEF Omits
    <2> QED
      BY <1>2, <2>1, <2>2, <2>3, VariantInPlace, Zenon
  <1> QED
    BY <1>1, <1>2

LEMMA KindInPlace ==
    ASSUME NEW shape \in Shapes, Omits(shape), \A inner \in ShapesIn(shape) : Placed(inner)
    PROVE  Placed(shape)
  <1> SUFFICES ASSUME NEW raw \in Values, NEW caller \in Calling,
                      NEW error \in ParseKind(ParseShape, shape, raw, caller)
               PROVE  InPlace(raw, error) /\ Known(shape, raw, error)
    BY ParseShapeIs DEF Placed
  <1>0. AllInPlace(raw, Mismatch) /\ AllInPlace(raw, Fail("value_not_allowed"))
    BY FailInPlace DEF Mismatch, Codes
  <1>1. CASE shape.kind = "array" /\ raw.json = "array"
    <2> DEFINE Checks(i) == Under(i, ParseShape[<<shape.item, raw.items[i], caller>>])
               checks == [i \in DOMAIN raw.items |-> Checks(i)]
    <2>1. DOMAIN checks = DOMAIN raw.items /\ DOMAIN raw.items \subseteq Nat
      BY <1>1, FoundIn
    <2>2. error \in First(checks)
      BY <1>1 DEF ParseKind, ParseItems
    <2>3. PICK i \in DOMAIN raw.items : error \in checks[i]
      <3> HIDE DEF checks
      <3> QED
        BY <2>1, <2>2, FirstFails
    <2> DEFINE item == raw.items[i]
               parsed == ParseShape[<<shape.item, item, caller>>]
    <2>4. item \in Values /\ shape.item \in ShapesIn(shape) /\ shape.item \in Shapes
      BY <1>1, BuiltFrom, FoundIn, ShapeInside
    <2>5. parsed \subseteq Errors
      BY <2>4, ParseShapeErrors
    <2>6. AllInPlace(item, parsed)
      BY <2>4 DEF Placed, AllInPlace
    <2>7. AllInPlace(raw, Under(i, parsed))
      BY <1>1, <2>5, <2>6, UnderItem
    <2>8. error \in Under(i, parsed)
      BY <2>3
    <2> QED
      BY <1>1, <2>7, <2>8 DEF AllInPlace, Known
  <1>2. CASE shape.kind = "map" /\ raw.json = "object"
    <2>1. PICK name \in DOMAIN raw.fields :
             error \in Under(name, ParseShape[<<shape.item, raw.fields[name], caller>>])
      BY <1>2 DEF ParseKind, ParseValues
    <2> DEFINE field == raw.fields[name]
               parsed == ParseShape[<<shape.item, field, caller>>]
    <2>2. /\ field \in Values /\ shape.item \in ShapesIn(shape) /\ shape.item \in Shapes
          /\ name \in Steps
      BY <1>2, BuiltFrom, FoundIn, ShapeInside DEF Steps
    <2>3. parsed \subseteq Errors
      BY <2>2, ParseShapeErrors
    <2>4. AllInPlace(field, parsed)
      BY <2>2 DEF Placed, AllInPlace
    <2>5. AllInPlace(raw, Under(name, parsed))
      BY <1>2, <2>3, <2>4, UnderField
    <2>6. \A e \in Under(name, parsed) : \A path \in e.paths : path[1] = name
      <3> HIDE DEF parsed
      <3> QED
        BY <2>2, <2>3, UnderFirst, Zenon
    <2> QED
      BY <2>1, <2>5, <2>6 DEF AllInPlace, Known
  <1>3. CASE shape.kind \in {"object", "variants"} /\ raw.json = "object"
    <2>1. error \in ParseFields(ParseShape, shape, Declared(shape), raw.fields, caller)
      BY <1>3 DEF ParseKind
    <2> QED
      BY <1>3, <2>1, FieldsInPlace, Zenon
  <1>4. CASE error \in Mismatch \/ error \in Fail("value_not_allowed")
    <2>1. error.code \in {"type_mismatch", "value_not_allowed"}
      BY <1>4 DEF Mismatch, Fail
    <2> QED
      BY <1>0, <1>4, <2>1 DEF AllInPlace, Known, Asks
  <1>5. CASE shape.kind = "array" /\ raw.json # "array"
    BY <1>4, <1>5 DEF ParseKind
  <1>6. CASE shape.kind \in {"map", "object", "variants"} /\ raw.json # "object"
    BY <1>4, <1>6 DEF ParseKind
  <1>7. CASE shape.kind \notin {"array", "map", "object", "variants"}
    BY <1>4, <1>7 DEF ParseKind, ParseEnum
  <1> QED
    BY <1>1, <1>2, <1>3, <1>5, <1>6, <1>7

LEMMA AllPlaced ==
    ASSUME NEW shape \in Shapes, \A part \in Parts[shape] : Omits(part)
    PROVE  Placed(shape)
  <1> DEFINE Good == {s \in Shapes : (\A part \in Parts[s] : Omits(part)) => Placed(s)}
  <1>1. ASSUME NEW s \in Shapes,
               \A x \in Shapes : ShapeDepth[x] < ShapeDepth[s] => x \in Good
        PROVE  s \in Good
    <2> SUFFICES ASSUME \A part \in Parts[s] : Omits(part) PROVE Placed(s)
      OBVIOUS
    <2>1. /\ s \in Parts[s]
          /\ \A inner \in ShapesIn(s) : Parts[inner] \subseteq Parts[s]
      BY PartsOfShape
    <2>2. \A inner \in ShapesIn(s) : Placed(inner)
      BY <1>1, <2>1, ShapeInside
    <2> QED
      BY <2>1, <2>2, KindInPlace
  <1>2. Good \subseteq Shapes
    OBVIOUS
  <1> HIDE DEF Good
  <1>3. Good = Shapes
    BY <1>1, <1>2, ShapesRank, Everywhere
  <1> QED
    BY <1>3 DEF Good

ReportsInPlace(w) ==
    Parsed(w) /\ workers[w].outcome.kind = "rejected" =>
        InPlace(workers[w].body, workers[w].outcome.error)

LEMMA ReportsInPlaceIs ==
    ErrorsAreInPlace <=> (OmitsDiscriminator(definition) => \A w \in Workers : ReportsInPlace(w))
  BY DEF ErrorsAreInPlace, ReportsInPlace

\* Whatever is in the index: what a step reports is in place.
LEMMA ReportsStep ==
    ASSUME Typed, OmitsDiscriminator(definition), NEW w \in Workers,
           \/ \E body \in Bodies, caller \in Calling : Receive(w, body, caller)
           \/ DecodeBody(w) \/ ResetIndex(w) \/ InsertName(w)
           \/ CheckRules(w) \/ Parse(w) \/ Return(w)
    PROVE  ReportsInPlace(w)'
  <1>0. ASSUME workers'[w].outcome = Panicked
        PROVE  ReportsInPlace(w)'
    BY <1>0 DEF ReportsInPlace, Panicked
  <1>1. CASE \E body \in Bodies, caller \in Calling : Receive(w, body, caller)
    <2>1. workers'[w].step = "decode"
      BY <1>1 DEF Receive, Typed, Idle
    <2> QED
      BY <2>1 DEF ReportsInPlace, Parsed
  <1>2. CASE DecodeBody(w)
    <2>1. CASE Step(w, "decode", "normalize")
      BY <2>1, Stepped DEF ReportsInPlace, Parsed
    <2>2. CASE /\ workers[w].body.json # "object"
               /\ Report(w, "decode", Under("request_body", Fail("invalid_body")))
      BY <2>2, Reported, Ended DEF ReportsInPlace, Parsed
    <2>3. CASE workers' = [workers EXCEPT ![w].step = "normalize", ![w].body = Empty]
      <3>1. workers'[w].step = "normalize"
        BY <2>3 DEF Typed, WorkerFields
      <3> QED
        BY <3>1 DEF ReportsInPlace, Parsed
    <2> QED
      BY <1>2, <2>1, <2>2, <2>3 DEF DecodeBody
  <1>3. CASE ResetIndex(w)
    <2>1. End(w, "normalize", Panicked)
            \/ Step(w, "normalize", "insert") \/ Step(w, "normalize", "check")
      BY <1>3 DEF ResetIndex
    <2> QED
      BY <1>0, <2>1, Stepped, Ended DEF ReportsInPlace, Parsed
  <1>4. CASE InsertName(w)
    <2>1. \/ End(w, "insert", Panicked)
          \/ Step(w, "insert", IF definition.kind = "object" THEN "rules" ELSE "check")
          \/ /\ workers[w].step = "insert"
             /\ workers' = [workers EXCEPT ![w].next = workers[w].next + 1]
      BY <1>4 DEF InsertName
    <2>2. CASE /\ workers[w].step = "insert"
               /\ workers' = [workers EXCEPT ![w].next = workers[w].next + 1]
      <3>1. workers'[w].step = "insert"
        BY <2>2 DEF Typed, WorkerFields
      <3> QED
        BY <3>1 DEF ReportsInPlace, Parsed
    <2> QED
      BY <1>0, <2>1, <2>2, Stepped, Ended DEF ReportsInPlace, Parsed
  <1>5. CASE CheckRules(w)
    <2>1. End(w, "rules", Panicked) \/ Step(w, "rules", "check")
      BY <1>5 DEF CheckRules
    <2> QED
      BY <1>0, <2>1, Stepped, Ended DEF ReportsInPlace, Parsed
  <1>6. CASE Parse(w)
    <2> DEFINE body == workers[w].body
               caller == workers[w].caller
               errors == ErrorsOf(w, index.names)
    <2>1. workers[w].step = "check" /\ Report(w, "check", errors)
      BY <1>6 DEF Parse, ErrorsOf
    <2>2. PICK outcome \in Results(errors) : End(w, "check", outcome)
      BY <2>1, Reported
    <2>3. workers'[w].outcome = outcome /\ workers'[w].body = body
      BY <2>2, Ended
    <2>4. definition \in Shapes /\ definition.kind \in {"object", "variants"}
      BY BodiesAssumption DEF Typed
    <2>5. body \in Values /\ body.json = "object" /\ caller \in Calling
      BY <2>1, BodiesAssumption DEF Typed
    <2>6. \A part \in Parts[definition] : Omits(part)
      BY DEF OmitsDiscriminator, Omits
    <2>7. Omits(definition) /\ \A inner \in ShapesIn(definition) : Placed(inner)
      <3>1. /\ definition \in Parts[definition]
            /\ \A inner \in ShapesIn(definition) : Parts[inner] \subseteq Parts[definition]
        BY <2>4, PartsOfShape
      <3>2. \A inner \in ShapesIn(definition) : inner \in Shapes
        BY <2>4, ShapeInside
      <3> QED
        BY <2>6, <3>1, <3>2, AllPlaced
    <2>8. ASSUME NEW error \in errors
          PROVE  InPlace(body, error)
      <3>1. error \in ParseFields(ParseShape, definition, index.names, body.fields, caller)
        BY DEF ErrorsOf, ParseBody
      <3> QED
        BY <2>4, <2>5, <2>7, <3>1, FieldsInPlace, Zenon
    <2>9. outcome.kind = "rejected" => outcome.error \in errors
      <3> HIDE DEF errors
      <3> QED
        BY <2>2 DEF Results
    <2> HIDE DEF errors, body
    <2> QED
      BY <2>3, <2>8, <2>9 DEF ReportsInPlace
  <1>7. CASE Return(w)
    <2>1. workers'[w].step = "idle"
      BY <1>7 DEF Return, Typed, Idle
    <2> QED
      BY <2>1 DEF ReportsInPlace, Parsed
  <1> QED
    BY <1>1, <1>2, <1>3, <1>4, <1>5, <1>6, <1>7

LEMMA InPlaceNext ==
    ASSUME Typed, ErrorsAreInPlace, [Next]_vars
    PROVE  ErrorsAreInPlace'
  <1>1. CASE UNCHANGED vars
    BY <1>1 DEF ErrorsAreInPlace, Parsed, vars
  <1>2. ASSUME NEW w \in Workers,
               \/ \E body \in Bodies, caller \in Calling : Receive(w, body, caller)
               \/ DecodeBody(w) \/ ResetIndex(w) \/ InsertName(w)
               \/ CheckRules(w) \/ Parse(w) \/ Return(w)
        PROVE  ErrorsAreInPlace'
    <2>1. /\ definition' = definition
          /\ \A v \in Workers : v # w => workers'[v] = workers[v]
      BY <1>2, Others
    <2>2. CASE OmitsDiscriminator(definition)
      <3>1. ReportsInPlace(w)'
        BY <1>2, <2>2, ReportsStep
      <3>2. ASSUME NEW v \in Workers, v # w
            PROVE  ReportsInPlace(v)'
        BY <2>1, <2>2, <3>2, ReportsInPlaceIs DEF ReportsInPlace, Parsed
      <3>3. \A v \in Workers : ReportsInPlace(v)'
        BY <3>1, <3>2
      <3> QED
        BY <3>3 DEF ErrorsAreInPlace, ReportsInPlace
    <2>3. CASE ~ OmitsDiscriminator(definition)
      BY <2>1, <2>3 DEF ErrorsAreInPlace
    <2> QED
      BY <2>2, <2>3
  <1> QED
    BY <1>1, <1>2 DEF Next

\* However many requests are parsed at the same time, and whatever they make of
\* the index they share, an error names the place it is about.
THEOREM ErrorsStayInPlace == Spec => []ErrorsAreInPlace
  <1>1. Init => ErrorsAreInPlace
    BY DEF Init, Idle, ErrorsAreInPlace, Parsed
  <1>2. Typed /\ ErrorsAreInPlace /\ [Next]_vars => (Typed /\ ErrorsAreInPlace)'
    BY TypedNext, InPlaceNext
  <1>3. Init => Typed
    BY TypedInit
  <1> QED
    BY <1>1, <1>2, <1>3, PTL DEF Spec

-----------------------------------------------------------------------------
(***************************************************************************)
(* How shapes are written into documents, and what the documents accept.   *)
(***************************************************************************)
\* What a shape is written as depends on what the shapes in it are written as.
LEMMA WrittenFrom ==
    ASSUME NEW document, NEW g, NEW h, NEW shape \in Shapes,
           \A inner \in ShapesIn(shape) : g[inner] = h[inner]
    PROVE  Written(document, g, shape) = Written(document, h, shape)
  <1>1. CASE shape.kind = "object"
    <2>1. \A name \in Names(shape.params) :
             LET parameter == shape.params[CHOOSE i \in DOMAIN shape.params :
                                              shape.params[i].name = name]
             IN  g[parameter.shape] = h[parameter.shape]
      BY <1>1, BuiltFrom DEF Names
    <2>2. ParamProperties(g, shape.params) = ParamProperties(h, shape.params)
      BY <2>1 DEF ParamProperties
    <2> QED
      BY <1>1, <2>2 DEF Written
  <1>2. CASE shape.kind = "variants"
    <2>1. \A i \in DOMAIN shape.variants : g[shape.variants[i].shape] = h[shape.variants[i].shape]
      BY <1>2, BuiltFrom
    <2>2. DiscriminatorOneOf(g, shape) = DiscriminatorOneOf(h, shape)
      BY <2>1 DEF DiscriminatorOneOf
    <2>3. DiscriminatorSwaggerProperties(g, shape) = DiscriminatorSwaggerProperties(h, shape)
      <3> DEFINE Of(f, i) == f[shape.variants[i].shape].properties
                 Having(f, name) == {i \in DOMAIN shape.variants : name \in DOMAIN Of(f, i)}
                 All(f) == UNION {DOMAIN Of(f, i) : i \in DOMAIN shape.variants}
      <3>1. All(g) = All(h)
        BY <2>1
      <3>2. ASSUME NEW name \in All(g)
            PROVE  Of(g, Min(Having(g, name)))[name] = Of(h, Min(Having(h, name)))[name]
        <4>1. Having(g, name) = Having(h, name)
          BY <2>1
        <4>2. Having(g, name) \subseteq Nat /\ Having(g, name) # {}
          BY <1>2, BuiltFrom
        <4> HIDE DEF Having
        <4>3. \E x \in Having(g, name) : \A y \in Having(g, name) : x <= y
          BY <4>2, Least
        <4>4. Min(Having(g, name)) \in Having(g, name)
          BY <4>3 DEF Min
        <4>5. Min(Having(g, name)) \in DOMAIN shape.variants
          BY <4>4 DEF Having
        <4> QED
          BY <2>1, <4>1, <4>5
      <3> HIDE DEF Of
      <3> QED
        BY <3>1, <3>2 DEF DiscriminatorSwaggerProperties, Of
    <2> QED
      BY <1>2, <2>2, <2>3 DEF Written
  <1>3. CASE shape.kind \in {"array", "map"}
    BY <1>3, BuiltFrom DEF Written
  <1>4. CASE shape.kind \notin {"array", "map", "object", "variants"}
    BY <1>4 DEF Written
  <1> QED
    BY <1>1, <1>2, <1>3, <1>4

\* There is a way to write every shape.
Upto(n) == {s \in Shapes : ShapeDepth[s] < n}
WritesUpto(document, n, f) == f = [s \in Upto(n) |-> Written(document, f, s)]

LEMMA WrittenOnce ==
    ASSUME NEW document, NEW m \in Nat, NEW n \in Nat, m <= n,
           NEW f, WritesUpto(document, m, f), NEW g, WritesUpto(document, n, g)
    PROVE  \A s \in Upto(m) : f[s] = g[s]
  <1> DEFINE Bad == {s \in Upto(m) : f[s] # g[s]}
  <1> SUFFICES ASSUME Bad # {} PROVE FALSE
    OBVIOUS
  <1>1. Bad \subseteq Shapes
    BY DEF Upto
  <1> HIDE DEF Bad
  <1>2. PICK s \in Bad : \A x \in Shapes : ShapeDepth[x] < ShapeDepth[s] => x \notin Bad
    BY <1>1, ShapesRank, Lowest
  <1>3. s \in Shapes /\ s \in Upto(m) /\ s \in Upto(n) /\ f[s] # g[s]
    BY <1>2, ShapesRank DEF Bad, Upto
  <1>4. \A inner \in ShapesIn(s) : f[inner] = g[inner]
    <2> SUFFICES ASSUME NEW inner \in ShapesIn(s) PROVE f[inner] = g[inner]
      OBVIOUS
    <2>1. inner \in Shapes /\ ShapeDepth[inner] < ShapeDepth[s]
      BY <1>3, ShapeInside
    <2>2. inner \in Upto(m)
      BY <1>3, <2>1, ShapesRank DEF Upto
    <2> QED
      BY <1>2, <2>1, <2>2 DEF Bad
  <1>5. Written(document, f, s) = Written(document, g, s)
    BY <1>3, <1>4, WrittenFrom
  <1> QED
    BY <1>3, <1>5 DEF WritesUpto

LEMMA WrittenUpto ==
    ASSUME NEW document
    PROVE  \A n \in Nat : \E f : WritesUpto(document, n, f)
  <1> DEFINE Good == {n \in Nat : \E f : WritesUpto(document, n, f)}
             rank == [n \in Nat |-> n]
  <1>1. ASSUME NEW n \in Nat, \A k \in Nat : rank[k] < rank[n] => k \in Good
        PROVE  n \in Good
    <2>1. CASE n = 0
      <3>1. Upto(0) = {}
        BY ShapesRank DEF Upto
      <3>2. WritesUpto(document, 0, [s \in {} |-> 0])
        BY <3>1 DEF WritesUpto
      <3> QED
        BY <2>1, <3>2
    <2>2. CASE n # 0
      <3>1. n - 1 \in Nat /\ rank[n - 1] < rank[n]
        BY <2>2
      <3>2. PICK f : WritesUpto(document, n - 1, f)
        BY <1>1, <3>1
      <3> DEFINE g == [s \in Upto(n) |-> Written(document, f, s)]
      <3>3. ASSUME NEW s \in Upto(n)
            PROVE  Written(document, f, s) = Written(document, g, s)
        <4>1. s \in Shapes
          BY DEF Upto
        <4>2. ASSUME NEW inner \in ShapesIn(s)
              PROVE  f[inner] = g[inner]
          <5>1. inner \in Upto(n - 1) /\ inner \in Upto(n)
            BY <4>1, ShapeInside, ShapesRank DEF Upto
          <5>2. f[inner] = Written(document, f, inner)
            BY <3>2, <5>1 DEF WritesUpto
          <5> QED
            BY <5>1, <5>2
        <4> HIDE DEF g
        <4> QED
          BY <4>1, <4>2, WrittenFrom
      <3>4. g = [s \in Upto(n) |-> Written(document, g, s)]
        BY <3>3
      <3> QED
        BY <3>4 DEF WritesUpto
    <2> QED
      BY <2>1, <2>2
  <1>2. Good \subseteq Nat /\ rank \in [Nat -> Nat]
    OBVIOUS
  <1> HIDE DEF Good, rank
  <1>3. Good = Nat
    BY <1>1, <1>2, Everywhere
  <1> QED
    BY <1>3 DEF Good

LEMMA WrittenIs ==
    ASSUME NEW document
    PROVE  \E f : f = [s \in Shapes |-> Written(document, f, s)]
  <1> DEFINE part == [s \in Shapes |-> CHOOSE f : WritesUpto(document, ShapeDepth[s] + 1, f)]
             whole == [s \in Shapes |-> part[s][s]]
  <1>1. ASSUME NEW s \in Shapes
        PROVE  WritesUpto(document, ShapeDepth[s] + 1, part[s])
    <2>1. ShapeDepth[s] + 1 \in Nat
      BY ShapesRank
    <2>2. \E f : WritesUpto(document, ShapeDepth[s] + 1, f)
      BY <2>1, WrittenUpto
    <2>3. WritesUpto(document, ShapeDepth[s] + 1,
                     CHOOSE f : WritesUpto(document, ShapeDepth[s] + 1, f))
      BY <2>2
    <2> QED
      BY <2>3
  <1> HIDE DEF part
  <1>2. ASSUME NEW s \in Shapes
        PROVE  part[s][s] = Written(document, whole, s)
    <2>1. s \in Upto(ShapeDepth[s] + 1)
      BY ShapesRank DEF Upto
    <2>2. part[s][s] = Written(document, part[s], s)
      BY <1>1, <2>1 DEF WritesUpto
    <2>3. ASSUME NEW inner \in ShapesIn(s)
          PROVE  part[s][inner] = whole[inner]
      <3>1. inner \in Shapes /\ ShapeDepth[inner] < ShapeDepth[s]
        BY ShapeInside
      <3> DEFINE low == part[inner]
                 high == part[s]
                 m == ShapeDepth[inner] + 1
                 n == ShapeDepth[s] + 1
      <3>2. m \in Nat /\ n \in Nat /\ m <= n /\ inner \in Upto(m)
        BY <3>1, ShapesRank DEF Upto
      <3>3. WritesUpto(document, m, low) /\ WritesUpto(document, n, high)
        BY <1>1, <3>1
      <3> HIDE DEF low, high, m, n
      <3>4. \A x \in Upto(m) : low[x] = high[x]
        BY <3>2, <3>3, WrittenOnce
      <3>5. part[inner][inner] = part[s][inner]
        BY <3>2, <3>4 DEF low, high, m
      <3> QED
        BY <3>1, <3>5
    <2> HIDE DEF whole
    <2> QED
      BY <2>2, <2>3, WrittenFrom
  <1>3. whole = [s \in Shapes |-> Written(document, whole, s)]
    <2>1. \A s \in Shapes : part[s][s] = Written(document, whole, s)
      BY <1>2
    <2>2. whole = [s \in Shapes |-> part[s][s]]
      OBVIOUS
    <2> HIDE DEF whole
    <2> QED
      BY <2>1, <2>2
  <1> QED
    BY <1>3

LEMMA FromParamShapeIs ==
    ASSUME NEW shape \in Shapes
    PROVE  FromParamShape[shape] = Written("openapi31", FromParamShape, shape)
  <1>1. \E f : f = [s \in Shapes |-> Written("openapi31", f, s)]
    BY WrittenIs
  <1>2. FromParamShape = [s \in Shapes |-> Written("openapi31", FromParamShape, s)]
    BY <1>1, ZenonT(60) DEF FromParamShape
  <1> QED
    BY <1>2

LEMMA FromParamShapeSwagger2Is ==
    ASSUME NEW shape \in Shapes
    PROVE  FromParamShapeSwagger2[shape] = Written("swagger2", FromParamShapeSwagger2, shape)
  <1>1. \E f : f = [s \in Shapes |-> Written("swagger2", f, s)]
    BY WrittenIs
  <1>2. FromParamShapeSwagger2 = [s \in Shapes |-> Written("swagger2", FromParamShapeSwagger2, s)]
    BY <1>1, ZenonT(60) DEF FromParamShapeSwagger2
  <1> QED
    BY <1>2

-----------------------------------------------------------------------------
(***************************************************************************)
(* What a schema is, and what it accepts.                                  *)
(***************************************************************************)
Validations == Schemas \X Values
ValidationDepth == [at \in Validations |-> SchemaDepth[at[1]]]

LEMMA SchemaInside ==
    ASSUME NEW schema \in Schemas, NEW inner \in SchemasIn(schema)
    PROVE  inner \in Schemas /\ SchemaDepth[inner] < SchemaDepth[schema]
  BY SchemasAssumption, Zenon

\* Two validators that are the same for what a schema consists of.
SameFor(g, h, schema) ==
    \A inner \in SchemasIn(schema), raw \in Values : g[<<inner, raw>>] = h[<<inner, raw>>]

LEMMA SchemaAgrees ==
    ASSUME NEW g, NEW h, NEW schema \in Schemas, SameFor(g, h, schema), NEW raw \in Values
    PROVE  ValidatesSchema(g, schema, raw) <=> ValidatesSchema(h, schema, raw)
  <1>1. \A inner \in SchemasIn(schema) : g[<<inner, raw>>] = h[<<inner, raw>>]
    BY DEF SameFor
  <1>2. raw.json = "object" =>
           (ValidatesObject(g, schema, raw.fields) <=> ValidatesObject(h, schema, raw.fields))
    <2> SUFFICES ASSUME raw.json = "object"
                 PROVE  ValidatesObject(g, schema, raw.fields)
                           <=> ValidatesObject(h, schema, raw.fields)
      OBVIOUS
    <2>1. \A name \in DOMAIN raw.fields : raw.fields[name] \in Values
      BY FoundIn
    <2>2. \A name \in DOMAIN raw.fields : name \in DOMAIN schema.properties =>
             g[<<schema.properties[name], raw.fields[name]>>]
                 = h[<<schema.properties[name], raw.fields[name]>>]
      BY <2>1 DEF SameFor, SchemasIn
    <2>3. \A name \in DOMAIN raw.fields, other \in schema.additional :
             g[<<other, raw.fields[name]>>] = h[<<other, raw.fields[name]>>]
      BY <2>1 DEF SameFor, SchemasIn
    <2> QED
      BY <2>2, <2>3 DEF ValidatesObject
  <1>3. raw.json = "array" =>
           \A i \in DOMAIN raw.items, item \in schema.items :
              g[<<item, raw.items[i]>>] = h[<<item, raw.items[i]>>]
    BY FoundIn DEF SameFor, SchemasIn
  <1>4. /\ \A s \in schema.oneOf : g[<<s, raw>>] = h[<<s, raw>>]
        /\ \A s \in schema.anyOf : g[<<s, raw>>] = h[<<s, raw>>]
        /\ \A s \in schema.allOf : g[<<s, raw>>] = h[<<s, raw>>]
        /\ \A s \in schema.not : g[<<s, raw>>] = h[<<s, raw>>]
    BY <1>1 DEF SchemasIn
  <1>5. {s \in schema.oneOf : g[<<s, raw>>]} = {s \in schema.oneOf : h[<<s, raw>>]}
    BY <1>4
  <1> DEFINE Items(v) == \A i \in DOMAIN raw.items, item \in schema.items : v[<<item, raw.items[i]>>]
             OneOf(v) == Cardinality({s \in schema.oneOf : v[<<s, raw>>]}) = 1
             AnyOf(v) == \E s \in schema.anyOf : v[<<s, raw>>]
             AllOf(v) == \A s \in schema.allOf : v[<<s, raw>>]
             NoneOf(v) == \A s \in schema.not : ~ v[<<s, raw>>]
  <1>6. raw.json = "array" => (Items(g) <=> Items(h))
    BY <1>3
  <1>7. OneOf(g) <=> OneOf(h)
    BY <1>5, Zenon
  <1>8. (AnyOf(g) <=> AnyOf(h)) /\ (AllOf(g) <=> AllOf(h)) /\ (NoneOf(g) <=> NoneOf(h))
    BY <1>4
  <1>9. ASSUME NEW v
        PROVE  ValidatesSchema(v, schema, raw) <=>
                  /\ HasType(schema.type, raw)
                  /\ schema.enum # {} => raw.json = "string" /\ raw.text \in schema.enum
                  /\ WithinBounds(SizesOf(raw), schema.min, schema.max) = {}
                  /\ raw.json = "object" => ValidatesObject(v, schema, raw.fields)
                  /\ raw.json = "array" => Items(v)
                  /\ schema.oneOf # {} => OneOf(v)
                  /\ schema.anyOf # {} => AnyOf(v)
                  /\ AllOf(v)
                  /\ NoneOf(v)
    BY Zenon DEF ValidatesSchema
  <1> HIDE DEF Items, OneOf, AnyOf, AllOf, NoneOf
  <1> QED
    BY <1>2, <1>6, <1>7, <1>8, <1>9

LEMMA ValidationsRank ==
    /\ ValidationDepth \in [Validations -> Nat]
    /\ \A at \in Validations : /\ at[1] \in Schemas /\ at[2] \in Values
                               /\ \A inner \in SchemasIn(at[1]), raw \in Values :
                                     /\ <<inner, raw>> \in Validations
                                     /\ ValidationDepth[<<inner, raw>>] < ValidationDepth[at]
  <1>1. SchemaDepth \in [Schemas -> Nat]
    BY SchemasAssumption
  <1> QED
    BY <1>1, SchemaInside DEF Validations, ValidationDepth

LEMMA ValidatesIs ==
    ASSUME NEW schema \in Schemas, NEW raw \in Values
    PROVE  Validates[<<schema, raw>>] <=> ValidatesSchema(Validates, schema, raw)
  <1> DEFINE T == BOOLEAN
             Body(g, at) == ValidatesSchema(g, at[1], at[2])
             D == [p \in [Validations -> T] \X Validations |-> Body(p[1], p[2])]
  <1>1. ASSUME NEW g, NEW at
        PROVE  Body(g, at) \in T
    BY DEF ValidatesSchema
  <1>2. ASSUME NEW g, NEW h, NEW at \in Validations,
               \A x \in Validations : ValidationDepth[x] < ValidationDepth[at] => g[x] = h[x]
        PROVE  Body(g, at) = Body(h, at)
    <2>1. SameFor(g, h, at[1])
      BY <1>2, ValidationsRank DEF SameFor
    <2>2. Body(g, at) <=> Body(h, at)
      BY <2>1, ValidationsRank, SchemaAgrees
    <2> HIDE DEF Body
    <2> QED
      BY <1>1, <2>2
  <1> HIDE DEF Body
  <1>3. \A g \in [Validations -> T], at \in Validations : D[<<g, at>>] = Body(g, at)
    BY DEF D
  <1>4. D \in [[Validations -> T] \X Validations -> T]
    <2> HIDE DEF T
    <2> QED
      BY <1>1 DEF D
  <1> HIDE DEF D, T
  <1>5. LooksLower(Validations, T, ValidationDepth, D)
    BY <1>2, <1>3 DEF LooksLower
  <1>6. Recursion(Validations, T, ValidationDepth, D)
    <2>1. T # {}
      BY DEF T
    <2> QED
      BY <1>4, <1>5, <2>1, ValidationsRank DEF Recursion
  <1>7. PICK f : Solves(Validations, T, D, f)
    BY <1>6, RecursiveFunction
  <1>8. f = [at \in Schemas \X Values |-> ValidatesSchema(f, at[1], at[2])]
    BY <1>3, <1>7 DEF Solves, Body, Validations
  <1>9. Validates = [at \in Schemas \X Values |-> ValidatesSchema(Validates, at[1], at[2])]
    BY <1>8, ZenonT(60) DEF Validates
  <1>10. <<schema, raw>> \in Schemas \X Values /\ <<schema, raw>>[1] = schema /\ <<schema, raw>>[2] = raw
    OBVIOUS
  <1> QED
    BY <1>9, <1>10

\* What is in a portable value is portable, and so is what is left of it.
LEMMA PortableIs ==
    ASSUME NEW raw \in Values
    PROVE  Portable[raw] <=> PortableBy(Portable, raw)
  <1> DEFINE T == BOOLEAN
             D == [p \in [Values -> T] \X Values |-> PortableBy(p[1], p[2])]
  <1>1. ASSUME NEW g, NEW v
        PROVE  PortableBy(g, v) \in T
    BY DEF PortableBy
  <1>2. ASSUME NEW g, NEW h, NEW v \in Values,
               \A x \in Values : ValueDepth[x] < ValueDepth[v] => g[x] = h[x]
        PROVE  PortableBy(g, v) = PortableBy(h, v)
    <2>1. \A inner \in ValuesIn(v) : g[inner] = h[inner]
      BY <1>2, ValueInside
    <2>2. PortableBy(g, v) <=> PortableBy(h, v)
      BY <2>1 DEF PortableBy
    <2> QED
      BY <1>1, <2>2
  <1>3. \A g \in [Values -> T], v \in Values : D[<<g, v>>] = PortableBy(g, v)
    OBVIOUS
  <1>4. D \in [[Values -> T] \X Values -> T]
    <2> HIDE DEF T
    <2> QED
      BY <1>1
  <1> HIDE DEF D, T
  <1>5. LooksLower(Values, T, ValueDepth, D)
    BY <1>2, <1>3 DEF LooksLower
  <1>6. Recursion(Values, T, ValueDepth, D)
    <2>1. T # {}
      BY DEF T
    <2> QED
      BY <1>4, <1>5, <2>1, ValuesRank DEF Recursion
  <1>7. PICK f : Solves(Values, T, D, f)
    BY <1>6, RecursiveFunction
  <1>8. f = [v \in Values |-> PortableBy(f, v)]
    BY <1>3, <1>7 DEF Solves
  <1>9. Portable = [v \in Values |-> PortableBy(Portable, v)]
    BY <1>8, ZenonT(60) DEF Portable
  <1> QED
    BY <1>9

SchemaFields == {"type", "enum", "properties", "required", "items", "additional",
                 "oneOf", "anyOf", "allOf", "not", "min", "max"}

Unbounded(schema) == schema.min = NoBound /\ schema.max = NoBound

\* What a shape is written as, field by field.
FieldsWritten(schema, document, from, shape) ==
    /\ DOMAIN schema = SchemaFields /\ Unbounded(schema)
    /\ schema.anyOf = {} /\ schema.not = {}
    /\ schema.type = ParamTypeSchema(WireType(shape)).type
    /\ schema.enum = IF shape.kind = "enum" THEN shape.values ELSE {}
    /\ schema.items = IF shape.kind = "array" THEN {from[shape.item]} ELSE {}
    /\ schema.additional = IF shape.kind = "map" THEN {from[shape.item]} ELSE {}
    /\ schema.oneOf = IF shape.kind = "variants" /\ document = "openapi31"
                      THEN DiscriminatorOneOf(from, shape) ELSE {}
    /\ schema.allOf = IF shape.kind = "object" /\ document = "openapi31"
                      THEN ParamRules(shape.rules) ELSE {}
    /\ shape.kind = "object" =>
          /\ schema.properties = ParamProperties(from, shape.params)
          /\ schema.required = ParamRequired(shape.params)
    /\ shape.kind = "variants" /\ document # "openapi31" =>
          /\ schema.properties = DiscriminatorSwaggerProperties(from, shape)
          /\ schema.required = {shape.discriminator}
    /\ shape.kind # "object" /\ (shape.kind # "variants" \/ document = "openapi31") =>
          schema.properties = <<>> /\ schema.required = {}

LEMMA WrittenFields ==
    ASSUME NEW document, NEW from, NEW shape, NEW schema,
           schema = Written(document, from, shape)
    PROVE  FieldsWritten(schema, document, from, shape)
  <1>1. CASE shape.kind = "object"
    BY <1>1 DEF FieldsWritten, Written, ParamTypeSchema, NoSchema, SchemaFields, Unbounded
  <1>2. CASE shape.kind = "variants" /\ document = "openapi31"
    BY <1>2 DEF FieldsWritten, Written, ParamTypeSchema, NoSchema, SchemaFields, Unbounded
  <1>3. CASE shape.kind = "variants" /\ document # "openapi31"
    BY <1>3 DEF FieldsWritten, Written, ParamTypeSchema, NoSchema, SchemaFields, Unbounded
  <1>4. CASE shape.kind = "array"
    BY <1>4 DEF FieldsWritten, Written, ParamTypeSchema, NoSchema, SchemaFields, Unbounded
  <1>5. CASE shape.kind = "map"
    BY <1>5 DEF FieldsWritten, Written, ParamTypeSchema, NoSchema, SchemaFields, Unbounded
  <1>6. CASE shape.kind = "enum"
    BY <1>6 DEF FieldsWritten, Written, ParamTypeSchema, NoSchema, SchemaFields, Unbounded
  <1>7. CASE shape.kind \notin {"array", "map", "enum", "object", "variants"}
    BY <1>7 DEF FieldsWritten, Written, ParamTypeSchema, NoSchema, SchemaFields, Unbounded
  <1> QED
    BY <1>1, <1>2, <1>3, <1>4, <1>5, <1>6, <1>7

LEMMA NoBounds ==
    ASSUME NEW sizes
    PROVE  WithinBounds(sizes, NoBound, NoBound) = {}
  BY DEF WithinBounds

-----------------------------------------------------------------------------
(***************************************************************************)
(* The schemas of rules.                                                   *)
(***************************************************************************)
\* A finite set has a subset of each smaller size.
LEMMA SubsetOfSize ==
    ASSUME NEW S, IsFiniteSet(S), NEW n \in Nat, n <= Cardinality(S)
    PROVE  \E T \in SUBSET S : Cardinality(T) = n
  <1> DEFINE Large == {T \in SUBSET S : Cardinality(T) >= n}
             Sizes == {Cardinality(T) : T \in Large}
  <1>1. \A T \in SUBSET S : IsFiniteSet(T) /\ Cardinality(T) \in Nat
    BY FS_Subset, FS_CardinalityType
  <1>2. Sizes \subseteq Nat /\ Sizes # {}
    <2>1. S \in Large
      BY <1>1
    <2> QED
      BY <1>1, <2>1
  <1> HIDE DEF Sizes
  <1>3. PICK m \in Sizes : \A k \in Sizes : m <= k
    BY <1>2, Least
  <1>4. PICK T \in Large : m = Cardinality(T)
    BY DEF Sizes
  <1>5. CASE m = n
    BY <1>4, <1>5
  <1>6. CASE m > n
    <2>1. m \in Nat /\ IsFiniteSet(T)
      BY <1>1, <1>4
    <2>2. T # {}
      BY <1>4, <1>6, <2>1, FS_EmptySet
    <2>3. PICK x \in T : TRUE
      BY <2>2
    <2>4. Cardinality(T \ {x}) = m - 1
      BY <1>4, <2>1, <2>3, FS_RemoveElement
    <2>5. T \ {x} \in Large
      BY <1>6, <2>1, <2>4
    <2> QED
      BY <1>3, <2>1, <2>4, <2>5 DEF Sizes
  <1> QED
    BY <1>1, <1>4, <1>5, <1>6

\* An object is only asked for names by a schema without properties.
LEMMA OnlyRequired ==
    ASSUME NEW schema, schema.properties = <<>>, schema.additional = {}, NEW fields
    PROVE  ValidatesObject(Validates, schema, fields) <=> schema.required \subseteq DOMAIN fields
  <1>1. DOMAIN <<>> = {}
    OBVIOUS
  <1>2. \A name : name \notin DOMAIN schema.properties
    BY <1>1
  <1> QED
    BY <1>2, Zenon DEF ValidatesObject

LEMMA NamesNeeded ==
    ASSUME NEW names, RequiredNames(names) \in Schemas, NEW raw \in Values, raw.json = "object"
    PROVE  Validates[<<RequiredNames(names), raw>>] <=> names \subseteq DOMAIN raw.fields
  <1> DEFINE schema == RequiredNames(names)
  <1>1. /\ schema.type = "" /\ schema.enum = {} /\ Unbounded(schema)
        /\ schema.properties = <<>> /\ schema.required = names /\ schema.additional = {}
        /\ schema.oneOf = {} /\ schema.anyOf = {} /\ schema.allOf = {} /\ schema.not = {}
    BY DEF RequiredNames, NoSchema, Unbounded
  <1> HIDE DEF schema
  <1>2. ValidatesObject(Validates, schema, raw.fields) <=> names \subseteq DOMAIN raw.fields
    BY <1>1, OnlyRequired
  <1>3. HasType("", raw)
    BY DEF HasType
  <1>4. schema \in Schemas
    BY DEF schema
  <1>5. Validates[<<schema, raw>>] <=> ValidatesSchema(Validates, schema, raw)
    BY <1>4, ValidatesIs
  <1>6. WithinBounds(SizesOf(raw), schema.min, schema.max) = {}
    BY <1>1, NoBounds DEF Unbounded
  <1>7. ValidatesSchema(Validates, schema, raw)
           <=> ValidatesObject(Validates, schema, raw.fields)
    BY <1>1, <1>3, <1>6 DEF ValidatesSchema
  <1> QED
    BY <1>2, <1>5, <1>7 DEF schema

\* A schema that only combines others.
Combines(schema) ==
    /\ schema.type = "" /\ schema.enum = {} /\ Unbounded(schema)
    /\ schema.properties = <<>> /\ schema.required = {} /\ schema.additional = {}
    /\ schema.items = {} /\ schema.allOf = {}

LEMMA Combined ==
    ASSUME NEW schema \in Schemas, Combines(schema), NEW raw \in Values, raw.json = "object"
    PROVE  Validates[<<schema, raw>>] <=>
              /\ schema.oneOf # {} =>
                    Cardinality({s \in schema.oneOf : Validates[<<s, raw>>]}) = 1
              /\ schema.anyOf # {} => \E s \in schema.anyOf : Validates[<<s, raw>>]
              /\ \A s \in schema.not : ~ Validates[<<s, raw>>]
  <1>1. ValidatesObject(Validates, schema, raw.fields)
    BY OnlyRequired DEF Combines
  <1>2. HasType(schema.type, raw)
    BY DEF HasType, Combines
  <1>3. WithinBounds(SizesOf(raw), schema.min, schema.max) = {}
    BY NoBounds DEF Unbounded, Combines
  <1>4. Validates[<<schema, raw>>] <=> ValidatesSchema(Validates, schema, raw)
    BY ValidatesIs
  <1>5. raw.json # "array" /\ schema.enum = {} /\ schema.allOf = {}
    BY DEF Combines
  <1> QED
    BY <1>1, <1>2, <1>3, <1>4, <1>5, Zenon DEF ValidatesSchema

\* What a rule asks of the names that are there.
Holds(rule, chosen) ==
    /\ Cardinality(chosen) >= rule.min
    /\ rule.max > 0 => Cardinality(chosen) <= rule.max

LEMMA RuleHolds ==
    ASSUME NEW rule, IsFiniteSet(rule.names), rule.min \in Nat, rule.max \in Nat,
           NormalizesRule(rule), NEW seen, rule.names \subseteq seen, NEW sent
    PROVE  ApplyRule(rule, seen, sent) = {} <=> Holds(rule, rule.names \cap sent)
  <1> DEFINE chosen == rule.names \cap sent
  <1>1. \A names, code : FailChoice(names, code) # {}
    BY DEF FailChoice
  <1>2. rule.names \cap seen = rule.names
    OBVIOUS
  <1>3. Cardinality(chosen) \in Nat /\ Cardinality(rule.names) \in Nat
    BY FS_Subset, FS_CardinalityType
  <1>4. rule.min <= Cardinality(rule.names)
    BY DEF NormalizesRule
  <1> HIDE DEF chosen
  <1>5. ApplyRule(rule, seen, sent) = {} <=>
           /\ ~ (Cardinality(chosen) < rule.min /\ Cardinality(chosen) < Cardinality(rule.names))
           /\ ~ (rule.max > 0 /\ Cardinality(chosen) > rule.max)
    BY <1>1, <1>2 DEF ApplyRule, chosen
  <1>6. Holds(rule, chosen) <=> /\ ~ (Cardinality(chosen) < rule.min)
                                /\ ~ (rule.max > 0 /\ Cardinality(chosen) > rule.max)
    BY <1>3 DEF Holds
  <1> QED
    BY <1>3, <1>4, <1>5, <1>6 DEF chosen

\* Some combination of so many of the names is there when so many names are.
LEMMA CombinationThere ==
    ASSUME NEW names, IsFiniteSet(names), NEW present, NEW count \in Nat
    PROVE  (\E c \in NameCombinations(names, count) : c \subseteq present)
              <=> Cardinality(names \cap present) >= count
  <1> DEFINE chosen == names \cap present
  <1>1. IsFiniteSet(chosen) /\ Cardinality(chosen) \in Nat
    BY FS_Subset, FS_CardinalityType
  <1>2. ASSUME NEW c \in NameCombinations(names, count), c \subseteq present
        PROVE  Cardinality(chosen) >= count
    <2>1. c \subseteq chosen /\ Cardinality(c) = count
      BY <1>2 DEF NameCombinations
    <2>2. Cardinality(c) <= Cardinality(chosen)
      BY <1>1, <2>1, FS_Subset
    <2> QED
      BY <1>1, <2>1, <2>2
  <1>3. ASSUME Cardinality(chosen) >= count
        PROVE  \E c \in NameCombinations(names, count) : c \subseteq present
    <2>1. count <= Cardinality(chosen)
      BY <1>1, <1>3
    <2>2. PICK c \in SUBSET chosen : Cardinality(c) = count
      BY <1>1, <2>1, SubsetOfSize
    <2> QED
      BY <2>2 DEF NameCombinations
  <1> QED
    BY <1>2, <1>3

\* The required names of schemas that are in another one.
LEMMA RequiredInside ==
    ASSUME NEW names, NEW count, NEW schema \in Schemas,
           RequiredNameSchemas(names, count) \subseteq SchemasIn(schema),
           NEW raw \in Values, raw.json = "object"
    PROVE  \A c \in NameCombinations(names, count) :
              /\ RequiredNames(c) \in RequiredNameSchemas(names, count)
              /\ Validates[<<RequiredNames(c), raw>>] <=> c \subseteq DOMAIN raw.fields
  BY SchemaInside, NamesNeeded DEF RequiredNameSchemas

LEMMA DifferentNames ==
    ASSUME NEW b, NEW c, RequiredNames(b) = RequiredNames(c)
    PROVE  b = c
  <1>1. RequiredNames(b).required = b /\ RequiredNames(c).required = c
    BY DEF RequiredNames, NoSchema
  <1> QED
    BY <1>1

\* What a finite set is mapped onto is finite.
LEMMA FiniteImage ==
    ASSUME NEW S, NEW T, IsFiniteSet(S), NEW f,
           \A t \in T : \E s \in S : f[s] = t, \A s \in S : f[s] \in T
    PROVE  IsFiniteSet(T)
  <1>1. PICK list \in Seq(S) : \A s \in S : \E n \in 1 .. Len(list) : list[n] = s
    BY DEF IsFiniteSet
  <1> DEFINE image == [n \in 1 .. Len(list) |-> f[list[n]]]
  <1>2. image \in Seq(T) /\ Len(image) = Len(list)
    OBVIOUS
  <1>3. \A t \in T : \E n \in 1 .. Len(image) : image[n] = t
    BY <1>1, <1>2
  <1> QED
    BY <1>2, <1>3 DEF IsFiniteSet

LEMMA OneOfNames ==
    ASSUME NEW names, IsFiniteSet(names), names # {}, NEW schema \in Schemas,
           schema = [NoSchema EXCEPT !.oneOf = RequiredNameSchemas(names, 1)],
           NEW raw \in Values, raw.json = "object"
    PROVE  Validates[<<schema, raw>>] <=> Cardinality(names \cap DOMAIN raw.fields) = 1
  <1> DEFINE options == RequiredNameSchemas(names, 1)
             chosen == names \cap DOMAIN raw.fields
             valid == {s \in options : Validates[<<s, raw>>]}
             There(x) == RequiredNames({x})
  <1>1. schema.oneOf = options /\ schema.anyOf = {} /\ schema.not = {} /\ Combines(schema)
    BY DEF NoSchema, Combines, Unbounded
  <1>2. options \subseteq SchemasIn(schema)
    BY <1>1 DEF SchemasIn
  <1>3. \A x \in names : {x} \in NameCombinations(names, 1)
    BY FS_Singleton DEF NameCombinations
  <1>4. \A c \in NameCombinations(names, 1) : \E x \in names : c = {x}
    BY FS_Subset, FS_Singleton DEF NameCombinations
  <1>5. \A c \in NameCombinations(names, 1) :
           /\ RequiredNames(c) \in options
           /\ Validates[<<RequiredNames(c), raw>>] <=> c \subseteq DOMAIN raw.fields
    BY <1>2, RequiredInside
  <1>6. options # {}
    BY <1>3, <1>5
  <1>7. valid = {There(x) : x \in chosen}
    <2>1. ASSUME NEW s \in valid
          PROVE  \E x \in chosen : s = There(x)
      <3>1. PICK c \in NameCombinations(names, 1) : s = RequiredNames(c)
        BY DEF RequiredNameSchemas
      <3>2. PICK x \in names : c = {x}
        BY <1>4
      <3> QED
        BY <1>5, <3>1, <3>2
    <2>2. ASSUME NEW x \in chosen
          PROVE  There(x) \in valid
      BY <1>3, <1>5
    <2> HIDE DEF valid, chosen, There
    <2> QED
      BY <2>1, <2>2
  <1>8. IsFiniteSet(chosen)
    BY FS_Subset
  <1>9. \A x, y : There(x) = There(y) => x = y
    <2> SUFFICES ASSUME NEW x, NEW y, There(x) = There(y) PROVE x = y
      OBVIOUS
    <2>1. {x} = {y}
      BY DifferentNames
    <2> QED
      BY <2>1
  <1> HIDE DEF There, chosen, valid
  <1>10. IsFiniteSet(valid)
    <2> DEFINE f == [x \in chosen |-> There(x)]
    <2>1. (\A s \in valid : \E x \in chosen : f[x] = s) /\ \A x \in chosen : f[x] \in valid
      BY <1>7
    <2> HIDE DEF f
    <2> QED
      BY <1>8, <2>1, FiniteImage
  <1>11. (\E s : valid = {s}) <=> (\E x : chosen = {x})
    <2>1. ASSUME NEW s, valid = {s}
          PROVE  \E x : chosen = {x}
      <3>1. PICK x \in chosen : s = There(x)
        BY <1>7, <2>1
      <3>2. \A y \in chosen : There(y) = s
        BY <1>7, <2>1
      <3>3. \A y \in chosen : y = x
        BY <1>9, <3>1, <3>2
      <3> QED
        BY <3>3
    <2>2. ASSUME NEW x, chosen = {x}
          PROVE  \E s : valid = {s}
      <3>1. valid = {There(x)}
        BY <1>7, <2>2
      <3> QED
        BY <3>1
    <2> QED
      BY <2>1, <2>2
  <1>12. Cardinality(valid) = 1 <=> Cardinality(chosen) = 1
    BY <1>8, <1>10, <1>11, FS_Singleton
  <1>13. Validates[<<schema, raw>>] <=> Cardinality(valid) = 1
    <2> USE DEF valid
    <2>1. Validates[<<schema, raw>>] <=>
              /\ schema.oneOf # {} =>
                    Cardinality({s \in schema.oneOf : Validates[<<s, raw>>]}) = 1
              /\ schema.anyOf # {} => \E s \in schema.anyOf : Validates[<<s, raw>>]
              /\ \A s \in schema.not : ~ Validates[<<s, raw>>]
      BY <1>1, Combined
    <2> QED
      BY <1>1, <1>6, <2>1
  <1> QED
    BY <1>12, <1>13 DEF chosen

LEMMA AnyOfNames ==
    ASSUME NEW names, IsFiniteSet(names), NEW count \in Nat, count <= Cardinality(names),
           NEW schema \in Schemas,
           schema = [NoSchema EXCEPT !.anyOf = RequiredNameSchemas(names, count)],
           NEW raw \in Values, raw.json = "object"
    PROVE  Validates[<<schema, raw>>] <=> Cardinality(names \cap DOMAIN raw.fields) >= count
  <1> DEFINE options == RequiredNameSchemas(names, count)
  <1>1. schema.oneOf = {} /\ schema.anyOf = options /\ schema.not = {} /\ Combines(schema)
    BY DEF NoSchema, Combines, Unbounded
  <1>2. options \subseteq SchemasIn(schema)
    BY <1>1 DEF SchemasIn
  <1>3. \A c \in NameCombinations(names, count) :
           /\ RequiredNames(c) \in options
           /\ Validates[<<RequiredNames(c), raw>>] <=> c \subseteq DOMAIN raw.fields
    BY <1>2, RequiredInside
  <1>4. options # {}
    <2>1. PICK c \in SUBSET names : Cardinality(c) = count
      BY SubsetOfSize
    <2> QED
      BY <1>3, <2>1 DEF NameCombinations
  <1>5. Validates[<<schema, raw>>] <=> \E s \in options : Validates[<<s, raw>>]
    <2> HIDE DEF options
    <2>1. Validates[<<schema, raw>>] <=>
              /\ schema.oneOf # {} =>
                    Cardinality({s \in schema.oneOf : Validates[<<s, raw>>]}) = 1
              /\ schema.anyOf # {} => \E s \in schema.anyOf : Validates[<<s, raw>>]
              /\ \A s \in schema.not : ~ Validates[<<s, raw>>]
      BY <1>1, Combined
    <2> QED
      BY <1>1, <1>4, <2>1
  <1>6. (\E s \in options : Validates[<<s, raw>>]) <=>
           \E c \in NameCombinations(names, count) : c \subseteq DOMAIN raw.fields
    BY <1>3 DEF RequiredNameSchemas
  <1> QED
    BY <1>5, <1>6, CombinationThere

LEMMA WithoutNames ==
    ASSUME NEW names, NEW schema \in Schemas,
           schema = [NoSchema EXCEPT !.not = {RequiredNames(names)}],
           NEW raw \in Values, raw.json = "object"
    PROVE  Validates[<<schema, raw>>] <=> ~ (names \subseteq DOMAIN raw.fields)
  <1>1. /\ schema.oneOf = {} /\ schema.anyOf = {} /\ schema.not = {RequiredNames(names)}
        /\ Combines(schema)
    BY DEF NoSchema, Combines, Unbounded
  <1>2. RequiredNames(names) \in Schemas
    BY <1>1, SchemaInside DEF SchemasIn
  <1>3. Validates[<<schema, raw>>] <=> ~ Validates[<<RequiredNames(names), raw>>]
    BY <1>1, Combined, Zenon
  <1> QED
    BY <1>2, <1>3, NamesNeeded

LEMMA RuleDescribed ==
    ASSUME NEW rule, IsFiniteSet(rule.names), rule.min \in Nat, rule.max \in Nat,
           NormalizesRule(rule), ParamRuleSchemas(rule) \subseteq Schemas,
           NEW raw \in Values, raw.json = "object"
    PROVE  (\A s \in ParamRuleSchemas(rule) : Validates[<<s, raw>>])
              <=> Holds(rule, rule.names \cap DOMAIN raw.fields)
  <1> DEFINE names == rule.names
             chosen == names \cap DOMAIN raw.fields
             size == Cardinality(chosen)
             one == [NoSchema EXCEPT !.oneOf = RequiredNameSchemas(names, 1)]
             atLeast == [NoSchema EXCEPT !.anyOf = RequiredNameSchemas(names, rule.min)]
             Without(c) == [NoSchema EXCEPT !.not = {RequiredNames(c)}]
             tooLarge == NameCombinations(names, rule.max + 1)
  <1>0. /\ names # {} /\ rule.min <= Cardinality(names)
        /\ size \in Nat /\ (rule.min > 0 \/ rule.max > 0)
    BY FS_Subset, FS_CardinalityType DEF NormalizesRule
  <1>1. CASE rule.min = 1 /\ rule.max = 1
    <2>1. ParamRuleSchemas(rule) = {one}
      BY <1>1 DEF ParamRuleSchemas
    <2>2. one \in Schemas
      BY <2>1
    <2> DEFINE schema == one
    <2>3. schema = [NoSchema EXCEPT !.oneOf = RequiredNameSchemas(names, 1)]
      OBVIOUS
    <2> HIDE DEF schema
    <2>4. Validates[<<schema, raw>>] <=> size = 1
      BY <1>0, <2>2, <2>3, OneOfNames
    <2>5. Holds(rule, chosen) <=> size = 1
      BY <1>0, <1>1 DEF Holds
    <2> QED
      BY <2>1, <2>4, <2>5 DEF schema
  <1>2. CASE ~ (rule.min = 1 /\ rule.max = 1)
    <2>1. ParamRuleSchemas(rule) =
              (IF rule.min = 0 THEN {} ELSE {atLeast})
              \cup (IF rule.max = 0 THEN {} ELSE {Without(c) : c \in tooLarge})
      BY <1>2 DEF ParamRuleSchemas, TooLargeCombinations
    <2>2. rule.min # 0 => (Validates[<<atLeast, raw>>] <=> size >= rule.min)
      <3> SUFFICES ASSUME rule.min # 0
                   PROVE  Validates[<<atLeast, raw>>] <=> size >= rule.min
        OBVIOUS
      <3>1. atLeast \in Schemas
        BY <2>1
      <3> DEFINE schema == atLeast
      <3>2. schema = [NoSchema EXCEPT !.anyOf = RequiredNameSchemas(names, rule.min)]
        OBVIOUS
      <3> HIDE DEF schema
      <3> QED
        BY <1>0, <3>1, <3>2, AnyOfNames DEF schema
    <2>3. rule.max # 0 => \A c \in tooLarge :
             Validates[<<Without(c), raw>>] <=> ~ (c \subseteq DOMAIN raw.fields)
      <3> SUFFICES ASSUME rule.max # 0, NEW c \in tooLarge
                   PROVE  Validates[<<Without(c), raw>>] <=> ~ (c \subseteq DOMAIN raw.fields)
        OBVIOUS
      <3>1. Without(c) \in Schemas
        BY <2>1
      <3> DEFINE schema == Without(c)
      <3>2. schema = [NoSchema EXCEPT !.not = {RequiredNames(c)}]
        OBVIOUS
      <3> HIDE DEF schema
      <3> QED
        BY <3>1, <3>2, WithoutNames DEF schema
    <2>4. (\E c \in tooLarge : c \subseteq DOMAIN raw.fields) <=> size >= rule.max + 1
      BY CombinationThere
    <2>5. (\A s \in ParamRuleSchemas(rule) : Validates[<<s, raw>>]) <=>
             /\ rule.min # 0 => Validates[<<atLeast, raw>>]
             /\ rule.max # 0 => \A c \in tooLarge : Validates[<<Without(c), raw>>]
      <3> HIDE DEF atLeast, Without, tooLarge
      <3> QED
        BY <2>1
    <2> HIDE DEF atLeast, Without, tooLarge, size
    <2>6. (\A s \in ParamRuleSchemas(rule) : Validates[<<s, raw>>]) <=>
             /\ rule.min # 0 => size >= rule.min
             /\ rule.max # 0 => ~ (size >= rule.max + 1)
      BY <2>2, <2>3, <2>4, <2>5
    <2>7. Holds(rule, chosen) <=> /\ size >= rule.min
                                  /\ rule.max > 0 => size <= rule.max
      BY DEF Holds, size
    <2> QED
      BY <1>0, <2>6, <2>7
  <1> QED
    BY <1>1, <1>2

-----------------------------------------------------------------------------
(***************************************************************************)
(* What the schema of each kind of shape accepts, in either document.      *)
(***************************************************************************)
Writes(document, from) ==
    \A shape \in Shapes : /\ from[shape] = Written(document, from, shape)
                          /\ from[shape] \in Schemas

LEMMA BothWrite ==
    Writes("openapi31", FromParamShape) /\ Writes("swagger2", FromParamShapeSwagger2)
  BY FromParamShapeIs, FromParamShapeSwagger2Is, SchemasAssumption DEF Writes

\* What a schema asks of a value, part by part.
EnumAsks(schema, raw) == schema.enum # {} => raw.json = "string" /\ raw.text \in schema.enum
ItemsAsk(schema, raw) ==
    raw.json = "array" => \A i \in DOMAIN raw.items, item \in schema.items :
                             Validates[<<item, raw.items[i]>>]
ObjectAsks(schema, raw) ==
    raw.json = "object" => ValidatesObject(Validates, schema, raw.fields)
OneOfAsks(schema, raw) ==
    schema.oneOf # {} => Cardinality({s \in schema.oneOf : Validates[<<s, raw>>]}) = 1
AnyOfAsks(schema, raw) == schema.anyOf # {} => \E s \in schema.anyOf : Validates[<<s, raw>>]
AllOfAsks(schema, raw) == \A s \in schema.allOf : Validates[<<s, raw>>]
NotAsks(schema, raw) == \A s \in schema.not : ~ Validates[<<s, raw>>]
SizeAsks(schema, raw) == WithinBounds(SizesOf(raw), schema.min, schema.max) = {}

LEMMA ValidParts ==
    ASSUME NEW schema \in Schemas, NEW raw \in Values
    PROVE  Validates[<<schema, raw>>] <=>
              /\ HasType(schema.type, raw)
              /\ EnumAsks(schema, raw) /\ SizeAsks(schema, raw)
              /\ ObjectAsks(schema, raw) /\ ItemsAsk(schema, raw)
              /\ OneOfAsks(schema, raw) /\ AnyOfAsks(schema, raw)
              /\ AllOfAsks(schema, raw) /\ NotAsks(schema, raw)
  <1>1. Validates[<<schema, raw>>] <=> ValidatesSchema(Validates, schema, raw)
    BY ValidatesIs
  <1> QED
    BY <1>1, Zenon DEF ValidatesSchema, EnumAsks, ItemsAsk, ObjectAsks, OneOfAsks, AnyOfAsks,
                       AllOfAsks, NotAsks, SizeAsks

LEMMA ValidUnbounded ==
    ASSUME NEW schema \in Schemas, Unbounded(schema), schema.anyOf = {}, schema.not = {},
           NEW raw \in Values
    PROVE  Validates[<<schema, raw>>] <=>
              /\ HasType(schema.type, raw)
              /\ EnumAsks(schema, raw) /\ ObjectAsks(schema, raw) /\ ItemsAsk(schema, raw)
              /\ OneOfAsks(schema, raw) /\ AllOfAsks(schema, raw)
  <1>1. SizeAsks(schema, raw)
    BY NoBounds DEF Unbounded, SizeAsks
  <1>2. AnyOfAsks(schema, raw) /\ NotAsks(schema, raw)
    BY DEF AnyOfAsks, NotAsks
  <1> QED
    BY <1>1, <1>2, ValidParts

\* A value that the parser and a document measure alike, but for what is in it.
Alike(raw) ==
    /\ raw.json = "string" => Bytes[raw.text] = Characters[raw.text]
    /\ raw.json = "number" => raw.read = raw.around /\ (Integral(raw) => RawInt64(raw))

LEMMA PortableAlike ==
    ASSUME NEW raw \in Values, Portable[raw]
    PROVE  Alike(raw)
  BY PortableIs DEF PortableBy, Alike

\* Of which JSON type a value of each kind of shape is.
LEMMA TypeWritten ==
    ASSUME NEW shape \in Shapes, NEW raw
    PROVE  LET type == ParamTypeSchema(WireType(shape)).type
           IN /\ shape.kind \in {"object", "map", "variants"} =>
                    (HasType(type, raw) <=> raw.json = "object")
              /\ shape.kind = "array" => (HasType(type, raw) <=> raw.json = "array")
              /\ shape.kind = "enum" => (HasType(type, raw) <=> raw.json = "string")
  BY DEF ParamTypeSchema, NoSchema, WireType, HasType

\* The parser takes a number for an integer, or a float64, when a document does.
LEMMA ScalarWritten ==
    ASSUME NEW shape \in Shapes,
           shape.kind \notin {"object", "map", "variants", "array", "enum"},
           NEW raw \in Values, Alike(raw)
    PROVE  HasType(ParamTypeSchema(WireType(shape)).type, raw) <=> AcceptsScalar(shape, raw)
  <1>1. shape.kind \in {"string", "int64", "float64", "bool", "any"}
    BY ShapesAssumption DEF Kinds
  <1>2. raw.json = "number" => raw.read # {} /\ (RawInt64(raw) <=> Integral(raw))
    BY ValuesAssumption DEF Alike, RawInt64
  <1>3. RawInt64(raw) => raw.json = "number"
    BY DEF RawInt64
  <1> QED
    BY <1>1, <1>2, <1>3 DEF ParamTypeSchema, NoSchema, WireType, HasType, AcceptsScalar

LEMMA ScalarValid ==
    ASSUME NEW document, NEW from, Writes(document, from), NEW shape \in Shapes,
           shape.kind \notin {"object", "map", "variants", "array", "enum"}, NEW raw \in Values,
           Alike(raw)
    PROVE  Validates[<<from[shape], raw>>] <=> AcceptsScalar(shape, raw)
  <1> DEFINE schema == from[shape]
  <1>1. schema = Written(document, from, shape) /\ schema \in Schemas
    BY DEF Writes
  <1> HIDE DEF schema
  <1>2. /\ Unbounded(schema) /\ schema.anyOf = {} /\ schema.not = {} /\ schema.enum = {}
        /\ schema.type = ParamTypeSchema(WireType(shape)).type
        /\ schema.items = {} /\ schema.additional = {} /\ schema.oneOf = {} /\ schema.allOf = {}
        /\ schema.properties = <<>> /\ schema.required = {}
    <2>1. FieldsWritten(schema, document, from, shape)
      BY <1>1, WrittenFields
    <2> QED
      BY <2>1 DEF FieldsWritten
  <1>3. ValidatesObject(Validates, schema, raw.fields)
    BY <1>2, OnlyRequired
  <1>4. HasType(schema.type, raw) <=> AcceptsScalar(shape, raw)
    BY <1>2, ScalarWritten
  <1>5. /\ EnumAsks(schema, raw) /\ ObjectAsks(schema, raw) /\ ItemsAsk(schema, raw)
        /\ OneOfAsks(schema, raw) /\ AllOfAsks(schema, raw)
    BY <1>2, <1>3 DEF EnumAsks, ObjectAsks, ItemsAsk, OneOfAsks, AllOfAsks
  <1>6. Validates[<<schema, raw>>] <=> AcceptsScalar(shape, raw)
    BY <1>1, <1>2, <1>4, <1>5, ValidUnbounded
  <1> QED
    BY <1>6 DEF schema

LEMMA EnumValid ==
    ASSUME NEW document, NEW from, Writes(document, from), NEW shape \in Shapes,
           shape.kind = "enum", shape.values # {}, NEW raw \in Values
    PROVE  Validates[<<from[shape], raw>>] <=> raw.json = "string" /\ raw.text \in shape.values
  <1> DEFINE schema == from[shape]
  <1>1. schema = Written(document, from, shape) /\ schema \in Schemas
    BY DEF Writes
  <1> HIDE DEF schema
  <1>2. /\ Unbounded(schema) /\ schema.anyOf = {} /\ schema.not = {} /\ schema.enum = shape.values
        /\ schema.type = ParamTypeSchema(WireType(shape)).type
        /\ schema.oneOf = {} /\ schema.allOf = {}
    <2>1. FieldsWritten(schema, document, from, shape)
      BY <1>1, WrittenFields
    <2> QED
      BY <2>1 DEF FieldsWritten
  <1>3. HasType(schema.type, raw) <=> raw.json = "string"
    BY <1>2, TypeWritten
  <1>4. EnumAsks(schema, raw) <=> raw.json = "string" /\ raw.text \in shape.values
    BY <1>2 DEF EnumAsks
  <1>5. raw.json = "string" => ObjectAsks(schema, raw) /\ ItemsAsk(schema, raw)
    BY DEF ObjectAsks, ItemsAsk
  <1>6. OneOfAsks(schema, raw) /\ AllOfAsks(schema, raw)
    BY <1>2 DEF OneOfAsks, AllOfAsks
  <1>7. Validates[<<schema, raw>>] <=> raw.json = "string" /\ raw.text \in shape.values
    BY <1>1, <1>2, <1>3, <1>4, <1>5, <1>6, ValidUnbounded
  <1> QED
    BY <1>7 DEF schema

LEMMA ArrayValid ==
    ASSUME NEW document, NEW from, Writes(document, from), NEW shape \in Shapes,
           shape.kind = "array", NEW raw \in Values
    PROVE  Validates[<<from[shape], raw>>] <=>
              /\ raw.json = "array"
              /\ \A i \in DOMAIN raw.items : Validates[<<from[shape.item], raw.items[i]>>]
  <1> DEFINE schema == from[shape]
             item == from[shape.item]
  <1>1. schema = Written(document, from, shape) /\ schema \in Schemas
    BY DEF Writes
  <1> HIDE DEF schema, item
  <1>2. /\ Unbounded(schema) /\ schema.anyOf = {} /\ schema.not = {} /\ schema.enum = {}
        /\ schema.type = ParamTypeSchema(WireType(shape)).type
        /\ schema.items = {item} /\ schema.oneOf = {} /\ schema.allOf = {}
    <2>1. FieldsWritten(schema, document, from, shape)
      BY <1>1, WrittenFields
    <2> QED
      BY <2>1 DEF FieldsWritten, item
  <1>3. HasType(schema.type, raw) <=> raw.json = "array"
    BY <1>2, TypeWritten
  <1>4. raw.json = "array" =>
           (ItemsAsk(schema, raw)
               <=> \A i \in DOMAIN raw.items : Validates[<<item, raw.items[i]>>])
    BY <1>2 DEF ItemsAsk
  <1>5. raw.json = "array" => ObjectAsks(schema, raw)
    BY DEF ObjectAsks
  <1>6. EnumAsks(schema, raw) /\ OneOfAsks(schema, raw) /\ AllOfAsks(schema, raw)
    BY <1>2 DEF EnumAsks, OneOfAsks, AllOfAsks
  <1>7. Validates[<<schema, raw>>] <=>
           raw.json = "array" /\ \A i \in DOMAIN raw.items : Validates[<<item, raw.items[i]>>]
    BY <1>1, <1>2, <1>3, <1>4, <1>5, <1>6, ValidUnbounded
  <1> QED
    BY <1>7 DEF schema, item

LEMMA MapValid ==
    ASSUME NEW document, NEW from, Writes(document, from), NEW shape \in Shapes,
           shape.kind = "map", NEW raw \in Values
    PROVE  Validates[<<from[shape], raw>>] <=>
              /\ raw.json = "object"
              /\ \A name \in DOMAIN raw.fields :
                    Validates[<<from[shape.item], raw.fields[name]>>]
  <1> DEFINE schema == from[shape]
             item == from[shape.item]
  <1>1. schema = Written(document, from, shape) /\ schema \in Schemas
    BY DEF Writes
  <1> HIDE DEF schema, item
  <1>2. /\ Unbounded(schema) /\ schema.anyOf = {} /\ schema.not = {} /\ schema.enum = {}
        /\ schema.type = ParamTypeSchema(WireType(shape)).type
        /\ schema.additional = {item} /\ schema.oneOf = {} /\ schema.allOf = {}
        /\ schema.properties = <<>> /\ schema.required = {}
    <2>1. FieldsWritten(schema, document, from, shape)
      BY <1>1, WrittenFields
    <2> QED
      BY <2>1 DEF FieldsWritten, item
  <1>3. HasType(schema.type, raw) <=> raw.json = "object"
    BY <1>2, TypeWritten
  <1>4. ValidatesObject(Validates, schema, raw.fields) <=>
           \A name \in DOMAIN raw.fields : Validates[<<item, raw.fields[name]>>]
    <2>1. DOMAIN <<>> = {}
      OBVIOUS
    <2>2. (\A name : name \notin DOMAIN schema.properties) /\ schema.required = {}
      BY <1>2, <2>1
    <2> QED
      BY <1>2, <2>2 DEF ValidatesObject
  <1>5. raw.json = "object" => ItemsAsk(schema, raw)
    BY DEF ItemsAsk
  <1>6. EnumAsks(schema, raw) /\ OneOfAsks(schema, raw) /\ AllOfAsks(schema, raw)
    BY <1>2 DEF EnumAsks, OneOfAsks, AllOfAsks
  <1>7. Validates[<<schema, raw>>] <=>
           /\ raw.json = "object"
           /\ \A name \in DOMAIN raw.fields : Validates[<<item, raw.fields[name]>>]
    BY <1>1, <1>2, <1>3, <1>4, <1>5, <1>6, ValidUnbounded DEF ObjectAsks
  <1> QED
    BY <1>7 DEF schema, item

\* The property of a parameter is the schema of its shape, with bounds.
Property(from, parameter) == ApplyParamBounds(from[parameter.shape], parameter)

LEMMA PropertyValid ==
    ASSUME NEW document, NEW from, Writes(document, from), NEW parameter,
           parameter.shape \in Shapes, Property(from, parameter) \in Schemas, NEW raw \in Values
    PROVE  Validates[<<Property(from, parameter), raw>>] <=>
              /\ Validates[<<from[parameter.shape], raw>>]
              /\ WithinBounds(SizesOf(raw), Property(from, parameter).min,
                              Property(from, parameter).max) = {}
  <1> DEFINE plain == from[parameter.shape]
             bounded == Property(from, parameter)
  <1>1. plain = Written(document, from, parameter.shape) /\ plain \in Schemas
    BY DEF Writes
  <1> HIDE DEF plain
  <1>2. DOMAIN plain = SchemaFields /\ Unbounded(plain)
    <2>1. FieldsWritten(plain, document, from, parameter.shape)
      BY <1>1, WrittenFields
    <2> QED
      BY <2>1 DEF FieldsWritten
  <1>3. /\ bounded.type = plain.type /\ bounded.enum = plain.enum
        /\ bounded.properties = plain.properties /\ bounded.required = plain.required
        /\ bounded.items = plain.items /\ bounded.additional = plain.additional
        /\ bounded.oneOf = plain.oneOf /\ bounded.anyOf = plain.anyOf
        /\ bounded.allOf = plain.allOf /\ bounded.not = plain.not
    BY <1>2 DEF Property, ApplyParamBounds, plain, SchemaFields
  <1> HIDE DEF bounded
  <1>4. ValidatesObject(Validates, bounded, raw.fields)
           <=> ValidatesObject(Validates, plain, raw.fields)
    BY <1>3, Zenon DEF ValidatesObject
  <1>5. ItemsAsk(bounded, raw) <=> ItemsAsk(plain, raw)
    BY <1>3, Zenon DEF ItemsAsk
  <1>6. /\ HasType(bounded.type, raw) <=> HasType(plain.type, raw)
        /\ EnumAsks(bounded, raw) <=> EnumAsks(plain, raw)
        /\ ObjectAsks(bounded, raw) <=> ObjectAsks(plain, raw)
        /\ OneOfAsks(bounded, raw) <=> OneOfAsks(plain, raw)
        /\ AnyOfAsks(bounded, raw) <=> AnyOfAsks(plain, raw)
        /\ AllOfAsks(bounded, raw) <=> AllOfAsks(plain, raw)
        /\ NotAsks(bounded, raw) <=> NotAsks(plain, raw)
    BY <1>3, <1>4, Zenon DEF EnumAsks, ObjectAsks, OneOfAsks, AnyOfAsks, AllOfAsks, NotAsks
  <1>7. SizeAsks(plain, raw)
    BY <1>2, NoBounds DEF Unbounded, SizeAsks
  <1>8. bounded \in Schemas
    BY DEF bounded
  <1>9. /\ Validates[<<plain, raw>>] <=> Validates[<<plain, raw>>] /\ SizeAsks(plain, raw)
        /\ Validates[<<bounded, raw>>] <=> Validates[<<plain, raw>>] /\ SizeAsks(bounded, raw)
    BY <1>1, <1>5, <1>6, <1>7, <1>8, ValidParts
  <1> QED
    BY <1>9 DEF plain, bounded, SizeAsks

\* What the schema of an object asks: its required names, the schema of each
\* parameter that is there and, in the 3.1 document, its rules.
FieldsFit(from, shape, fields) ==
    /\ ParamRequired(shape.params) \subseteq DOMAIN fields
    /\ \A i \in DOMAIN shape.params : shape.params[i].name \in DOMAIN fields =>
          Validates[<<Property(from, shape.params[i]), fields[shape.params[i].name]>>]

RulesFit(shape, fields) ==
    \A i \in DOMAIN shape.rules :
        Holds(shape.rules[i], shape.rules[i].names \cap DOMAIN fields)

LEMMA PropertyOf ==
    ASSUME NEW from, NEW shape, NormalizesObject(shape), NEW i \in DOMAIN shape.params
    PROVE  LET properties == ParamProperties(from, shape.params)
               name == shape.params[i].name
           IN /\ name \in DOMAIN properties
              /\ properties[name] = Property(from, shape.params[i])
  <1>1. shape.params[i].name \in Names(shape.params)
    BY DEF Names
  <1>2. (CHOOSE j \in DOMAIN shape.params : shape.params[j].name = shape.params[i].name) = i
    BY DEF NormalizesObject
  <1> QED
    BY <1>1, <1>2 DEF ParamProperties, Property

LEMMA RulesAsked ==
    ASSUME NEW shape \in Shapes, shape.kind = "object",
           \A i \in DOMAIN shape.rules : NormalizesRule(shape.rules[i]),
           NEW schema \in Schemas, schema.allOf = ParamRules(shape.rules),
           NEW raw \in Values, raw.json = "object"
    PROVE  AllOfAsks(schema, raw) <=> RulesFit(shape, raw.fields)
  <1>1. \A i \in DOMAIN shape.rules : ParamRuleSchemas(shape.rules[i]) \subseteq Schemas
    BY SchemaInside DEF SchemasIn, ParamRules
  <1>2. \A i \in DOMAIN shape.rules :
           /\ IsFiniteSet(shape.rules[i].names)
           /\ shape.rules[i].min \in Nat /\ shape.rules[i].max \in Nat
    BY ShapesAssumption, Zenon
  <1>3. ASSUME NEW i \in DOMAIN shape.rules
        PROVE  (\A s \in ParamRuleSchemas(shape.rules[i]) : Validates[<<s, raw>>])
                  <=> Holds(shape.rules[i], shape.rules[i].names \cap DOMAIN raw.fields)
    BY <1>1, <1>2, RuleDescribed
  <1>4. AllOfAsks(schema, raw) <=>
           \A i \in DOMAIN shape.rules :
              \A s \in ParamRuleSchemas(shape.rules[i]) : Validates[<<s, raw>>]
    BY DEF AllOfAsks, ParamRules
  <1> QED
    BY <1>3, <1>4 DEF RulesFit

LEMMA ObjectValid ==
    ASSUME NEW document, NEW from, Writes(document, from), NEW shape \in Shapes,
           shape.kind = "object", NormalizesObject(shape),
           \A i \in DOMAIN shape.rules : NormalizesRule(shape.rules[i]),
           NEW raw \in Values
    PROVE  Validates[<<from[shape], raw>>] <=>
              /\ raw.json = "object"
              /\ FieldsFit(from, shape, raw.fields)
              /\ document = "openapi31" => RulesFit(shape, raw.fields)
  <1> DEFINE schema == from[shape]
             properties == ParamProperties(from, shape.params)
             Name(i) == shape.params[i].name
  <1>1. schema = Written(document, from, shape) /\ schema \in Schemas
    BY DEF Writes
  <1> HIDE DEF schema, properties
  <1>2. FieldsWritten(schema, document, from, shape)
    BY <1>1, WrittenFields
  <1>3. /\ Unbounded(schema) /\ schema.anyOf = {} /\ schema.not = {} /\ schema.enum = {}
        /\ schema.type = ParamTypeSchema(WireType(shape)).type
        /\ schema.additional = {} /\ schema.oneOf = {}
        /\ schema.properties = properties
        /\ schema.required = ParamRequired(shape.params)
    BY <1>2 DEF FieldsWritten, properties
  <1>4. schema.allOf = IF document = "openapi31" THEN ParamRules(shape.rules) ELSE {}
    BY <1>2 DEF FieldsWritten
  <1>5. HasType(schema.type, raw) <=> raw.json = "object"
    BY <1>3, TypeWritten
  <1>6. \A i \in DOMAIN shape.params :
           Name(i) \in DOMAIN properties /\ properties[Name(i)] = Property(from, shape.params[i])
    BY PropertyOf DEF properties
  <1>7. \A name \in DOMAIN properties : \E i \in DOMAIN shape.params : name = Name(i)
    BY DEF properties, ParamProperties, Names
  <1>8. ValidatesObject(Validates, schema, raw.fields) <=> FieldsFit(from, shape, raw.fields)
    <2>1. ValidatesObject(Validates, schema, raw.fields) <=>
             /\ ParamRequired(shape.params) \subseteq DOMAIN raw.fields
             /\ \A name \in DOMAIN raw.fields : name \in DOMAIN properties =>
                   Validates[<<properties[name], raw.fields[name]>>]
      BY <1>3, Zenon DEF ValidatesObject
    <2> HIDE DEF properties
    <2> QED
      BY <1>6, <1>7, <2>1 DEF FieldsFit
  <1>9. raw.json = "object" =>
           (AllOfAsks(schema, raw) <=> (document = "openapi31" => RulesFit(shape, raw.fields)))
    <2> SUFFICES ASSUME raw.json = "object"
                 PROVE  AllOfAsks(schema, raw)
                           <=> (document = "openapi31" => RulesFit(shape, raw.fields))
      OBVIOUS
    <2>1. CASE document # "openapi31"
      BY <1>4, <2>1 DEF AllOfAsks
    <2>2. CASE document = "openapi31"
      BY <1>1, <1>4, <2>2, RulesAsked
    <2> QED
      BY <2>1, <2>2
  <1>10. raw.json = "object" => ItemsAsk(schema, raw)
    BY DEF ItemsAsk
  <1>11. EnumAsks(schema, raw) /\ OneOfAsks(schema, raw)
    BY <1>3 DEF EnumAsks, OneOfAsks
  <1>12. Validates[<<schema, raw>>] <=>
              /\ raw.json = "object"
              /\ FieldsFit(from, shape, raw.fields)
              /\ document = "openapi31" => RulesFit(shape, raw.fields)
    BY <1>1, <1>3, <1>5, <1>8, <1>9, <1>10, <1>11, ValidUnbounded DEF ObjectAsks
  <1> QED
    BY <1>12 DEF schema

\* The properties of an object are schemas of its document.
LEMMA PropertyInside ==
    ASSUME NEW document, NEW from, Writes(document, from), NEW shape \in Shapes,
           shape.kind = "object", NormalizesObject(shape), NEW i \in DOMAIN shape.params
    PROVE  Property(from, shape.params[i]) \in Schemas
  <1> DEFINE schema == from[shape]
  <1>1. schema = Written(document, from, shape) /\ schema \in Schemas
    BY DEF Writes
  <1> HIDE DEF schema
  <1>2. FieldsWritten(schema, document, from, shape)
    BY <1>1, WrittenFields
  <1>3. schema.properties = ParamProperties(from, shape.params)
    BY <1>2 DEF FieldsWritten
  <1>4. /\ shape.params[i].name \in DOMAIN schema.properties
        /\ schema.properties[shape.params[i].name] = Property(from, shape.params[i])
    BY <1>3, PropertyOf
  <1> QED
    BY <1>1, <1>4, SchemaInside DEF SchemasIn

-----------------------------------------------------------------------------
(***************************************************************************)
(* Which parses pass the checks of the package, whatever the program's own *)
(* parser then does, and which ones a document could have told about.      *)
(***************************************************************************)
Own == [paths |-> {<<>>}, code |-> "parse_failed"]
Passes(errors) == errors = {} \/ Own \in errors
Tells(error) == error.code \notin {"unexpected", "parse_failed"}
Refuses(errors) == \E error \in errors : Tells(error)

LEMMA UnderRefuses ==
    ASSUME NEW step, NEW errors
    PROVE  Refuses(Under(step, errors)) <=> Refuses(errors)
  <1>1. \A error \in errors :
           [paths |-> {<<step>> \o path : path \in error.paths}, code |-> error.code]
              \in Under(step, errors)
    BY DEF Under
  <1>2. \A e \in Under(step, errors) : \E error \in errors : e.code = error.code
    BY DEF Under
  <1> QED
    BY <1>1, <1>2 DEF Refuses, Tells

LEMMA UnderPasses ==
    ASSUME NEW step \in Steps, NEW errors, errors \subseteq Errors
    PROVE  Passes(Under(step, errors)) <=> errors = {}
  <1>1. Own \notin Under(step, errors)
    <2> SUFFICES ASSUME NEW error \in errors
                 PROVE  Own.paths # {<<step>> \o path : path \in error.paths}
      BY DEF Under, Own
    <2>1. \A path \in error.paths : path \in Seq(Steps)
      BY DEF Errors
    <2>2. \A path \in error.paths : <<step>> \o path # <<>>
      BY <2>1, Led
    <2> QED
      BY <2>2 DEF Own
  <1> QED
    BY <1>1, UnderNone DEF Passes

LEMMA FailTells ==
    ASSUME NEW code, code \notin {"unexpected", "parse_failed"}
    PROVE  Refuses(Fail(code)) /\ ~ Passes(Fail(code))
  BY DEF Refuses, Tells, Passes, Fail, Own

LEMMA MismatchTells == Refuses(Mismatch) /\ ~ Passes(Mismatch)
  BY FailTells DEF Mismatch

LEMMA NothingPasses == Passes({}) /\ ~ Refuses({})
  BY DEF Passes, Refuses

-----------------------------------------------------------------------------
(***************************************************************************)
(* The bounds of a parameter.                                              *)
(***************************************************************************)
\* Bounds a document can tell: one for each end, and none for any value.
Bounded(parameter) ==
    /\ BoundsParameter(parameter)
    /\ NoBound \in {parameter.min, parameter.minItems}
    /\ NoBound \in {parameter.max, parameter.maxItems}
    /\ WireType(parameter.shape) = "any" => parameter.min = NoBound /\ parameter.max = NoBound

LEMMA BoundsTell ==
    ASSUME NEW sizes, NEW min, NEW max
    PROVE  WithinBounds(sizes, min, max) # {} => Refuses(WithinBounds(sizes, min, max))
                                                /\ ~ Passes(WithinBounds(sizes, min, max))
  BY FailTells DEF WithinBounds

LEMMA SizesTell ==
    ASSUME NEW parameter, NEW raw
    PROVE  EnforceSize(parameter, raw) # {} => Refuses(EnforceSize(parameter, raw))
                                              /\ ~ Passes(EnforceSize(parameter, raw))
  BY BoundsTell DEF EnforceSize, Then

LEMMA OneBound ==
    ASSUME NEW sizes, NEW min, NEW max, NEW minItems, NEW maxItems,
           NoBound \in {min, minItems}, NoBound \in {max, maxItems}
    PROVE  WithinBounds(sizes, CloneFirst(minItems, min), CloneFirst(maxItems, max)) = {} <=>
              WithinBounds(sizes, min, max) = {} /\ WithinBounds(sizes, minItems, maxItems) = {}
  BY SizeErrors, Zenon DEF CloneFirst

LEMMA SizesDescribed ==
    ASSUME NEW from, NEW parameter, Bounded(parameter), parameter.shape \in Shapes,
           NEW document, Writes(document, from), NEW raw, Alike(raw),
           HasType(ParamTypeSchema(WireType(parameter.shape)).type, raw)
    PROVE  EnforceSize(parameter, raw) = {} <=>
              WithinBounds(SizesOf(raw), Property(from, parameter).min,
                           Property(from, parameter).max) = {}
  <1> DEFINE plain == from[parameter.shape]
             property == Property(from, parameter)
             type == WireType(parameter.shape)
  <1>1. plain = Written(document, from, parameter.shape)
    BY DEF Writes
  <1> HIDE DEF plain
  <1>2. FieldsWritten(plain, document, from, parameter.shape)
    BY <1>1, WrittenFields
  <1>3. DOMAIN plain = SchemaFields /\ plain.min = NoBound /\ plain.max = NoBound
    BY <1>2 DEF FieldsWritten, Unbounded
  <1>4. parameter.shape.kind \in Kinds
    BY ShapesAssumption
  <1>5. type \in {"string", "int64", "float64", "bool", "any", "array", "object"}
    BY <1>4 DEF WireType, Kinds
  <1>6. \A min, max : WithinBounds({}, min, max) = {}
    BY DEF WithinBounds
  <1>7. EnforceSize(parameter, raw) = {} <=>
           /\ WithinBounds(Measured(parameter.shape, raw), parameter.min, parameter.max) = {}
           /\ WithinBounds(Counted(raw), parameter.minItems, parameter.maxItems) = {}
    BY DEF EnforceSize, Then
  <1>8. CASE type \in {"string", "int64", "float64", "object"}
    <2>1. property.min = parameter.min /\ property.max = parameter.max
      BY <1>3, <1>8 DEF Property, ApplyParamBounds, plain, SchemaFields
    <2>2. Measured(parameter.shape, raw) = SizesOf(raw)
      BY <1>8 DEF Alike, Measured, SizesOf, HasType, ParamTypeSchema, NoSchema, WireType, RawInt64
    <2>3. parameter.minItems = NoBound /\ parameter.maxItems = NoBound
      BY <1>8 DEF Bounded, BoundsParameter
    <2> QED
      BY <1>7, <2>1, <2>2, <2>3, NoBounds
  <1>9. CASE type = "array"
    <2>1. /\ property.min = CloneFirst(parameter.minItems, parameter.min)
          /\ property.max = CloneFirst(parameter.maxItems, parameter.max)
      BY <1>3, <1>9 DEF Property, ApplyParamBounds, plain, SchemaFields
    <2>2. Measured(parameter.shape, raw) = {Len(raw.items)}
          /\ SizesOf(raw) = {Len(raw.items)} /\ Counted(raw) = {Len(raw.items)}
      BY <1>9 DEF Measured, Counted, SizesOf, HasType, ParamTypeSchema, NoSchema, WireType
    <2>3. /\ NoBound \in {parameter.min, parameter.minItems}
          /\ NoBound \in {parameter.max, parameter.maxItems}
      BY DEF Bounded
    <2> DEFINE sizes == {Len(raw.items)}
    <2>4. /\ Measured(parameter.shape, raw) = sizes /\ SizesOf(raw) = sizes
          /\ Counted(raw) = sizes
      BY <2>2
    <2> HIDE DEF sizes
    <2>5. WithinBounds(sizes, CloneFirst(parameter.minItems, parameter.min),
                       CloneFirst(parameter.maxItems, parameter.max)) = {} <=>
             /\ WithinBounds(sizes, parameter.min, parameter.max) = {}
             /\ WithinBounds(sizes, parameter.minItems, parameter.maxItems) = {}
      BY <2>3, OneBound
    <2> QED
      BY <1>7, <2>1, <2>4, <2>5
  <1>10. CASE type \in {"any", "bool"}
    <2>1. property.min = NoBound /\ property.max = NoBound
      BY <1>3, <1>10 DEF Property, ApplyParamBounds, plain
    <2>2. parameter.minItems = NoBound /\ parameter.maxItems = NoBound
      BY <1>10 DEF Bounded, BoundsParameter
    <2>3. WithinBounds(Measured(parameter.shape, raw), parameter.min, parameter.max) = {}
      <3>1. CASE type = "any"
        BY <3>1, NoBounds DEF Bounded
      <3>2. CASE type = "bool"
        <4>1. Measured(parameter.shape, raw) = {}
          BY <3>2 DEF Measured, WireType
        <4> QED
          BY <1>6, <4>1
      <3> QED
        BY <1>10, <3>1, <3>2
    <2> QED
      BY <1>7, <2>1, <2>2, <2>3, NoBounds
  <1> QED
    BY <1>5, <1>8, <1>9, <1>10

-----------------------------------------------------------------------------
(***************************************************************************)
(* A document accepts what passes the parse of a shape, and refuses what   *)
(* the parse refuses.                                                      *)
(***************************************************************************)
Sendable(shape, raw, caller) == Portable[raw] /\ SeesAll(shape, caller)

Accepting(from, shape) ==
    \A raw \in Values, caller \in Calling :
        Sendable(shape, raw, caller) /\ Passes(ParseShape[<<shape, raw, caller>>]) =>
            Validates[<<from[shape], raw>>]

Refusing(from, shape) ==
    \A raw \in Values, caller \in Calling :
        Sendable(shape, raw, caller) /\ Refuses(ParseShape[<<shape, raw, caller>>]) =>
            ~ Validates[<<from[shape], raw>>]

LEMMA ValidHasType ==
    ASSUME NEW document, NEW from, Writes(document, from), NEW shape \in Shapes,
           NEW raw \in Values, Validates[<<from[shape], raw>>]
    PROVE  HasType(ParamTypeSchema(WireType(shape)).type, raw)
  <1> DEFINE schema == from[shape]
  <1>1. schema = Written(document, from, shape) /\ schema \in Schemas
    BY DEF Writes
  <1>2. HasType(schema.type, raw)
    BY <1>1, ValidParts
  <1> HIDE DEF schema
  <1>3. FieldsWritten(schema, document, from, shape)
    BY <1>1, WrittenFields
  <1> QED
    BY <1>2, <1>3 DEF FieldsWritten

\* In a portable object nothing is null or blank, and all of it is portable.
LEMMA PortableField ==
    ASSUME NEW raw \in Values, Portable[raw], raw.json = "object", NEW name \in DOMAIN raw.fields
    PROVE  /\ raw.fields[name] \in Values /\ Portable[raw.fields[name]]
           /\ raw.fields[name].json # "null"
           /\ raw.fields[name].json = "string" => ~ Blank(raw.fields[name].text)
  <1>1. raw.fields[name] \in ValuesIn(raw) /\ raw.fields[name] \in Values
    BY FoundIn
  <1>2. Portable[raw.fields[name]]
    BY <1>1, PortableIs DEF PortableBy
  <1> QED
    BY <1>1, <1>2, PortableIs DEF PortableBy

LEMMA ParameterTold ==
    ASSUME NEW document, NEW from, Writes(document, from), NEW shape \in Shapes,
           shape.kind = "object", NormalizesObject(shape), NEW i \in DOMAIN shape.params,
           Bounded(shape.params[i]), NEW raw \in Values, raw.json = "object", Portable[raw],
           NEW caller \in Calling, SeesAll(shape.params[i].shape, caller)
    PROVE  LET parameter == shape.params[i]
               errors == ParseParameter(ParseShape, parameter, raw.fields, caller)
               there == parameter.name \in DOMAIN raw.fields
               valid == Validates[<<Property(from, parameter), raw.fields[parameter.name]>>]
           IN /\ Accepting(from, parameter.shape) /\ errors = {} =>
                    IF there THEN valid ELSE ~ parameter.required
              /\ Refusing(from, parameter.shape) /\ Refuses(errors) =>
                    IF there THEN ~ valid ELSE parameter.required
  <1> DEFINE parameter == shape.params[i]
             sent == raw.fields[parameter.name]
             parsed == ParseShape[<<parameter.shape, sent, caller>>]
             sizes == EnforceSize(parameter, sent)
             last == ApplyParser(parameter, sent)
             errors == ParseParameter(ParseShape, parameter, raw.fields, caller)
             valid == Validates[<<Property(from, parameter), sent>>]
             plain == Validates[<<from[parameter.shape], sent>>]
  <1>1. /\ parameter.shape \in Shapes /\ parameter.required \in BOOLEAN
        /\ parameter.parser = "nonempty" => WireType(parameter.shape) = "string"
    BY BuiltFrom, ShapeInside DEF IsParameter
  <1>2. CASE parameter.name \notin DOMAIN raw.fields
    <2>1. errors = Under(parameter.name, IF parameter.required THEN Missing ELSE {})
      BY <1>2 DEF ParseParameter, Present
    <2>2. Missing # {} /\ ~ Refuses({})
      BY NothingPasses DEF Missing, Fail
    <2> HIDE DEF errors, valid
    <2> QED
      BY <1>1, <1>2, <2>1, <2>2, UnderNone, UnderRefuses DEF errors, valid
  <1>3. CASE parameter.name \in DOMAIN raw.fields
    <2>1. /\ sent \in Values /\ Portable[sent] /\ sent.json # "null"
          /\ sent.json = "string" => ~ Blank(sent.text)
      BY <1>3, PortableField
    <2>2. errors = Under(parameter.name, Then(sizes, Then(parsed, last)))
      <3>1. Present(parameter, raw.fields)
        BY <1>3, <2>1 DEF Present, ParamPresent
      <3> QED
        BY <2>1, <3>1 DEF ParseParameter
    <2>3. parsed = {} => last = {}
      BY <1>1, <2>1, TextParsed DEF ApplyParser
    <2>4. Property(from, parameter) \in Schemas
      BY PropertyInside
    <2>5. valid <=> /\ plain
                    /\ WithinBounds(SizesOf(sent), Property(from, parameter).min,
                                    Property(from, parameter).max) = {}
      BY <1>1, <2>1, <2>4, PropertyValid
    <2>6. plain => (sizes = {} <=>
                       WithinBounds(SizesOf(sent), Property(from, parameter).min,
                                    Property(from, parameter).max) = {})
      <3> SUFFICES ASSUME plain
                   PROVE  sizes = {} <=>
                             WithinBounds(SizesOf(sent), Property(from, parameter).min,
                                          Property(from, parameter).max) = {}
        OBVIOUS
      <3>1. HasType(ParamTypeSchema(WireType(parameter.shape)).type, sent)
        BY <1>1, <2>1, ValidHasType
      <3> HIDE DEF sent
      <3> QED
        BY <1>1, <2>1, <3>1, PortableAlike, SizesDescribed
    <2>7. Accepting(from, parameter.shape) /\ parsed = {} => plain
      BY <2>1, NothingPasses DEF Accepting, Sendable
    <2>8. Refusing(from, parameter.shape) /\ Refuses(parsed) => ~ plain
      BY <2>1 DEF Refusing, Sendable
    <2>9. ~ Refuses({})
      BY NothingPasses
    <2> HIDE DEF sent, parsed, sizes, last, errors, valid, plain
    <2>10. Accepting(from, parameter.shape) /\ errors = {} => valid
      BY <2>2, <2>5, <2>6, <2>7, UnderNone DEF Then
    <2>11. Refusing(from, parameter.shape) /\ Refuses(errors) => ~ valid
      BY <2>2, <2>3, <2>5, <2>6, <2>8, <2>9, UnderRefuses DEF Then
    <2> QED
      BY <1>3, <2>10, <2>11 DEF errors, valid, sent
  <1> QED
    BY <1>2, <1>3

\* What is wrong with a parameter is in the field of its name.
LEMMA ParameterUnder ==
    ASSUME NEW shape \in Shapes, shape.kind = "object", NEW i \in DOMAIN shape.params,
           NEW raw \in Values, raw.json = "object", NEW caller \in Calling
    PROVE  Own \notin ParseParameter(ParseShape, shape.params[i], raw.fields, caller)
  <1> DEFINE parameter == shape.params[i]
             sent == raw.fields[parameter.name]
             parsed == ParseShape[<<parameter.shape, sent, caller>>]
             inner == IF ~ Present(parameter, raw.fields)
                      THEN IF parameter.required THEN Missing ELSE {}
                      ELSE IF sent.json = "null" /\ parameter.null = "rejected"
                      THEN Fail("null_rejected")
                      ELSE IF sent.json = "null" THEN ApplyParser(parameter, sent)
                      ELSE IF /\ parameter.required /\ WireType(parameter.shape) = "string"
                              /\ sent.json = "string" /\ Blank(sent.text)
                      THEN Missing
                      ELSE Then(EnforceSize(parameter, sent),
                           Then(parsed, ApplyParser(parameter, sent)))
  <1>1. ParseParameter(ParseShape, parameter, raw.fields, caller) = Under(parameter.name, inner)
    BY DEF ParseParameter
  <1>2. /\ Missing \subseteq Errors /\ Fail("null_rejected") \subseteq Errors
        /\ Fail("invalid") \subseteq Errors
    BY Fails DEF Missing, Codes
  <1>3. /\ EnforceSize(parameter, sent) \subseteq Errors
        /\ ApplyParser(parameter, sent) \subseteq Errors
    BY <1>2, SizeErrors DEF EnforceSize, ApplyParser, Then
  <1>4. Present(parameter, raw.fields) => parsed \subseteq Errors
    BY BuiltFrom, ShapeInside, FoundIn, ParseShapeErrors DEF Present
  <1> HIDE DEF parsed, sent
  <1>5. inner \subseteq Errors
    BY <1>2, <1>3, <1>4, ThenErrors
  <1>6. parameter.name \in Steps
    BY BuiltFrom DEF IsParameter, Steps
  <1> HIDE DEF inner
  <1>7. Passes(Under(parameter.name, inner)) => Under(parameter.name, inner) = {}
    BY <1>5, <1>6, UnderPasses, UnderNone
  <1> QED
    BY <1>1, <1>7 DEF Passes

\* A parse of an object that passes has found every check in order, and one
\* that refuses has found a parameter, or the rules, wrong.
LEMMA ObjectChecks ==
    ASSUME NEW shape \in Shapes, shape.kind = "object", NormalizesObject(shape),
           \A i \in DOMAIN shape.rules : NormalizesRule(shape.rules[i]),
           NEW raw \in Values, raw.json = "object", NEW caller \in Calling,
           Sendable(shape, raw, caller)
    PROVE  LET errors == ParseObject(ParseShape, shape, Declared(shape), raw.fields, caller)
               Checks(i) == ParseParameter(ParseShape, shape.params[i], raw.fields, caller)
           IN /\ Passes(errors) => /\ DOMAIN raw.fields \subseteq Names(shape.params)
                                   /\ \A i \in DOMAIN shape.params : Checks(i) = {}
                                   /\ RulesFit(shape, raw.fields)
              /\ Refuses(errors) => \/ \E i \in DOMAIN shape.params : Refuses(Checks(i))
                                    \/ ~ RulesFit(shape, raw.fields)
  <1> DEFINE fields == raw.fields
             params == shape.params
             seen == Seen(params, caller)
             sent == Sent(params, fields, caller)
             visible == Visible(params, caller)
             Checks(i) == ParseParameter(ParseShape, params[i], fields, caller)
             parsed == [i \in visible |-> Checks(i)]
             Applies(i) == ApplyRule(shape.rules[i], seen, sent)
             applied == [i \in DOMAIN shape.rules |-> Applies(i)]
             unexpected == Unexpected(params, Declared(shape), fields, caller)
             strange == UNION {Under(name, Fail("unexpected")) : name \in unexpected}
             last == ApplyObjectParser(shape, sent)
             errors == ParseObject(ParseShape, shape, Declared(shape), fields, caller)
  <1>1. DOMAIN params \subseteq Nat /\ DOMAIN shape.rules \subseteq Nat
    BY BuiltFrom
  <1>2. \A i \in DOMAIN params : Available(params[i], caller)
    BY PartsOfShape DEF Sendable, SeesAll
  <1>3. visible = DOMAIN params /\ seen = Names(params)
    BY <1>2 DEF Visible, Seen, Names
  <1>4. sent = Names(params) \cap DOMAIN fields
    <2>1. \A i \in DOMAIN params : params[i].name \in DOMAIN fields => Present(params[i], fields)
      BY PortableField DEF Present, ParamPresent, Sendable
    <2> QED
      BY <1>3, <2>1 DEF Sent, Present, Names
  <1>5. errors = Then(strange, Then(First(parsed), Then(First(applied), last)))
    BY DEF ParseObject, ParseExpected
  <1>6. /\ strange = {} => DOMAIN fields \subseteq Names(params)
        /\ strange # {} => ~ Passes(strange) /\ ~ Refuses(strange)
    <2>1. Declared(shape) = Names(params)
      BY DEF Declared
    <2>2. DOMAIN fields \subseteq STRING
      BY FoundIn
    <2>3. \A name \in unexpected : name \in Steps
      BY <2>2 DEF Unexpected, Steps
    <2>4. /\ Fail("unexpected") # {} /\ Fail("unexpected") \subseteq Errors
          /\ ~ Refuses(Fail("unexpected"))
      BY Fails DEF Codes, Fail, Refuses, Tells
    <2>5. \A name \in unexpected : /\ Under(name, Fail("unexpected")) # {}
                                   /\ Own \notin Under(name, Fail("unexpected"))
                                   /\ ~ Refuses(Under(name, Fail("unexpected")))
      BY <2>3, <2>4, UnderNone, UnderPasses, UnderRefuses DEF Passes
    <2>6. unexpected = {} => DOMAIN fields \subseteq Names(params)
      BY <2>1 DEF Unexpected
    <2> HIDE DEF unexpected
    <2>7. strange = {} => unexpected = {}
      BY <2>5
    <2>8. Own \notin strange /\ ~ Refuses(strange)
      BY <2>5 DEF Refuses
    <2> QED
      BY <2>6, <2>7, <2>8 DEF Passes
  <1>7. /\ First(parsed) = {} => \A i \in DOMAIN params : Checks(i) = {}
        /\ First(parsed) # {} => ~ Passes(First(parsed))
        /\ Refuses(First(parsed)) => \E i \in DOMAIN params : Refuses(Checks(i))
    <2>1. ASSUME NEW i \in DOMAIN params
          PROVE  Own \notin Checks(i)
      BY ParameterUnder
    <2> HIDE DEF Checks
    <2>2. DOMAIN parsed = DOMAIN params /\ \A i \in DOMAIN params : parsed[i] = Checks(i)
      BY <1>3
    <2> HIDE DEF parsed, visible
    <2>3. /\ First(parsed) = {} <=> \A i \in DOMAIN params : parsed[i] = {}
          /\ First(parsed) # {} => \E i \in DOMAIN params : First(parsed) = parsed[i]
      BY <1>1, <2>2, FirstFails
    <2>4. CASE First(parsed) = {}
      BY <2>2, <2>3, <2>4, NothingPasses
    <2>5. CASE First(parsed) # {}
      <3>1. PICK i \in DOMAIN params : First(parsed) = Checks(i)
        BY <2>2, <2>3, <2>5
      <3> QED
        BY <2>1, <2>5, <3>1 DEF Passes
    <2> QED
      BY <2>4, <2>5
  <1>8. /\ First(applied) = {} <=> RulesFit(shape, fields)
        /\ First(applied) # {} => ~ Passes(First(applied))
    <2>1. ASSUME NEW i \in DOMAIN shape.rules
          PROVE  Applies(i) = {} <=> Holds(shape.rules[i], shape.rules[i].names \cap DOMAIN fields)
      <3>1. /\ IsFiniteSet(shape.rules[i].names)
            /\ shape.rules[i].min \in Nat /\ shape.rules[i].max \in Nat
        BY ShapesAssumption
      <3>2. shape.rules[i].names \subseteq Names(params)
        BY DEF NormalizesObject
      <3>3. shape.rules[i].names \cap sent = shape.rules[i].names \cap DOMAIN fields
        BY <1>4, <3>2
      <3> HIDE DEF sent, seen
      <3> QED
        BY <1>3, <3>1, <3>2, <3>3, RuleHolds
    <2>2. \A i \in DOMAIN shape.rules : Own \notin Applies(i)
      BY DEF ApplyRule, FailChoice, Own
    <2> HIDE DEF Applies
    <2>3. DOMAIN applied = DOMAIN shape.rules /\ \A i \in DOMAIN shape.rules : applied[i] = Applies(i)
      OBVIOUS
    <2> HIDE DEF applied
    <2>4. /\ First(applied) = {} <=> \A i \in DOMAIN shape.rules : applied[i] = {}
          /\ First(applied) # {} => \E i \in DOMAIN shape.rules : First(applied) = applied[i]
      BY <1>1, <2>3, FirstFails
    <2>5. First(applied) = {} <=> RulesFit(shape, fields)
      BY <2>1, <2>3, <2>4 DEF RulesFit
    <2>6. First(applied) # {} => Own \notin First(applied)
      BY <2>2, <2>3, <2>4
    <2> QED
      BY <2>5, <2>6 DEF Passes
  <1>9. ~ Refuses(last)
    BY DEF ApplyObjectParser, Fail, Refuses, Tells
  <1> HIDE DEF errors, strange, parsed, applied, last, Checks
  <1>10. Passes(errors) => strange = {} /\ First(parsed) = {} /\ First(applied) = {}
    BY <1>5, <1>6, <1>7, <1>8 DEF Then
  <1>11. Refuses(errors) => Refuses(First(parsed)) \/ First(applied) # {}
    BY <1>5, <1>6, <1>9 DEF Then
  <1> QED
    BY <1>6, <1>7, <1>8, <1>10, <1>11 DEF errors, Checks

LEMMA SeesInside ==
    ASSUME NEW shape \in Shapes, NEW inner \in ShapesIn(shape), NEW caller,
           SeesAll(shape, caller)
    PROVE  SeesAll(inner, caller)
  BY PartsOfShape DEF SeesAll

LEMMA ScalarTold ==
    ASSUME NEW document, NEW from, Writes(document, from), NEW shape \in Shapes,
           shape.kind \notin {"object", "map", "variants", "array", "enum"}
    PROVE  Accepting(from, shape) /\ Refusing(from, shape)
  <1> SUFFICES ASSUME NEW raw \in Values, NEW caller \in Calling, Portable[raw]
               PROVE  LET errors == ParseShape[<<shape, raw, caller>>]
                          valid == Validates[<<from[shape], raw>>]
                      IN (Passes(errors) => valid) /\ (Refuses(errors) => ~ valid)
    BY DEF Accepting, Refusing, Sendable
  <1>1. ParseShape[<<shape, raw, caller>>] = IF AcceptsScalar(shape, raw) THEN {} ELSE Mismatch
    BY ParseShapeIs DEF ParseKind
  <1>2. Validates[<<from[shape], raw>>] <=> AcceptsScalar(shape, raw)
    BY ScalarValid, PortableAlike
  <1> QED
    BY <1>1, <1>2, MismatchTells, NothingPasses

LEMMA EnumTold ==
    ASSUME NEW document, NEW from, Writes(document, from), NEW shape \in Shapes,
           shape.kind = "enum", Builds(shape)
    PROVE  Accepting(from, shape) /\ Refusing(from, shape)
  <1> SUFFICES ASSUME NEW raw \in Values, NEW caller \in Calling, Portable[raw]
               PROVE  LET errors == ParseShape[<<shape, raw, caller>>]
                          valid == Validates[<<from[shape], raw>>]
                      IN (Passes(errors) => valid) /\ (Refuses(errors) => ~ valid)
    BY DEF Accepting, Refusing, Sendable
  <1>1. ParseShape[<<shape, raw, caller>>] = ParseEnum(shape, raw)
    BY ParseShapeIs DEF ParseKind
  <1>2. raw.json = "string" => Trimmed[raw.text] = raw.text
    BY PortableIs DEF PortableBy
  <1>3. ParseEnum(shape, raw) = IF raw.json # "string" THEN Mismatch
                                ELSE IF raw.text \in shape.values THEN {}
                                ELSE Fail("value_not_allowed")
    BY <1>2 DEF ParseEnum
  <1>4. Validates[<<from[shape], raw>>] <=> raw.json = "string" /\ raw.text \in shape.values
    BY EnumValid DEF Builds, NormalizesEnum
  <1>5. Refuses(Fail("value_not_allowed")) /\ ~ Passes(Fail("value_not_allowed"))
    BY FailTells
  <1> QED
    BY <1>1, <1>3, <1>4, <1>5, MismatchTells, NothingPasses

\* What is reported of one of the values in a value.
LEMMA InsideTold ==
    ASSUME NEW from, NEW shape \in Shapes, NEW inner \in ShapesIn(shape),
           NEW raw \in Values, NEW caller \in Calling, Sendable(shape, raw, caller),
           NEW value \in ValuesIn(raw), NEW step \in Steps
    PROVE  LET errors == Under(step, ParseShape[<<inner, value, caller>>])
               valid == Validates[<<from[inner], value>>]
           IN /\ Own \notin errors
              /\ Accepting(from, inner) /\ errors = {} => valid
              /\ Refusing(from, inner) /\ Refuses(errors) => ~ valid
  <1> DEFINE parsed == ParseShape[<<inner, value, caller>>]
  <1>1. /\ inner \in Shapes /\ value \in Values /\ Portable[value] /\ SeesAll(inner, caller)
    BY ShapeInside, ValueInside, SeesInside, PortableIs DEF Sendable, PortableBy
  <1>2. parsed \subseteq Errors
    BY <1>1, ParseShapeErrors
  <1>3. Accepting(from, inner) /\ parsed = {} => Validates[<<from[inner], value>>]
    BY <1>1, NothingPasses DEF Accepting, Sendable
  <1>4. Refusing(from, inner) /\ Refuses(parsed) => ~ Validates[<<from[inner], value>>]
    BY <1>1 DEF Refusing, Sendable
  <1> HIDE DEF parsed
  <1>5. /\ Own \notin Under(step, parsed)
        /\ Under(step, parsed) = {} => parsed = {}
        /\ Refuses(Under(step, parsed)) => Refuses(parsed)
    BY <1>2, UnderPasses, UnderNone, UnderRefuses DEF Passes
  <1> QED
    BY <1>3, <1>4, <1>5 DEF parsed

LEMMA ArrayTold ==
    ASSUME NEW document, NEW from, Writes(document, from), NEW shape \in Shapes,
           shape.kind = "array"
    PROVE  /\ Accepting(from, shape.item) => Accepting(from, shape)
           /\ Refusing(from, shape.item) => Refusing(from, shape)
  <1> SUFFICES ASSUME NEW raw \in Values, NEW caller \in Calling, Sendable(shape, raw, caller)
               PROVE  LET errors == ParseShape[<<shape, raw, caller>>]
                          valid == Validates[<<from[shape], raw>>]
                      IN /\ Accepting(from, shape.item) /\ Passes(errors) => valid
                         /\ Refusing(from, shape.item) /\ Refuses(errors) => ~ valid
    BY DEF Accepting, Refusing
  <1>1. ParseShape[<<shape, raw, caller>>] = ParseKind(ParseShape, shape, raw, caller)
    BY ParseShapeIs
  <1>2. Validates[<<from[shape], raw>>] <=>
           /\ raw.json = "array"
           /\ \A i \in DOMAIN raw.items : Validates[<<from[shape.item], raw.items[i]>>]
    BY ArrayValid
  <1>3. CASE raw.json # "array"
    <2>1. ParseShape[<<shape, raw, caller>>] = Mismatch
      BY <1>1, <1>3 DEF ParseKind
    <2> QED
      BY <1>2, <1>3, <2>1, MismatchTells
  <1>4. CASE raw.json = "array"
    <2> DEFINE Check(i) == Under(i, ParseShape[<<shape.item, raw.items[i], caller>>])
               Valid(i) == Validates[<<from[shape.item], raw.items[i]>>]
               checks == [i \in DOMAIN raw.items |-> Check(i)]
               errors == ParseShape[<<shape, raw, caller>>]
    <2>1. errors = First(checks)
      BY <1>1, <1>4 DEF ParseKind, ParseItems
    <2>2. /\ DOMAIN raw.items \subseteq Nat /\ shape.item \in ShapesIn(shape)
          /\ \A i \in DOMAIN raw.items : i \in Steps /\ raw.items[i] \in ValuesIn(raw)
      BY <1>4, BuiltFrom, FoundIn DEF Steps
    <2>3. ASSUME NEW i \in DOMAIN raw.items
          PROVE  /\ Own \notin Check(i)
                 /\ Accepting(from, shape.item) /\ Check(i) = {} => Valid(i)
                 /\ Refusing(from, shape.item) /\ Refuses(Check(i)) => ~ Valid(i)
      BY <2>2, InsideTold
    <2>4. DOMAIN checks = DOMAIN raw.items /\ \A i \in DOMAIN raw.items : checks[i] = Check(i)
      OBVIOUS
    <2>5. Validates[<<from[shape], raw>>] <=> \A i \in DOMAIN raw.items : Valid(i)
      BY <1>2, <1>4
    <2> HIDE DEF Check, Valid, checks, errors
    <2>6. /\ First(checks) = {} <=> \A i \in DOMAIN raw.items : checks[i] = {}
          /\ First(checks) # {} => \E i \in DOMAIN raw.items : First(checks) = checks[i]
      BY <2>2, <2>4, FirstFails
    <2>7. Passes(errors) => \A i \in DOMAIN raw.items : Check(i) = {}
      BY <2>1, <2>3, <2>4, <2>6 DEF Passes
    <2>8. Refuses(errors) => \E i \in DOMAIN raw.items : Refuses(Check(i))
      BY <2>1, <2>4, <2>6, NothingPasses
    <2> QED
      BY <2>3, <2>5, <2>7, <2>8 DEF errors
  <1> QED
    BY <1>3, <1>4

LEMMA MapTold ==
    ASSUME NEW document, NEW from, Writes(document, from), NEW shape \in Shapes,
           shape.kind = "map"
    PROVE  /\ Accepting(from, shape.item) => Accepting(from, shape)
           /\ Refusing(from, shape.item) => Refusing(from, shape)
  <1> SUFFICES ASSUME NEW raw \in Values, NEW caller \in Calling, Sendable(shape, raw, caller)
               PROVE  LET errors == ParseShape[<<shape, raw, caller>>]
                          valid == Validates[<<from[shape], raw>>]
                      IN /\ Accepting(from, shape.item) /\ Passes(errors) => valid
                         /\ Refusing(from, shape.item) /\ Refuses(errors) => ~ valid
    BY DEF Accepting, Refusing
  <1>1. ParseShape[<<shape, raw, caller>>] = ParseKind(ParseShape, shape, raw, caller)
    BY ParseShapeIs
  <1>2. Validates[<<from[shape], raw>>] <=>
           /\ raw.json = "object"
           /\ \A name \in DOMAIN raw.fields : Validates[<<from[shape.item], raw.fields[name]>>]
    BY MapValid
  <1>3. CASE raw.json # "object"
    <2>1. ParseShape[<<shape, raw, caller>>] = Mismatch
      BY <1>1, <1>3 DEF ParseKind
    <2> QED
      BY <1>2, <1>3, <2>1, MismatchTells
  <1>4. CASE raw.json = "object"
    <2> DEFINE Check(name) == Under(name, ParseShape[<<shape.item, raw.fields[name], caller>>])
               Valid(name) == Validates[<<from[shape.item], raw.fields[name]>>]
               errors == ParseShape[<<shape, raw, caller>>]
    <2>1. errors = UNION {Check(name) : name \in DOMAIN raw.fields}
      BY <1>1, <1>4 DEF ParseKind, ParseValues
    <2>2. /\ shape.item \in ShapesIn(shape)
          /\ \A name \in DOMAIN raw.fields : name \in Steps /\ raw.fields[name] \in ValuesIn(raw)
      BY <1>4, BuiltFrom, FoundIn DEF Steps
    <2>3. ASSUME NEW name \in DOMAIN raw.fields
          PROVE  /\ Own \notin Check(name)
                 /\ Accepting(from, shape.item) /\ Check(name) = {} => Valid(name)
                 /\ Refusing(from, shape.item) /\ Refuses(Check(name)) => ~ Valid(name)
      BY <2>2, InsideTold
    <2>4. Validates[<<from[shape], raw>>] <=> \A name \in DOMAIN raw.fields : Valid(name)
      BY <1>2, <1>4
    <2> HIDE DEF Check, Valid, errors
    <2>5. Passes(errors) => \A name \in DOMAIN raw.fields : Check(name) = {}
      BY <2>1, <2>3 DEF Passes
    <2>6. Refuses(errors) => \E name \in DOMAIN raw.fields : Refuses(Check(name))
      BY <2>1 DEF Refuses
    <2> QED
      BY <2>3, <2>4, <2>5, <2>6 DEF errors
  <1> QED
    BY <1>3, <1>4

LEMMA ObjectTold ==
    ASSUME NEW document, NEW from, Writes(document, from), NEW shape \in Shapes,
           shape.kind = "object", Builds(shape),
           \A i \in DOMAIN shape.params : Bounded(shape.params[i])
    PROVE  /\ (\A inner \in ShapesIn(shape) : Accepting(from, inner)) => Accepting(from, shape)
           /\ document = "openapi31" /\ (\A inner \in ShapesIn(shape) : Refusing(from, inner))
                 => Refusing(from, shape)
  <1> DEFINE Accepts == \A inner \in ShapesIn(shape) : Accepting(from, inner)
             Rejects == \A inner \in ShapesIn(shape) : Refusing(from, inner)
  <1> SUFFICES ASSUME NEW raw \in Values, NEW caller \in Calling, Sendable(shape, raw, caller)
               PROVE  LET errors == ParseShape[<<shape, raw, caller>>]
                          valid == Validates[<<from[shape], raw>>]
                      IN /\ Accepts /\ Passes(errors) => valid
                         /\ document = "openapi31" /\ Rejects /\ Refuses(errors) => ~ valid
    BY DEF Accepting, Refusing
  <1>0. /\ NormalizesObject(shape)
        /\ \A i \in DOMAIN shape.rules : NormalizesRule(shape.rules[i])
    BY DEF Builds
  <1>1. ParseShape[<<shape, raw, caller>>] = ParseKind(ParseShape, shape, raw, caller)
    BY ParseShapeIs
  <1>2. Validates[<<from[shape], raw>>] <=>
           /\ raw.json = "object"
           /\ FieldsFit(from, shape, raw.fields)
           /\ document = "openapi31" => RulesFit(shape, raw.fields)
    BY <1>0, ObjectValid
  <1>3. CASE raw.json # "object"
    <2>1. ParseShape[<<shape, raw, caller>>] = Mismatch
      BY <1>1, <1>3 DEF ParseKind
    <2> QED
      BY <1>2, <1>3, <2>1, MismatchTells
  <1>4. CASE raw.json = "object"
    <2> DEFINE errors == ParseShape[<<shape, raw, caller>>]
               Check(i) == ParseParameter(ParseShape, shape.params[i], raw.fields, caller)
               There(i) == shape.params[i].name \in DOMAIN raw.fields
               Valid(i) == Validates[<<Property(from, shape.params[i]),
                                       raw.fields[shape.params[i].name]>>]
    <2>1. errors = ParseObject(ParseShape, shape, Declared(shape), raw.fields, caller)
      BY <1>1, <1>4 DEF ParseKind, ParseFields
    <2>2. ASSUME NEW i \in DOMAIN shape.params
          PROVE  /\ Accepts /\ Check(i) = {} =>
                       IF There(i) THEN Valid(i) ELSE ~ shape.params[i].required
                 /\ Rejects /\ Refuses(Check(i)) =>
                       IF There(i) THEN ~ Valid(i) ELSE shape.params[i].required
      <3>1. shape.params[i].shape \in ShapesIn(shape)
        BY BuiltFrom
      <3>2. Portable[raw] /\ SeesAll(shape.params[i].shape, caller)
        BY <3>1, SeesInside DEF Sendable
      <3>3. /\ Accepting(from, shape.params[i].shape) /\ Check(i) = {} =>
                  IF There(i) THEN Valid(i) ELSE ~ shape.params[i].required
            /\ Refusing(from, shape.params[i].shape) /\ Refuses(Check(i)) =>
                  IF There(i) THEN ~ Valid(i) ELSE shape.params[i].required
        BY <1>0, <1>4, <3>2, ParameterTold
      <3> HIDE DEF Check, There, Valid
      <3> QED
        BY <3>1, <3>3
    <2>3. /\ Passes(errors) => /\ \A i \in DOMAIN shape.params : Check(i) = {}
                               /\ RulesFit(shape, raw.fields)
          /\ Refuses(errors) => \/ \E i \in DOMAIN shape.params : Refuses(Check(i))
                                \/ ~ RulesFit(shape, raw.fields)
      BY <1>0, <1>4, <2>1, ObjectChecks
    <2>4. FieldsFit(from, shape, raw.fields) <=>
             \A i \in DOMAIN shape.params :
                (shape.params[i].required => There(i)) /\ (There(i) => Valid(i))
      BY DEF FieldsFit, ParamRequired
    <2> HIDE DEF Check, There, Valid, errors, Accepts, Rejects
    <2>5. Accepts /\ Passes(errors) => FieldsFit(from, shape, raw.fields)
      BY <2>2, <2>3, <2>4
    <2>6. Rejects /\ Refuses(errors) =>
             ~ FieldsFit(from, shape, raw.fields) \/ ~ RulesFit(shape, raw.fields)
      BY <2>2, <2>3, <2>4
    <2> QED
      BY <1>2, <1>4, <2>3, <2>5, <2>6 DEF errors
  <1> QED
    BY <1>3, <1>4

-----------------------------------------------------------------------------
(***************************************************************************)
(* Lists of variants.                                                      *)
(***************************************************************************)
LEMMA TextsValid ==
    ASSUME NEW values, values # {}, NEW schema \in Schemas, schema = OneOfTexts(values),
           NEW raw \in Values
    PROVE  Validates[<<schema, raw>>] <=> raw.json = "string" /\ raw.text \in values
  <1>1. /\ Unbounded(schema) /\ schema.anyOf = {} /\ schema.not = {} /\ schema.enum = values
        /\ schema.type = "string" /\ schema.oneOf = {} /\ schema.allOf = {}
    BY DEF OneOfTexts, ParamTypeSchema, NoSchema, Unbounded
  <1>2. HasType(schema.type, raw) <=> raw.json = "string"
    BY <1>1 DEF HasType
  <1>3. EnumAsks(schema, raw) <=> raw.json = "string" /\ raw.text \in values
    BY <1>1 DEF EnumAsks
  <1>4. raw.json = "string" => ObjectAsks(schema, raw) /\ ItemsAsk(schema, raw)
    BY DEF ObjectAsks, ItemsAsk
  <1>5. OneOfAsks(schema, raw) /\ AllOfAsks(schema, raw)
    BY <1>1 DEF OneOfAsks, AllOfAsks
  <1> QED
    BY <1>1, <1>2, <1>3, <1>4, <1>5, ValidUnbounded

\* The discriminator is one of these texts.
SaysOneOf(discriminator, values, fields) ==
    /\ discriminator \in DOMAIN fields
    /\ fields[discriminator].json = "string"
    /\ fields[discriminator].text \in values

\* What a variant does not read: the discriminator is no property of its.
LEMMA NotRead ==
    ASSUME NEW document, NEW from, Writes(document, from), NEW shape \in Shapes,
           shape.kind \in {"object", "map"}, NEW name, name \notin NamesRead[shape]
    PROVE  name \notin DOMAIN from[shape].properties /\ name \notin from[shape].required
  <1> DEFINE schema == from[shape]
  <1>1. schema = Written(document, from, shape)
    BY DEF Writes
  <1> HIDE DEF schema
  <1>2. FieldsWritten(schema, document, from, shape)
    BY <1>1, WrittenFields
  <1>3. CASE shape.kind = "object"
    <2>1. name \notin Names(shape.params)
      BY <1>3, NamesReadIs DEF NamesReadBy
    <2>2. /\ schema.properties = ParamProperties(from, shape.params)
          /\ schema.required = ParamRequired(shape.params)
      BY <1>2, <1>3 DEF FieldsWritten
    <2> QED
      BY <2>1, <2>2 DEF ParamProperties, ParamRequired, Names, schema
  <1>4. CASE shape.kind = "map"
    <2>1. schema.properties = <<>> /\ schema.required = {}
      BY <1>2, <1>4 DEF FieldsWritten
    <2>2. DOMAIN <<>> = {}
      OBVIOUS
    <2> QED
      BY <2>1, <2>2 DEF schema
  <1> QED
    BY <1>3, <1>4

\* A branch asks of an object that it names the variant, and of the rest of it
\* what the variant asks.
LEMMA BranchValid ==
    ASSUME NEW document, NEW from, Writes(document, from), NEW shape \in Shapes,
           shape.kind \in {"object", "map"}, Builds(shape),
           NEW key, key \notin NamesRead[shape], NEW value,
           Branch(from[shape], key, value) \in Schemas,
           NEW raw \in Values, raw.json = "object", ObjectWithoutKey(raw.fields, key) \in Values
    PROVE  Validates[<<Branch(from[shape], key, value), raw>>] <=>
              /\ SaysOneOf(key, {value}, raw.fields)
              /\ Validates[<<from[shape], ObjectWithoutKey(raw.fields, key)>>]
  <1> DEFINE plain == from[shape]
             branch == Branch(plain, key, value)
             rest == ObjectWithoutKey(raw.fields, key)
             texts == OneOfTexts({value})
  <1>1. plain = Written(document, from, shape) /\ plain \in Schemas /\ branch \in Schemas
    BY DEF Writes
  <1>2. key \notin DOMAIN plain.properties /\ key \notin plain.required
    BY NotRead
  <1>3. /\ rest \in Values /\ rest.json = "object" /\ DOMAIN rest.fields = DOMAIN raw.fields \ {key}
        /\ \A name \in DOMAIN rest.fields : rest.fields[name] = raw.fields[name]
    BY DEF ObjectWithoutKey
  <1> HIDE DEF plain, rest
  <1>4. FieldsWritten(plain, document, from, shape)
    BY <1>1, WrittenFields
  <1>5. /\ DOMAIN plain = SchemaFields /\ Unbounded(plain) /\ plain.anyOf = {} /\ plain.not = {}
        /\ plain.enum = {} /\ plain.oneOf = {} /\ plain.type = ParamTypeSchema(WireType(shape)).type
        /\ shape.kind = "object" /\ document = "openapi31" => plain.allOf = ParamRules(shape.rules)
        /\ ~ (shape.kind = "object" /\ document = "openapi31") => plain.allOf = {}
    BY <1>4 DEF FieldsWritten
  <1> DEFINE properties == [name \in {key} \cup DOMAIN plain.properties |->
                              IF name = key THEN texts ELSE plain.properties[name]]
  <1>6. /\ branch.anyOf = plain.anyOf /\ branch.not = plain.not /\ branch.enum = plain.enum
        /\ branch.oneOf = plain.oneOf /\ branch.type = plain.type /\ branch.allOf = plain.allOf
        /\ branch.min = plain.min /\ branch.max = plain.max /\ branch.additional = plain.additional
        /\ branch.properties = properties /\ branch.required = plain.required \cup {key}
    BY <1>5 DEF Branch, SchemaFields
  <1> HIDE DEF branch, texts
  <1>7. /\ DOMAIN properties = {key} \cup DOMAIN plain.properties /\ properties[key] = texts
        /\ \A name \in DOMAIN plain.properties : properties[name] = plain.properties[name]
    BY <1>2
  <1> HIDE DEF properties
  <1>8. texts \in Schemas
    BY <1>1, <1>6, <1>7, SchemaInside DEF SchemasIn
  <1>9. key \in DOMAIN raw.fields =>
           (Validates[<<texts, raw.fields[key]>>] <=> SaysOneOf(key, {value}, raw.fields))
    BY <1>8, FoundIn, TextsValid DEF texts, SaysOneOf
  <1>10. ValidatesObject(Validates, branch, raw.fields) <=>
            /\ SaysOneOf(key, {value}, raw.fields)
            /\ ValidatesObject(Validates, plain, rest.fields)
    <2> DEFINE Fits(name) == IF name \in DOMAIN plain.properties
                             THEN Validates[<<plain.properties[name], raw.fields[name]>>]
                             ELSE \A other \in plain.additional :
                                     Validates[<<other, raw.fields[name]>>]
    <2>1. ValidatesObject(Validates, plain, rest.fields) <=>
             /\ plain.required \subseteq DOMAIN rest.fields
             /\ \A name \in DOMAIN rest.fields : Fits(name)
      BY <1>3, Zenon DEF ValidatesObject
    <2>2. ValidatesObject(Validates, branch, raw.fields) <=>
             /\ plain.required \cup {key} \subseteq DOMAIN raw.fields
             /\ \A name \in DOMAIN raw.fields :
                   IF name = key THEN Validates[<<texts, raw.fields[key]>>] ELSE Fits(name)
      <3>1. ASSUME NEW name \in DOMAIN raw.fields
            PROVE  (IF name \in DOMAIN properties
                    THEN Validates[<<properties[name], raw.fields[name]>>]
                    ELSE \A other \in branch.additional : Validates[<<other, raw.fields[name]>>])
                      <=> IF name = key THEN Validates[<<texts, raw.fields[key]>>] ELSE Fits(name)
        <4>1. CASE name = key
          BY <1>7, <4>1
        <4>2. CASE name # key
          BY <1>6, <1>7, <4>2
        <4> QED
          BY <4>1, <4>2
      <3> HIDE DEF Fits
      <3> QED
        BY <1>6, <3>1, Zenon DEF ValidatesObject
    <2> HIDE DEF Fits
    <2> QED
      BY <1>2, <1>3, <1>9, <2>1, <2>2 DEF SaysOneOf
  <1>11. AllOfAsks(branch, raw) <=> AllOfAsks(plain, rest)
    <2>1. CASE shape.kind = "object" /\ document = "openapi31"
      <3>1. /\ NormalizesObject(shape)
            /\ \A i \in DOMAIN shape.rules : NormalizesRule(shape.rules[i])
        BY <2>1 DEF Builds
      <3>2. /\ AllOfAsks(branch, raw) <=> RulesFit(shape, raw.fields)
            /\ AllOfAsks(plain, rest) <=> RulesFit(shape, rest.fields)
        BY <1>1, <1>3, <1>5, <1>6, <2>1, <3>1, RulesAsked
      <3>3. key \notin Names(shape.params)
        BY <2>1, NamesReadIs DEF NamesReadBy
      <3>4. \A i \in DOMAIN shape.rules :
               shape.rules[i].names \cap DOMAIN raw.fields
                  = shape.rules[i].names \cap DOMAIN rest.fields
        BY <1>3, <3>1, <3>3 DEF NormalizesObject
      <3> QED
        BY <3>2, <3>4 DEF RulesFit
    <2>2. CASE ~ (shape.kind = "object" /\ document = "openapi31")
      BY <1>5, <1>6, <2>2 DEF AllOfAsks
    <2> QED
      BY <2>1, <2>2
  <1>12. Validates[<<branch, raw>>] <=>
            /\ HasType(plain.type, raw) /\ AllOfAsks(branch, raw)
            /\ ValidatesObject(Validates, branch, raw.fields)
    <2>1. EnumAsks(branch, raw) /\ ItemsAsk(branch, raw) /\ OneOfAsks(branch, raw)
      BY <1>5, <1>6 DEF EnumAsks, ItemsAsk, OneOfAsks
    <2>2. Unbounded(branch) /\ branch.anyOf = {} /\ branch.not = {}
      BY <1>5, <1>6 DEF Unbounded
    <2> QED
      BY <1>1, <1>6, <2>1, <2>2, ValidUnbounded DEF ObjectAsks
  <1>13. Validates[<<plain, rest>>] <=>
            /\ HasType(plain.type, rest) /\ AllOfAsks(plain, rest)
            /\ ValidatesObject(Validates, plain, rest.fields)
    <2>1. EnumAsks(plain, rest) /\ ItemsAsk(plain, rest) /\ OneOfAsks(plain, rest)
      BY <1>3, <1>5 DEF EnumAsks, ItemsAsk, OneOfAsks
    <2> QED
      BY <1>1, <1>3, <1>5, <2>1, ValidUnbounded DEF ObjectAsks
  <1>14. HasType(plain.type, raw) /\ HasType(plain.type, rest)
    BY <1>3, <1>5, TypeWritten
  <1> QED
    BY <1>10, <1>11, <1>12, <1>13, <1>14 DEF branch, plain, rest

LEMMA RestPortable ==
    ASSUME NEW shape \in Shapes, shape.kind = "variants", NEW raw \in Values,
           raw.json = "object", Portable[raw]
    PROVE  LET rest == ObjectWithoutKey(raw.fields, shape.discriminator)
           IN  rest \in Values /\ Portable[rest]
  <1> DEFINE rest == ObjectWithoutKey(raw.fields, shape.discriminator)
  <1>1. rest \in Values
    BY FoundIn
  <1>2. rest.json = "object" /\ \A inner \in ValuesIn(rest) : inner \in ValuesIn(raw)
    BY DEF ObjectWithoutKey, ValuesIn
  <1>3. \A inner \in ValuesIn(raw) : Portable[inner]
    BY PortableIs DEF PortableBy
  <1> HIDE DEF rest
  <1> QED
    BY <1>1, <1>2, <1>3, PortableIs DEF PortableBy, rest

\* The discriminator names one of the variants, which parses the rest.
LEMMA VariantChecks ==
    ASSUME NEW shape \in Shapes, shape.kind = "variants", NormalizesVariants(shape),
           NEW raw \in Values, raw.json = "object", NEW caller \in Calling, Portable[raw]
    PROVE  LET errors == ParseVariants(ParseShape, shape, Declared(shape), raw.fields, caller)
               rest == ObjectWithoutKey(raw.fields, shape.discriminator)
               Says(i) == SaysOneOf(shape.discriminator, {shape.variants[i].value}, raw.fields)
               Found(i) == ParseShape[<<shape.variants[i].shape, rest, caller>>]
           IN /\ Passes(errors) =>
                    \E i \in DOMAIN shape.variants : Says(i) /\ Passes(Found(i))
              /\ Refuses(errors) =>
                    \A i \in DOMAIN shape.variants : Says(i) => Refuses(Found(i))
  <1> DEFINE key == raw.fields[shape.discriminator]
             chosen == Chosen(shape, Declared(shape), key.text)
             first == Min(chosen)
             rest == ObjectWithoutKey(raw.fields, shape.discriminator)
             wrong == ParseDiscriminator(shape, Declared(shape), raw.fields)
             errors == ParseVariants(ParseShape, shape, Declared(shape), raw.fields, caller)
             Says(i) == SaysOneOf(shape.discriminator, {shape.variants[i].value}, raw.fields)
             Errs(i) == ParseShape[<<shape.variants[i].shape, rest, caller>>]
  <1>1. chosen = {i \in DOMAIN shape.variants : shape.variants[i].value = key.text}
    BY DEF Chosen, Declared
  <1>2. /\ wrong \subseteq Errors
        /\ wrong = {} <=> /\ shape.discriminator \in DOMAIN raw.fields
                          /\ key.json = "string"
                          /\ chosen # {}
    BY DiscriminatorRight
  <1>3. errors = Then(Under(shape.discriminator, wrong), Errs(first))
    BY DEF ParseVariants, ParseVariant
  <1>4. shape.discriminator \in Steps
    BY BuiltFrom DEF Steps
  <1>5. \A i \in DOMAIN shape.variants : Says(i) <=>
           /\ shape.discriminator \in DOMAIN raw.fields
           /\ key.json = "string"
           /\ i \in chosen
    BY <1>1 DEF SaysOneOf
  <1>6. CASE wrong # {}
    <2>1. \A i \in DOMAIN shape.variants : ~ Says(i)
      BY <1>2, <1>5, <1>6
    <2>2. errors = Under(shape.discriminator, wrong)
      BY <1>3, <1>6, UnderNone DEF Then
    <2>3. ~ Passes(errors)
      BY <1>2, <1>4, <1>6, <2>2, UnderPasses
    <2> QED
      BY <2>1, <2>3
  <1>7. CASE wrong = {}
    <2>1. first \in chosen
      BY <1>2, <1>7, ChosenFirst
    <2>2. first \in DOMAIN shape.variants /\ Says(first)
      BY <1>1, <1>2, <1>5, <1>7, <2>1
    <2>3. \A i \in DOMAIN shape.variants : Says(i) => i = first
      BY <1>1, <1>5, <2>1 DEF NormalizesVariants
    <2>4. errors = Errs(first)
      BY <1>3, <1>7, UnderNone DEF Then
    <2> HIDE DEF errors, first, Says, Errs
    <2> QED
      BY <2>2, <2>3, <2>4 DEF errors, Says, Errs
  <1> QED
    BY <1>6, <1>7

\* A list of variants in the 3.1 document accepts what just one of its branches
\* accepts, and no two of them ever do.
LEMMA VariantsValid ==
    ASSUME NEW from, Writes("openapi31", from), NEW shape \in Shapes,
           shape.kind = "variants", NormalizesVariants(shape),
           \A inner \in ShapesIn(shape) : /\ inner.kind \in {"object", "map"} /\ Builds(inner)
                                          /\ shape.discriminator \notin NamesRead[inner],
           NEW raw \in Values
    PROVE  LET rest == ObjectWithoutKey(raw.fields, shape.discriminator)
           IN  Validates[<<from[shape], raw>>] <=>
                  /\ raw.json = "object"
                  /\ \E i \in DOMAIN shape.variants :
                        /\ SaysOneOf(shape.discriminator, {shape.variants[i].value}, raw.fields)
                        /\ Validates[<<from[shape.variants[i].shape], rest>>]
  <1> DEFINE schema == from[shape]
             key == shape.discriminator
             rest == ObjectWithoutKey(raw.fields, key)
             branches == DiscriminatorOneOf(from, shape)
             valid == {b \in branches : Validates[<<b, raw>>]}
             BranchOf(i) == Branch(from[shape.variants[i].shape], key, shape.variants[i].value)
             Says(i) == SaysOneOf(key, {shape.variants[i].value}, raw.fields)
             Fits(i) == Says(i) /\ Validates[<<from[shape.variants[i].shape], rest>>]
  <1>1. schema = Written("openapi31", from, shape) /\ schema \in Schemas
    BY DEF Writes
  <1>2. branches = {BranchOf(i) : i \in DOMAIN shape.variants}
    BY DEF DiscriminatorOneOf
  <1> HIDE DEF schema, branches
  <1>3. FieldsWritten(schema, "openapi31", from, shape)
    BY <1>1, WrittenFields
  <1>4. /\ Unbounded(schema) /\ schema.anyOf = {} /\ schema.not = {} /\ schema.enum = {}
        /\ schema.type = ParamTypeSchema(WireType(shape)).type
        /\ schema.items = {} /\ schema.additional = {} /\ schema.oneOf = branches
        /\ schema.allOf = {} /\ schema.properties = <<>> /\ schema.required = {}
    BY <1>3 DEF FieldsWritten, branches
  <1>5. branches # {} /\ branches \subseteq Schemas
    <2>1. DOMAIN shape.variants # {}
      <3>1. IsList(shape.variants) /\ Len(shape.variants) > 0
        BY ShapesAssumption DEF NormalizesVariants
      <3> DEFINE n == Len(shape.variants)
      <3>2. n \in Nat /\ n > 0 /\ DOMAIN shape.variants = 1 .. n
        BY <3>1 DEF IsList
      <3> HIDE DEF n
      <3>3. 1 \in 1 .. n
        BY <3>2
      <3> QED
        BY <3>2, <3>3
    <2>2. branches \subseteq Schemas
      BY <1>1, <1>4, SchemaInside DEF SchemasIn
    <2> QED
      BY <1>2, <2>1, <2>2
  <1>6. Validates[<<schema, raw>>] <=> raw.json = "object" /\ Cardinality(valid) = 1
    <2>1. HasType(schema.type, raw) <=> raw.json = "object"
      BY <1>4, TypeWritten
    <2>2. ValidatesObject(Validates, schema, raw.fields)
      BY <1>4, OnlyRequired
    <2>3. /\ EnumAsks(schema, raw) /\ ObjectAsks(schema, raw) /\ ItemsAsk(schema, raw)
          /\ AllOfAsks(schema, raw)
      BY <1>4, <2>2 DEF EnumAsks, ObjectAsks, ItemsAsk, AllOfAsks
    <2>4. OneOfAsks(schema, raw) <=> Cardinality(valid) = 1
      BY <1>4, <1>5, Zenon DEF OneOfAsks
    <2> HIDE DEF valid
    <2> QED
      BY <1>1, <1>4, <2>1, <2>3, <2>4, ValidUnbounded
  <1>7. CASE raw.json # "object"
    BY <1>6, <1>7 DEF schema
  <1>8. CASE raw.json = "object"
    <2>1. rest \in Values
      BY <1>8, FoundIn
    <2>2. ASSUME NEW i \in DOMAIN shape.variants
          PROVE  Validates[<<BranchOf(i), raw>>] <=> Fits(i)
      <3>1. /\ shape.variants[i].shape \in ShapesIn(shape)
            /\ shape.variants[i].shape \in Shapes
            /\ BranchOf(i) \in Schemas
        BY <1>2, <1>5, BuiltFrom, ShapeInside
      <3> QED
        BY <1>8, <2>1, <3>1, BranchValid
    <2>3. \A i, j \in DOMAIN shape.variants : Says(i) /\ Says(j) => i = j
      BY DEF SaysOneOf, NormalizesVariants
    <2> HIDE DEF BranchOf, Says, rest
    <2>4. ASSUME NEW i \in DOMAIN shape.variants, Fits(i)
          PROVE  Cardinality(valid) = 1
      <3>1. valid = {BranchOf(i)}
        BY <1>2, <2>2, <2>3, <2>4
      <3> QED
        BY <3>1, FS_Singleton
    <2>5. ASSUME \A i \in DOMAIN shape.variants : ~ Fits(i)
          PROVE  Cardinality(valid) # 1
      <3>1. valid = {}
        BY <1>2, <2>2, <2>5
      <3> HIDE DEF valid
      <3> QED
        BY <3>1, FS_EmptySet
    <2>6. Validates[<<schema, raw>>] <=> \E i \in DOMAIN shape.variants : Fits(i)
      BY <1>6, <1>8, <2>4, <2>5
    <2> QED
      BY <1>8, <2>6 DEF schema, Says, rest
  <1> QED
    BY <1>7, <1>8

LEMMA VariantsTold ==
    ASSUME NEW from, Writes("openapi31", from), NEW shape \in Shapes,
           shape.kind = "variants", NormalizesVariants(shape),
           \A inner \in ShapesIn(shape) : /\ inner.kind \in {"object", "map"} /\ Builds(inner)
                                          /\ shape.discriminator \notin NamesRead[inner]
    PROVE  /\ (\A inner \in ShapesIn(shape) : Accepting(from, inner)) => Accepting(from, shape)
           /\ (\A inner \in ShapesIn(shape) : Refusing(from, inner)) => Refusing(from, shape)
  <1> DEFINE Accepts == \A inner \in ShapesIn(shape) : Accepting(from, inner)
             Rejects == \A inner \in ShapesIn(shape) : Refusing(from, inner)
  <1> SUFFICES ASSUME NEW raw \in Values, NEW caller \in Calling, Sendable(shape, raw, caller)
               PROVE  LET errors == ParseShape[<<shape, raw, caller>>]
                          valid == Validates[<<from[shape], raw>>]
                      IN (Accepts /\ Passes(errors) => valid) /\ (Rejects /\ Refuses(errors) => ~ valid)
    BY DEF Accepting, Refusing
  <1> DEFINE rest == ObjectWithoutKey(raw.fields, shape.discriminator)
             errors == ParseShape[<<shape, raw, caller>>]
             Says(i) == SaysOneOf(shape.discriminator, {shape.variants[i].value}, raw.fields)
             Errs(i) == ParseShape[<<shape.variants[i].shape, rest, caller>>]
             Valid(i) == Validates[<<from[shape.variants[i].shape], rest>>]
  <1>1. errors = ParseKind(ParseShape, shape, raw, caller)
    BY ParseShapeIs
  <1>2. Validates[<<from[shape], raw>>] <=>
           raw.json = "object" /\ \E i \in DOMAIN shape.variants : Says(i) /\ Valid(i)
    BY VariantsValid
  <1>3. CASE raw.json # "object"
    <2>1. errors = Mismatch
      BY <1>1, <1>3 DEF ParseKind
    <2> QED
      BY <1>2, <1>3, <2>1, MismatchTells
  <1>4. CASE raw.json = "object"
    <2>1. errors = ParseVariants(ParseShape, shape, Declared(shape), raw.fields, caller)
      BY <1>1, <1>4 DEF ParseKind, ParseFields
    <2>2. /\ Passes(errors) => \E i \in DOMAIN shape.variants : Says(i) /\ Passes(Errs(i))
          /\ Refuses(errors) => \A i \in DOMAIN shape.variants : Says(i) => Refuses(Errs(i))
      BY <1>4, <2>1, VariantChecks DEF Sendable
    <2>3. ASSUME NEW i \in DOMAIN shape.variants
          PROVE  (Accepts /\ Passes(Errs(i)) => Valid(i)) /\ (Rejects /\ Refuses(Errs(i)) => ~ Valid(i))
      <3>1. shape.variants[i].shape \in ShapesIn(shape)
        BY BuiltFrom
      <3>2. Sendable(shape.variants[i].shape, rest, caller) /\ rest \in Values
        BY <1>4, <3>1, RestPortable, SeesInside DEF Sendable
      <3> HIDE DEF rest
      <3> QED
        BY <3>1, <3>2 DEF Accepting, Refusing
    <2> HIDE DEF Says, Errs, Valid, errors, Accepts, Rejects
    <2> QED
      BY <1>2, <1>4, <2>2, <2>3 DEF errors
  <1> QED
    BY <1>3, <1>4

\* The union of variants, in the document of a gateway, accepts what any of
\* them does when the names they share stand for one schema.
Unites(from, shape) ==
    \A left, right \in ShapesIn(shape) :
        /\ left.kind = "object"
        /\ \A name \in DOMAIN from[left].properties \cap DOMAIN from[right].properties :
              from[left].properties[name] = from[right].properties[name]

LEMMA UnionProperty ==
    ASSUME NEW from, NEW shape \in Shapes, shape.kind = "variants", Unites(from, shape),
           NEW i \in DOMAIN shape.variants, NEW name, name # shape.discriminator,
           name \in DOMAIN from[shape.variants[i].shape].properties
    PROVE  DiscriminatorSwaggerProperties(from, shape)[name]
              = from[shape.variants[i].shape].properties[name]
  <1> DEFINE Of(j) == from[shape.variants[j].shape].properties
             having == {j \in DOMAIN shape.variants : name \in DOMAIN Of(j)}
             all == UNION {DOMAIN Of(j) : j \in DOMAIN shape.variants}
  <1>1. DiscriminatorSwaggerProperties(from, shape)[name] = Of(Min(having))[name]
    BY DEF DiscriminatorSwaggerProperties
  <1>2. having \subseteq Nat /\ having # {}
    BY BuiltFrom
  <1>3. \A j \in having : j \in DOMAIN shape.variants /\ name \in DOMAIN Of(j)
    OBVIOUS
  <1> HIDE DEF having
  <1>4. \E x \in having : \A y \in having : x <= y
    BY <1>2, Least
  <1>5. Min(having) \in having
    BY <1>4 DEF Min
  <1>6. Min(having) \in DOMAIN shape.variants /\ name \in DOMAIN Of(Min(having))
    BY <1>3, <1>5
  <1>7. /\ shape.variants[i].shape \in ShapesIn(shape)
        /\ shape.variants[Min(having)].shape \in ShapesIn(shape)
    BY <1>6, BuiltFrom
  <1> QED
    BY <1>1, <1>6, <1>7 DEF Unites

LEMMA UnionAccepts ==
    ASSUME NEW from, Writes("swagger2", from), NEW shape \in Shapes,
           shape.kind = "variants", NormalizesVariants(shape), Unites(from, shape),
           \A inner \in ShapesIn(shape) : Builds(inner) /\ Accepting(from, inner)
    PROVE  Accepting(from, shape)
  <1> SUFFICES ASSUME NEW raw \in Values, NEW caller \in Calling, Sendable(shape, raw, caller),
                      Passes(ParseShape[<<shape, raw, caller>>])
               PROVE  Validates[<<from[shape], raw>>]
    BY DEF Accepting
  <1> DEFINE schema == from[shape]
             key == shape.discriminator
             rest == ObjectWithoutKey(raw.fields, key)
             values == {shape.variants[i].value : i \in DOMAIN shape.variants}
             properties == DiscriminatorSwaggerProperties(from, shape)
  <1>1. ParseShape[<<shape, raw, caller>>] = ParseKind(ParseShape, shape, raw, caller)
    BY ParseShapeIs
  <1>2. raw.json = "object"
    BY <1>1, MismatchTells DEF ParseKind
  <1>3. ParseShape[<<shape, raw, caller>>]
            = ParseVariants(ParseShape, shape, Declared(shape), raw.fields, caller)
    BY <1>1, <1>2 DEF ParseKind, ParseFields
  <1>4. PICK i \in DOMAIN shape.variants :
           /\ SaysOneOf(key, {shape.variants[i].value}, raw.fields)
           /\ Passes(ParseShape[<<shape.variants[i].shape, rest, caller>>])
    BY <1>2, <1>3, VariantChecks DEF Sendable
  <1> DEFINE variant == shape.variants[i].shape
             plain == from[variant]
  <1>5. /\ variant \in ShapesIn(shape) /\ variant \in Shapes /\ variant.kind = "object"
        /\ Builds(variant) /\ Accepting(from, variant)
    BY BuiltFrom, ShapeInside DEF Unites
  <1>6. Sendable(variant, rest, caller) /\ rest \in Values
    BY <1>2, <1>5, RestPortable, SeesInside DEF Sendable
  <1>7. /\ rest.json = "object" /\ DOMAIN rest.fields = DOMAIN raw.fields \ {key}
        /\ \A name \in DOMAIN rest.fields : rest.fields[name] = raw.fields[name]
    BY DEF ObjectWithoutKey
  <1> HIDE DEF rest, plain
  <1>8. Validates[<<plain, rest>>]
    BY <1>4, <1>5, <1>6 DEF Accepting, plain
  <1>9. DOMAIN rest.fields \subseteq Names(variant.params)
    <2>1. /\ NormalizesObject(variant)
          /\ \A j \in DOMAIN variant.rules : NormalizesRule(variant.rules[j])
      BY <1>5 DEF Builds
    <2>2. ParseShape[<<variant, rest, caller>>] = ParseKind(ParseShape, variant, rest, caller)
      BY <1>5, <1>6, ParseShapeIs
    <2>3. ParseShape[<<variant, rest, caller>>]
              = ParseObject(ParseShape, variant, Declared(variant), rest.fields, caller)
      BY <1>5, <1>7, <2>2 DEF ParseKind, ParseFields
    <2> HIDE DEF variant
    <2>4. Passes(ParseObject(ParseShape, variant, Declared(variant), rest.fields, caller))
      BY <1>4, <2>3 DEF variant
    <2> QED
      BY <1>5, <1>6, <1>7, <2>1, <2>4, ObjectChecks
  <1>10. /\ DOMAIN plain.properties = Names(variant.params)
         /\ \A name \in DOMAIN rest.fields :
               Validates[<<plain.properties[name], rest.fields[name]>>]
    <2>1. plain = Written("swagger2", from, variant) /\ plain \in Schemas
      BY <1>5 DEF Writes, plain
    <2> HIDE DEF variant
    <2>2. FieldsWritten(plain, "swagger2", from, variant)
      BY <2>1, WrittenFields
    <2>3. plain.properties = ParamProperties(from, variant.params)
      BY <1>5, <2>2 DEF FieldsWritten
    <2>4. DOMAIN plain.properties = Names(variant.params)
      BY <2>3 DEF ParamProperties
    <2>5. ObjectAsks(plain, rest)
      BY <1>6, <1>8, <2>1, ValidParts
    <2>6. ValidatesObject(Validates, plain, rest.fields)
      BY <1>7, <2>5 DEF ObjectAsks
    <2> QED
      BY <1>9, <2>4, <2>6 DEF ValidatesObject
  <1>11. schema = Written("swagger2", from, shape) /\ schema \in Schemas
    BY DEF Writes
  <1> HIDE DEF schema, properties
  <1>12. FieldsWritten(schema, "swagger2", from, shape)
    BY <1>11, WrittenFields
  <1>13. /\ Unbounded(schema) /\ schema.anyOf = {} /\ schema.not = {} /\ schema.enum = {}
         /\ schema.type = ParamTypeSchema(WireType(shape)).type
         /\ schema.items = {} /\ schema.additional = {} /\ schema.oneOf = {} /\ schema.allOf = {}
         /\ schema.properties = properties /\ schema.required = {key}
    BY <1>12 DEF FieldsWritten, properties
  <1>14. /\ key \in DOMAIN properties /\ properties[key] = OneOfTexts(values)
    BY DEF properties, DiscriminatorSwaggerProperties
  <1>15. \A name \in DOMAIN rest.fields : properties[name] = plain.properties[name]
    BY <1>7, <1>9, <1>10, UnionProperty DEF properties, plain
  <1>16. Validates[<<properties[key], raw.fields[key]>>]
    <2>1. /\ key \in DOMAIN raw.fields /\ raw.fields[key].json = "string"
          /\ raw.fields[key].text \in values
      BY <1>4 DEF SaysOneOf
    <2>2. properties[key] \in Schemas
      BY <1>11, <1>13, <1>14, SchemaInside DEF SchemasIn
    <2>3. raw.fields[key] \in Values
      BY <1>2, <2>1, FoundIn
    <2> HIDE DEF values
    <2> QED
      BY <1>14, <2>1, <2>2, <2>3, TextsValid
  <1>17. ValidatesObject(Validates, schema, raw.fields)
    <2>1. schema.required \subseteq DOMAIN raw.fields
      BY <1>4, <1>13 DEF SaysOneOf
    <2>2. \A name \in DOMAIN raw.fields : Validates[<<properties[name], raw.fields[name]>>]
      BY <1>7, <1>10, <1>15, <1>16
    <2> QED
      BY <1>13, <2>1, <2>2 DEF ValidatesObject
  <1>18. HasType(schema.type, raw)
    BY <1>2, <1>13, TypeWritten
  <1>19. /\ EnumAsks(schema, raw) /\ ObjectAsks(schema, raw) /\ ItemsAsk(schema, raw)
         /\ OneOfAsks(schema, raw) /\ AllOfAsks(schema, raw)
    BY <1>13, <1>17 DEF EnumAsks, ObjectAsks, ItemsAsk, OneOfAsks, AllOfAsks
  <1>20. Validates[<<schema, raw>>]
    BY <1>11, <1>13, <1>18, <1>19, ValidUnbounded
  <1> QED
    BY <1>20 DEF schema

-----------------------------------------------------------------------------
\* What the documents say of a shape, for all it is built from.
Documented(shape) ==
    /\ Accepting(FromParamShape, shape)
    /\ Refusing(FromParamShape, shape)
    /\ SwaggerExact(shape) => Accepting(FromParamShapeSwagger2, shape)

LEMMA KindDocumented ==
    ASSUME NEW shape \in Shapes, Usable(shape), Describable(shape),
           \A inner \in ShapesIn(shape) : Documented(inner)
    PROVE  Documented(shape)
  <1> DEFINE from == FromParamShape
             gateway == FromParamShapeSwagger2
  <1>1. Writes("openapi31", from) /\ Writes("swagger2", gateway)
    BY BothWrite
  <1>2. /\ shape \in Parts[shape]
        /\ \A inner \in ShapesIn(shape) : Parts[inner] \subseteq Parts[shape]
        /\ \A inner \in ShapesIn(shape) : inner \in Parts[shape]
    BY PartsOfShape, ShapeInside
  <1>3. Builds(shape) /\ (shape.kind = "variants" => NormalizesVariants(shape))
    BY <1>2 DEF Usable
  <1>4. \A inner \in ShapesIn(shape) : /\ Accepting(from, inner) /\ Refusing(from, inner)
                                       /\ SwaggerExact(shape) => Accepting(gateway, inner)
    BY <1>2 DEF Documented, SwaggerExact
  <1> HIDE DEF from, gateway
  <1>5. Accepting(from, shape) /\ Refusing(from, shape)
           /\ (SwaggerExact(shape) => Accepting(gateway, shape))
    <2>1. CASE shape.kind = "object"
      <3>1. \A i \in DOMAIN shape.params : Bounded(shape.params[i])
        BY <1>2, <1>3, <2>1 DEF Builds, Describable, Bounded
      <3> QED
        BY <1>1, <1>3, <1>4, <2>1, <3>1, ObjectTold
    <2>2. CASE shape.kind = "variants"
      <3>1. \A inner \in ShapesIn(shape) :
               /\ inner.kind \in {"object", "map"} /\ Builds(inner)
               /\ shape.discriminator \notin NamesRead[inner]
        BY <1>2, <2>2 DEF Describable, OmitsDiscriminator, Usable
      <3>2. SwaggerExact(shape) => Unites(gateway, shape)
        BY <1>2, <2>2 DEF SwaggerExact, Unites, gateway
      <3> QED
        BY <1>1, <1>3, <1>4, <2>2, <3>1, <3>2, VariantsTold, UnionAccepts
    <2>3. CASE shape.kind = "array"
      BY <1>1, <1>4, <2>3, BuiltFrom, ArrayTold
    <2>4. CASE shape.kind = "map"
      BY <1>1, <1>4, <2>4, BuiltFrom, MapTold
    <2>5. CASE shape.kind = "enum"
      BY <1>1, <1>3, <2>5, EnumTold
    <2>6. CASE shape.kind \notin {"object", "map", "variants", "array", "enum"}
      BY <1>1, <2>6, ScalarTold
    <2> QED
      BY <2>1, <2>2, <2>3, <2>4, <2>5, <2>6
  <1> QED
    BY <1>5 DEF Documented, from, gateway

LEMMA AllDocumented ==
    ASSUME NEW shape \in Shapes, Usable(shape), Describable(shape)
    PROVE  Documented(shape)
  <1> DEFINE Good == {s \in Shapes : Usable(s) /\ Describable(s) => Documented(s)}
  <1>1. ASSUME NEW s \in Shapes,
               \A x \in Shapes : ShapeDepth[x] < ShapeDepth[s] => x \in Good
        PROVE  s \in Good
    <2> SUFFICES ASSUME Usable(s), Describable(s) PROVE Documented(s)
      OBVIOUS
    <2>1. /\ s \in Parts[s]
          /\ \A inner \in ShapesIn(s) : Parts[inner] \subseteq Parts[s]
      BY PartsOfShape
    <2>2. \A inner \in ShapesIn(s) : Usable(inner) /\ Describable(inner)
      BY <2>1 DEF Usable, Describable, OmitsDiscriminator
    <2>3. \A inner \in ShapesIn(s) : Documented(inner)
      BY <1>1, <2>2, ShapeInside
    <2> QED
      BY <2>3, KindDocumented
  <1>2. Good \subseteq Shapes
    OBVIOUS
  <1> HIDE DEF Good
  <1>3. Good = Shapes
    BY <1>1, <1>2, ShapesRank, Everywhere
  <1> QED
    BY <1>3 DEF Good

\* For every definition, however deep, and every body that is sent alone: what
\* passes the checks of the parser validates against the OpenAPI 3.1 schema of
\* the definition, what fails them does not, and what passes is never refused
\* by the document of the gateway, as far as the property asks of each.
THEOREM AloneAsDocumented ==
    ASSUME \A v, w \in Workers : v = w
    PROVE  Spec => []DocumentsDescribeTheParser
  <1>1. ASSUME Typed, Alone, WellFormed, Describable(definition), NEW w \in Workers, Parsed(w),
               Portable[workers[w].body], SeesAll(definition, workers[w].caller)
        PROVE  LET outcome == workers[w].outcome
                   body == workers[w].body
                   own == [paths |-> {<<>>}, code |-> "parse_failed"]
                   passed == \/ outcome.kind = "accepted"
                             \/ outcome.kind = "rejected" /\ outcome.error = own
                   failed == /\ outcome.kind = "rejected"
                             /\ outcome.error.code \notin {"unexpected", "parse_failed"}
               IN /\ passed => Validates[<<FromParamShape[definition], body>>]
                  /\ failed => ~ Validates[<<FromParamShape[definition], body>>]
                  /\ passed /\ SwaggerExact(definition) =>
                         Validates[<<FromParamShapeSwagger2[definition], body>>]
    <2> DEFINE outcome == workers[w].outcome
               body == workers[w].body
               caller == workers[w].caller
               errors == ErrorsOf(w, Declared(definition))
               passed == \/ outcome.kind = "accepted"
                         \/ outcome.kind = "rejected" /\ outcome.error = Own
               failed == outcome.kind = "rejected" /\ Tells(outcome.error)
    <2>1. definition \in Shapes /\ definition.kind \in {"object", "variants"}
      BY <1>1, BodiesAssumption DEF Typed
    <2>2. body \in Values /\ body.json = "object" /\ caller \in Calling
      BY <1>1, BodiesAssumption DEF Typed, Parsed
    <2>3. Usable(definition)
      BY <1>1 DEF Typed, Defines, WellFormed, Usable
    <2>4. errors = ParseShape[<<definition, body, caller>>]
      BY <2>1, <2>2, WholeParse DEF ErrorsOf
    <2>5. outcome \in Results(errors)
      BY <1>1 DEF Alone, Solo
    <2>6. (passed => Passes(errors)) /\ (failed => Refuses(errors))
      <3> HIDE DEF outcome, errors
      <3> QED
        BY <2>5 DEF Results, Passes, Refuses
    <2>7. Documented(definition)
      BY <1>1, <2>1, <2>3, AllDocumented
    <2>8. Sendable(definition, body, caller)
      BY <1>1 DEF Sendable
    <2> HIDE DEF outcome, body, caller, errors
    <2>9. /\ passed => Validates[<<FromParamShape[definition], body>>]
          /\ failed => ~ Validates[<<FromParamShape[definition], body>>]
          /\ passed /\ SwaggerExact(definition) =>
                 Validates[<<FromParamShapeSwagger2[definition], body>>]
      BY <2>2, <2>4, <2>6, <2>7, <2>8 DEF Documented, Accepting, Refusing
    <2> QED
      BY <2>9 DEF outcome, body, Own, Tells
  <1>2. Typed /\ Alone => DocumentsDescribeTheParser
    BY <1>1 DEF DocumentsDescribeTheParser
  <1> QED
    BY <1>2, AloneAlways, PTL
=============================================================================
