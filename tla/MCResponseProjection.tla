------------------------- MODULE MCResponseProjection -------------------------
(***************************************************************************)
(* An endpoint whose two successful contracts have an "order" each, one of *)
(* them with items only an admin sees, and an error; and one with a map of *)
(* orders that is for admins.  The second request only selects one thing,  *)
(* to be there while the first compiles the schema.                        *)
(***************************************************************************)
EXTENDS ResponseProjection

CONSTANTS public, admin

MCTrim == [t \in {"order", "items", "id", "cost", "items.cost", "order.id", "", "a b",
                  "error", "total"} |-> t] @@ (" order" :> "order") @@ (" id" :> "id")
MCSegments ==
    [n \in {"order", "items", "id", "cost", "error", "total"} |-> <<n>>]
    @@ ("items.cost" :> <<"items", "cost">>) @@ ("order.id" :> <<"order", "id">>)

Scalar == [kind |-> "scalar"]
ArrayOf(shape) == [kind |-> "array", item |-> shape]
MapOf(shape) == [kind |-> "map", item |-> shape]
Object(attributes) == [kind |-> "object", attributes |-> attributes]
Envelope(attributes, rules) ==
    [kind |-> "envelope", attributes |-> attributes, rules |-> rules]
Optional(name, shape) ==
    [name |-> name, required |-> FALSE, availability |-> Unrestricted, shape |-> shape]
Required(name, shape) == [Optional(name, shape) EXCEPT !.required = TRUE]
ForAdmin(attribute) == [attribute EXCEPT !.availability = SetOf({admin})]
Contract(status, json, body) == [status |-> status, json |-> json, body |-> body]

Item == Object(<<Required("id", Scalar), ForAdmin(Optional("cost", Scalar))>>)
Order == Object(<<Required("id", Scalar), Optional("items", ArrayOf(Item)),
                  ForAdmin(Optional("order", Object(<<Required("id", Scalar)>>)))>>)

MCEndpoints ==
    {<<Contract(200, TRUE, Envelope(<<Required("order", Order), Optional("total", Scalar)>>, {})),
       Contract(201, TRUE, Envelope(<<Optional("order", Object(<<Optional("cost", Scalar)>>)),
                                      Optional("total", Item)>>, {{"order", "total"}})),
       Contract(400, TRUE, Object(<<Required("error", Item)>>)),
       Contract(200, FALSE, [kind |-> "untyped"])>>,
     <<Contract(200, TRUE, Object(<<ForAdmin(Optional("items", MapOf(Order)))>>))>>}

Absent == [json |-> "null"]
Text(text) == [json |-> "string", text |-> text]
Items(items) == [json |-> "array", items |-> items]
Fields(fields) == [json |-> "object", fields |-> fields]
Select(mode, texts) ==
    Fields(mode :> Items([i \in DOMAIN texts |-> Text(texts[i])]))
Body(meta) == Fields("request_meta" :> meta)
Projecting(fields) ==
    Body(Fields("response" :> Fields("projection" :> Fields(fields))))

WellFormed ==
    {Projecting("order" :> selection) :
        selection \in {Select(mode, paths) : mode \in {"pick", "omit"},
                          paths \in {<<"id">>, <<"items">>, <<"items.cost">>, <<" id", "cost">>,
                                     <<"order.id">>, <<"order">>}}}
    \cup {Projecting(("order" :> Select("omit", <<"id">>)) @@ ("items" :> selection)) :
             selection \in {Select("pick", <<"id">>), Select("omit", <<"cost">>),
                            Select("pick", <<"order", "items">>)}}
    \cup {Projecting("error" :> Select("pick", <<"id">>)),
          Projecting("total" :> Select("pick", <<"id">>)),
          Projecting(" order" :> Select("pick", <<"items">>))}

Malformed ==
    {[json |-> "array"], [json |-> "plain"], Body(Absent), Body(Text("id")),
     Body(Fields("idempotency_key" :> [json |-> "number"])),
     Body(Fields("response" :> Text("id"))),
     Body(Fields("response" :> Fields("projection" :> Text("id")))),
     Projecting("order" :> Absent), Projecting("a b" :> Select("pick", <<"id">>)),
     Projecting("order" :> Fields("keep" :> Items(<<>>))),
     Projecting("order" :> Fields(("pick" :> Items(<<>>)) @@ ("omit" :> Items(<<>>)))),
     Projecting("order" :> Fields(<<>>)), Projecting("order" :> Fields("pick" :> Absent)),
     Projecting("order" :> Fields("pick" :> Items(<<Absent>>))),
     Projecting("order" :> Fields("pick" :> Text("id"))),
     Projecting("order" :> Select("omit", <<"id", " id">>)),
     Projecting(("order" :> Select("omit", <<"id">>)) @@ (" order" :> Select("omit", <<"id">>)))}

MCPolicy == <<<<admin, public>>>>

MCBodies == (1 :> (WellFormed \cup Malformed)) @@
            (2 :> {Projecting("order" :> Select("pick", <<"id">>))})

Thing(fields) == [fields |-> fields]
Things(items) == [items |-> items]
Leaf == [leaf |-> TRUE]
AnItem == Thing(("id" :> Leaf) @@ ("cost" :> Leaf))
AnOrder == Thing(("id" :> Leaf) @@ ("items" :> Things(<<AnItem, Thing("id" :> Leaf)>>))
                   @@ ("order" :> Thing("id" :> Leaf)))

\* What a handler may have for the body of a contract.
Responses ==
    {Thing(("order" :> AnOrder) @@ ("total" :> Leaf)), Thing("total" :> Leaf),
     Thing("items" :> Things(<<AnOrder>>)), Thing("total" :> AnItem),
     Thing(("order" :> Thing("cost" :> Leaf)) @@ ("total" :> AnItem))}

\* What a shape is made of, a value, and a pair of them.
ShapesIn(shape) ==
    CASE IsList(shape) -> {shape.item}
      [] IsObject(shape) -> {attribute.shape : attribute \in AttributesOf(shape)}
      [] OTHER -> {}

ValuesIn(value) ==
    CASE "items" \in DOMAIN value -> ToSet(value.items)
      [] "fields" \in DOMAIN value -> Range(value.fields)
      [] OTHER -> {}

PairsIn(shape, value) ==
    CASE IsList(shape) -> {<<shape.item, v>> : v \in ToSet(value.items)}
      [] IsObject(shape) ->
            {<<attribute.shape, value.fields[attribute.name]>> :
                attribute \in {a \in AttributesOf(shape) : a.name \in DOMAIN value.fields}}
      [] OTHER -> {}

BodyShapes == UNION {{endpoint[i].body : i \in DOMAIN endpoint} : endpoint \in MCEndpoints}

WithShapesIn(shapes) == shapes \cup UNION {ShapesIn(s) : s \in shapes}
WithValuesIn(values) == values \cup UNION {ValuesIn(v) : v \in values}

\* Nothing is nested deeper here.
ShapesHere == WithShapesIn(WithShapesIn(WithShapesIn(WithShapesIn(WithShapesIn(BodyShapes)))))
ValuesHere == WithValuesIn(WithValuesIn(WithValuesIn(WithValuesIn(Responses))))

MCShapeDepth[shape \in ShapesHere] == Max({0} \cup {MCShapeDepth[s] + 1 : s \in ShapesIn(shape)})
MCValueDepth[value \in ValuesHere] == Max({0} \cup {MCValueDepth[v] + 1 : v \in ValuesIn(value)})

\* A value has the type of a shape.
IsOf[pair \in ShapesHere \X ValuesHere] ==
    LET shape == pair[1]
        value == pair[2]
    IN /\ CASE IsList(shape) -> "items" \in DOMAIN value
            [] IsObject(shape) ->
                  "fields" \in DOMAIN value /\ DOMAIN value.fields \subseteq Names(shape)
            [] OTHER -> shape.kind = "scalar" /\ value = Leaf
       /\ \A inner \in PairsIn(shape, value) : IsOf[inner]

TypedHere == {pair \in ShapesHere \X ValuesHere : IsOf[pair]}

\* TLC evaluates each of the above once.
MCShapes == ShapesHere
MCValues == ValuesHere
MCTyped == TypedHere
=============================================================================
