---------------------------- MODULE ResponseShapes ----------------------------
(***************************************************************************)
(* Response shapes (response/), the projection schema derived from them    *)
(* (request/projection_shape.go) and what a value renders to.              *)
(*                                                                         *)
(* A shape has its kind in "kind": "scalar", "untyped", "array" and "map"  *)
(* (item), "object" (attributes) and "envelope" (attributes, rules: sets   *)
(* of names of which exactly one is emitted).  An attribute is a record    *)
(* [name, required, availability, shape].  A value has "fields", a         *)
(* function from the names that are not nil, if it is an object, and       *)
(* "items", a sequence, if it is an array or a map.  Keys of maps are left *)
(* out, and so are the scalars rendered: a rendering is the set of paths   *)
(* it has.                                                                 *)
(***************************************************************************)
EXTENDS Callers, Integers, SequencesExt

CONSTANTS
    Shapes,         \* the response shapes, those inside of others included
    Values,         \* the values, those inside of others included
    ShapeDepth,     \* how deep each shape is nested
    ValueDepth,     \* how deep each value is nested
    Typed           \* the pairs <<shape, value>> of a shape and a value of its Go type

PropertyName == STRING
Paths == Seq(PropertyName)

AttributesOf(shape) == ToSet(shape.attributes)
Names(shape) == {attribute.name : attribute \in AttributesOf(shape)}
IsObject(shape) == shape.kind \in {"object", "envelope"}
IsList(shape) == shape.kind \in {"array", "map"}

\* What Object, Envelope and ExactlyOneOf panic about otherwise.
DefinesShape(shape) ==
    /\ \A i, j \in DOMAIN shape.attributes :
          shape.attributes[i].name = shape.attributes[j].name => i = j
    /\ shape.kind = "envelope" =>
          /\ shape.attributes # <<>>
          /\ \A rule \in shape.rules : Cardinality(rule) >= 2 /\ rule \subseteq Names(shape)

\* A shape is made of shapes that were made before it.
ASSUME ShapesAssumption ==
    /\ ShapeDepth \in [Shapes -> Nat]
    /\ \A shape \in Shapes :
          /\ IsList(shape) => shape.item \in Shapes /\ ShapeDepth[shape.item] < ShapeDepth[shape]
          /\ IsObject(shape) =>
                /\ DefinesShape(shape)
                /\ \A attribute \in AttributesOf(shape) :
                      /\ attribute.name \in PropertyName
                      /\ attribute.availability \in CallerSets
                      /\ attribute.shape \in Shapes
                      /\ ShapeDepth[attribute.shape] < ShapeDepth[shape]

ASSUME ValuesAssumption ==
    /\ ValueDepth \in [Values -> Nat]
    /\ \A value \in Values :
        /\ "items" \in DOMAIN value =>
              \A i \in DOMAIN value.items :
                  /\ value.items[i] \in Values
                  /\ ValueDepth[value.items[i]] < ValueDepth[value]
        /\ "fields" \in DOMAIN value =>
              /\ DOMAIN value.fields \subseteq PropertyName
              /\ \A name \in DOMAIN value.fields :
                    /\ value.fields[name] \in Values
                    /\ ValueDepth[value.fields[name]] < ValueDepth[value]

\* A value has what its type says: the items or the fields of its shape.
HasType(shape, value) ==
    /\ shape.kind # "untyped"
    /\ IsList(shape) =>
          /\ "items" \in DOMAIN value
          /\ \A i \in DOMAIN value.items : <<shape.item, value.items[i]>> \in Typed
    /\ IsObject(shape) =>
          /\ "items" \notin DOMAIN value /\ "fields" \in DOMAIN value
          /\ DOMAIN value.fields \subseteq Names(shape)
          /\ \A attribute \in AttributesOf(shape) :
                attribute.name \in DOMAIN value.fields =>
                    <<attribute.shape, value.fields[attribute.name]>> \in Typed

ASSUME TypedAssumption ==
    /\ Typed \subseteq Shapes \X Values
    /\ \A pair \in Typed : HasType(pair[1], pair[2])


-----------------------------------------------------------------------------
(***************************************************************************)
(* The schema: a set of resources <<name, node>>.  A node has the callers  *)
(* that see it, and its children by name: it is kept as the set of its     *)
(* paths <<path, callers>>, <<>> the path to the node itself.              *)
(***************************************************************************)
\* projectionObjectShape: what an array or a map is made of.
ProjectionObjectShape[shape \in Shapes] ==
    IF IsList(shape) THEN ProjectionObjectShape[shape.item] ELSE shape

\* The paths of what is inside, seen from around it.
Under(name, node) == {<<<<name>> \o entry[1], entry[2]>> : entry \in node}

BuildNode[at \in Shapes \X CallerSets] ==
    LET shape == at[1]
        availability == at[2]
    IN {<<<<>>, availability>>} \cup
          (IF ~ IsObject(shape) THEN {}
           ELSE UNION {Under(attribute.name,
                             BuildNode[<<ProjectionObjectShape[attribute.shape],
                                         Intersect(availability, attribute.availability)>>])
                       : attribute \in AttributesOf(shape)})

\* Every attribute that holds objects is a resource, at any depth.
IndexResources[at \in Shapes \X CallerSets] ==
    LET shape == at[1]
        availability == at[2]
    IN IF ~ IsObject(shape) THEN {}
       ELSE UNION {LET seen == Intersect(availability, attribute.availability)
                       object == ProjectionObjectShape[attribute.shape]
                   IN IF ~ IsObject(object) THEN {}
                      ELSE {<<attribute.name, BuildNode[<<object, seen>>]>>}
                               \cup IndexResources[<<object, seen>>]
                   : attribute \in AttributesOf(shape)}

\* Contracts of a successful, typed JSON body describe what may be selected.
Projectable(contract) ==
    contract.status \in 200 .. 299 /\ contract.json /\ contract.body.kind # "untyped"

DeriveSchema(contracts) ==
    UNION {IndexResources[<<ProjectionObjectShape[contract.body], Unrestricted>>] :
              contract \in {c \in ToSet(contracts) : Projectable(c)}}

\* Every node on the way to a path is there, and visible.
PathAvailableTo(node, path, caller) ==
    \A n \in 0 .. Len(path) :
        \E entry \in node : entry[1] = SubSeq(path, 1, n) /\ Allows(entry[2], caller)

NodeVisibleTo(node, caller) == PathAvailableTo(node, <<>>, caller)

\* A projection is a function from resources to [mode, paths].
Validates(schema, projection, caller) ==
    \A resource \in DOMAIN projection :
        LET roots == {root[2] : root \in {s \in schema : s[1] = resource}}
        IN /\ \E root \in roots : NodeVisibleTo(root, caller)
           /\ \A path \in projection[resource].paths :
                 \E root \in roots : PathAvailableTo(root, path, caller)

-----------------------------------------------------------------------------
(***************************************************************************)
(* Rendering for context [caller, projection].  The scopes are the         *)
(* resources one is in, each with the path from it.                        *)
(***************************************************************************)
Scopes == SUBSET [name : PropertyName, path : Paths]

Includes(selection, path) ==
    IF selection.mode = "pick"
    THEN \E picked \in selection.paths : IsPrefix(path, picked) \/ IsPrefix(picked, path)
    ELSE \A omitted \in selection.paths : ~ IsPrefix(omitted, path)

IncludesAttribute(context, scopes, name) ==
    \A scope \in scopes :
        scope.name \in DOMAIN context.projection =>
            Includes(context.projection[scope.name], Append(scope.path, name))

\* Mutant: a resource inside another one is only in its own scope.
DescendAfresh(scopes, name) == {[name |-> name, path |-> <<>>]}

Descend(scopes, name) ==
    {[scope EXCEPT !.path = Append(@, name)] : scope \in scopes}
        \cup {[name |-> name, path |-> <<>>]}

\* The attributes a caller may see, and has selected.
Selected(shape, context, scopes) ==
    {attribute \in AttributesOf(shape) : /\ Allows(attribute.availability, context.caller)
                                         /\ IncludesAttribute(context, scopes, attribute.name)}

Emitted(shape, context, scopes, value) ==
    {attribute \in Selected(shape, context, scopes) : attribute.name \in DOMAIN value.fields}

\* An envelope that cannot be rendered panics.
EnvelopePanics(shape, context, scopes, value) ==
    LET emitted == {attribute.name : attribute \in Emitted(shape, context, scopes, value)}
    IN \/ emitted = {}
       \/ \E rule \in shape.rules : Cardinality(rule \cap emitted) # 1
       \/ \E attribute \in Selected(shape, context, scopes) :
             attribute.required /\ attribute.name \notin emitted

\* Rendering panics, and what it renders, at a pair of Typed and in scopes.
Panics(shape, context, value) ==
    LET At[at \in Typed \X Scopes] ==
            LET part == at[1][1]
                held == at[1][2]
                scopes == at[2]
            IN \/ /\ IsList(part)
                  /\ \E i \in DOMAIN held.items : At[<<<<part.item, held.items[i]>>, scopes>>]
               \/ part.kind = "envelope" /\ EnvelopePanics(part, context, scopes, held)
               \/ /\ IsObject(part)
                  /\ \E attribute \in Emitted(part, context, scopes, held) :
                        At[<<<<attribute.shape, held.fields[attribute.name]>>,
                             Descend(scopes, attribute.name)>>]
    IN At[<<<<shape, value>>, {}>>]

Project(shape, context, value) ==
    LET At[at \in Typed \X Scopes] ==
            LET part == at[1][1]
                held == at[1][2]
                scopes == at[2]
            IN IF IsList(part)
               THEN UNION {At[<<<<part.item, held.items[i]>>, scopes>>] : i \in DOMAIN held.items}
               ELSE IF IsObject(part)
               THEN UNION {LET inner == At[<<<<attribute.shape, held.fields[attribute.name]>>,
                                             Descend(scopes, attribute.name)>>]
                           IN {<<attribute.name>> \o path : path \in inner \cup {<<>>}}
                           : attribute \in Emitted(part, context, scopes, held)}
               ELSE {}
    IN At[<<<<shape, value>>, {}>>]
=============================================================================
