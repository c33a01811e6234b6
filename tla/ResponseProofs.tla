---------------------------- MODULE ResponseProofs ----------------------------
(***************************************************************************)
(* A selection is let in if and only if it names what the caller may see,  *)
(* and a response has what was selected and nothing else, for all shapes,  *)
(* values, selections and callers: the schema and the rendering, which are *)
(* made step by step, are compared with what spec/v0.2.md says of a whole  *)
(* path.                                                                   *)
(***************************************************************************)
EXTENDS ResponseProjection, ProofFacts, TLAPS

-----------------------------------------------------------------------------
(***************************************************************************)
(* Shapes and what they are made of.                                       *)
(***************************************************************************)
LEMMA ShapesRank == ShapeDepth \in [Shapes -> Nat]
  BY ShapesAssumption

LEMMA Inside ==
    ASSUME NEW shape \in Shapes
    PROVE  /\ ShapeDepth[shape] \in Nat
           /\ IsList(shape) => shape.item \in Shapes /\ ShapeDepth[shape.item] < ShapeDepth[shape]
           /\ IsObject(shape) => ~ IsList(shape)
           /\ IsObject(shape) =>
                 \A attribute \in AttributesOf(shape) :
                    /\ attribute.name \in PropertyName
                    /\ attribute.availability \in CallerSets
                    /\ attribute.shape \in Shapes
                    /\ ShapeDepth[attribute.shape] < ShapeDepth[shape]
                    /\ \A other \in AttributesOf(shape) :
                          other.name = attribute.name => other = attribute
  <1>1. IsObject(shape) => ~ IsList(shape)
    BY DEF IsObject, IsList
  <1>2. ASSUME IsObject(shape), NEW attribute \in AttributesOf(shape),
               NEW other \in AttributesOf(shape), other.name = attribute.name
        PROVE  other = attribute
    <2>1. DefinesShape(shape)
      BY <1>2, ShapesAssumption
    <2> QED
      BY <1>2, <2>1 DEF DefinesShape, AttributesOf, ToSet
  <1> QED
    BY <1>1, <1>2, ShapesAssumption

LEMMA ObjectShapeEquation ==
    \A shape \in Shapes :
        ProjectionObjectShape[shape] =
            IF IsList(shape) THEN ProjectionObjectShape[shape.item] ELSE shape
  <1> SUFFICES ASSUME Shapes # {}
               PROVE  ProjectionObjectShape =
                         [shape \in Shapes |->
                             IF IsList(shape) THEN ProjectionObjectShape[shape.item] ELSE shape]
    BY Zenon
  <1> DEFINE D == [at \in [Shapes -> Shapes] \X Shapes |->
                      IF IsList(at[2]) THEN at[1][at[2].item] ELSE at[2]]
  <1>1. \A g \in [Shapes -> Shapes], x \in Shapes :
           D[<<g, x>>] = IF IsList(x) THEN g[x.item] ELSE x
    OBVIOUS
  <1>2. D \in [[Shapes -> Shapes] \X Shapes -> Shapes]
    BY Inside
  <1> HIDE DEF D
  <1>3. LooksLower(Shapes, Shapes, ShapeDepth, D)
    BY <1>1, Inside DEF LooksLower
  <1>4. Recursion(Shapes, Shapes, ShapeDepth, D)
    BY <1>2, <1>3, ShapesRank DEF Recursion
  <1>5. PICK f : Solves(Shapes, Shapes, D, f)
    BY <1>4, RecursiveFunction
  <1>6. f = [shape \in Shapes |-> IF IsList(shape) THEN f[shape.item] ELSE shape]
    BY <1>1, <1>5 DEF Solves
  <1> QED
    BY <1>6 DEF ProjectionObjectShape

LEMMA ObjectShapeIs ==
    ASSUME NEW shape \in Shapes
    PROVE  LET object == ProjectionObjectShape[shape]
           IN /\ object \in Shapes /\ ~ IsList(object)
              /\ ShapeDepth[object] <= ShapeDepth[shape]
              /\ ~ IsList(shape) => object = shape
              /\ ProjectionObjectShape[object] = object
              /\ IsList(shape) => ProjectionObjectShape[shape.item] = object
  <1> DEFINE Good == {s \in Shapes : /\ ProjectionObjectShape[s] \in Shapes
                                     /\ ~ IsList(ProjectionObjectShape[s])
                                     /\ ShapeDepth[ProjectionObjectShape[s]] <= ShapeDepth[s]}
  <1>1. ASSUME NEW s \in Shapes,
               \A inner \in Shapes : ShapeDepth[inner] < ShapeDepth[s] => inner \in Good
        PROVE  s \in Good
    <2>1. CASE IsList(s)
      <3>1. s.item \in Shapes /\ ShapeDepth[s.item] < ShapeDepth[s] /\ s.item \in Good
        BY <1>1, <2>1, Inside
      <3>2. ProjectionObjectShape[s] = ProjectionObjectShape[s.item]
        BY <2>1, ObjectShapeEquation
      <3> QED
        BY <3>1, <3>2, Inside
    <2>2. CASE ~ IsList(s)
      BY <2>2, ObjectShapeEquation, Inside
    <2> QED
      BY <2>1, <2>2
  <1>2. Good \subseteq Shapes
    OBVIOUS
  <1> HIDE DEF Good
  <1>3. Good = Shapes
    BY <1>1, <1>2, ShapesRank, Everywhere
  <1> USE DEF Good
  <1> QED
    BY <1>3, ObjectShapeEquation

\* Every attribute of the objects a shape is made of.
LEMMA InsideObject ==
    ASSUME NEW shape \in Shapes, NEW attribute \in AttributesOf(ProjectionObjectShape[shape]),
           IsObject(ProjectionObjectShape[shape])
    PROVE  /\ attribute.name \in PropertyName
           /\ attribute.availability \in CallerSets
           /\ attribute.shape \in Shapes
           /\ ShapeDepth[attribute.shape] < ShapeDepth[shape]
           /\ ProjectionObjectShape[attribute.shape] \in Shapes
           /\ ShapeDepth[ProjectionObjectShape[attribute.shape]] < ShapeDepth[shape]
           /\ \A other \in AttributesOf(ProjectionObjectShape[shape]) :
                 other.name = attribute.name => other = attribute
  <1> DEFINE object == ProjectionObjectShape[shape]
  <1>1. object \in Shapes /\ ShapeDepth[object] <= ShapeDepth[shape]
        /\ ShapeDepth[object] \in Nat /\ ShapeDepth[shape] \in Nat
    BY ObjectShapeIs, Inside
  <1> HIDE DEF object
  <1>2. attribute \in AttributesOf(object) /\ IsObject(object)
    BY DEF object
  <1>3. /\ attribute.name \in PropertyName /\ attribute.availability \in CallerSets
        /\ attribute.shape \in Shapes
        /\ ShapeDepth[attribute.shape] < ShapeDepth[object]
        /\ \A other \in AttributesOf(object) : other.name = attribute.name => other = attribute
    BY <1>1, <1>2, Inside
  <1>4. ProjectionObjectShape[attribute.shape] \in Shapes
        /\ ShapeDepth[ProjectionObjectShape[attribute.shape]] <= ShapeDepth[attribute.shape]
        /\ ShapeDepth[attribute.shape] \in Nat
        /\ ShapeDepth[ProjectionObjectShape[attribute.shape]] \in Nat
    BY <1>3, ObjectShapeIs, Inside
  <1> QED
    BY <1>1, <1>3, <1>4 DEF object

-----------------------------------------------------------------------------
(***************************************************************************)
(* The recursive functions, as one step of each.                           *)
(***************************************************************************)
Attributes == UNION {AttributesOf(shape) : shape \in {s \in Shapes : IsObject(s)}}

LEMMA PlacesEquation ==
    /\ Places \in [Shapes -> SUBSET (Paths \X Attributes)]
    /\ \A shape \in Shapes :
          Places[shape] =
             IF ~ IsObject(ProjectionObjectShape[shape]) THEN {}
             ELSE UNION {{<<<<attribute.name>>, attribute>>}
                             \cup {<<<<attribute.name>> \o place[1], place[2]>> :
                                      place \in Places[attribute.shape]}
                         : attribute \in AttributesOf(ProjectionObjectShape[shape])}
  <1> DEFINE T == SUBSET (Paths \X Attributes)
             Piece(g, attribute) ==
                {<<<<attribute.name>>, attribute>>}
                   \cup {<<<<attribute.name>> \o place[1], place[2]>> :
                            place \in g[attribute.shape]}
             Body(g, shape) ==
                IF ~ IsObject(ProjectionObjectShape[shape]) THEN {}
                ELSE UNION {Piece(g, attribute) :
                               attribute \in AttributesOf(ProjectionObjectShape[shape])}
             D == [at \in [Shapes -> T] \X Shapes |-> Body(at[1], at[2])]
  <1>1. ASSUME NEW g, NEW shape \in Shapes, IsObject(ProjectionObjectShape[shape]),
               NEW attribute \in AttributesOf(ProjectionObjectShape[shape]),
               g[attribute.shape] \in T
        PROVE  Piece(g, attribute) \in T
    <2>1. attribute.name \in PropertyName /\ attribute \in Attributes
      BY <1>1, InsideObject, ObjectShapeIs DEF Attributes
    <2>2. <<attribute.name>> \in Paths
      BY <2>1 DEF Paths
    <2>3. \A place \in g[attribute.shape] :
             place[1] \in Paths /\ place[2] \in Attributes /\ <<attribute.name>> \o place[1] \in Paths
      BY <1>1, <2>1, Led DEF Paths
    <2>4. <<<<attribute.name>>, attribute>> \in Paths \X Attributes
      BY <2>1, <2>2
    <2>5. {<<<<attribute.name>> \o place[1], place[2]>> : place \in g[attribute.shape]}
             \subseteq Paths \X Attributes
      <3>1. \A place \in g[attribute.shape] :
               <<<<attribute.name>> \o place[1], place[2]>> \in Paths \X Attributes
        BY <2>3
      <3> QED
        BY <3>1, Zenon
    <2> QED
      BY <2>4, <2>5
  <1>2. ASSUME NEW g, NEW shape \in Shapes,
               \A x \in Shapes : ShapeDepth[x] < ShapeDepth[shape] => g[x] \in T
        PROVE  Body(g, shape) \in T
    <2> HIDE DEF Piece, T
    <2>1. ASSUME IsObject(ProjectionObjectShape[shape]),
                 NEW attribute \in AttributesOf(ProjectionObjectShape[shape])
          PROVE  Piece(g, attribute) \in T
      BY <1>1, <1>2, <2>1, InsideObject
    <2> USE DEF T
    <2> QED
      BY <2>1
  <1>3. ASSUME NEW g, NEW h, NEW shape \in Shapes,
               \A x \in Shapes : ShapeDepth[x] < ShapeDepth[shape] => g[x] = h[x]
        PROVE  Body(g, shape) = Body(h, shape)
    <2>1. ASSUME IsObject(ProjectionObjectShape[shape]),
                 NEW attribute \in AttributesOf(ProjectionObjectShape[shape])
          PROVE  Piece(g, attribute) = Piece(h, attribute)
      <3>1. g[attribute.shape] = h[attribute.shape]
        BY <1>3, <2>1, InsideObject
      <3> QED
        BY <3>1
    <2> HIDE DEF Piece
    <2> QED
      BY <2>1
  <1> HIDE DEF Body
  <1>4. \A g \in [Shapes -> T], shape \in Shapes : D[<<g, shape>>] = Body(g, shape)
    BY DEF D
  <1>5. D \in [[Shapes -> T] \X Shapes -> T]
    <2> HIDE DEF T
    <2> QED
      BY <1>2 DEF D
  <1> HIDE DEF D, T
  <1>6. LooksLower(Shapes, T, ShapeDepth, D)
    BY <1>3, <1>4 DEF LooksLower
  <1>7. Recursion(Shapes, T, ShapeDepth, D)
    <2>1. T # {}
      BY DEF T
    <2> QED
      BY <1>5, <1>6, <2>1, ShapesRank DEF Recursion
  <1>8. PICK f : Solves(Shapes, T, D, f)
    BY <1>7, RecursiveFunction
  <1>9. f = [shape \in Shapes |-> Body(f, shape)]
    BY <1>4, <1>8 DEF Solves
  <1>10. Places = [shape \in Shapes |-> Body(Places, shape)]
    BY <1>9 DEF Places, Body, Piece
  <1> DEFINE Good == {shape \in Shapes : Places[shape] \in T}
  <1>11. ASSUME NEW s \in Shapes,
                \A inner \in Shapes : ShapeDepth[inner] < ShapeDepth[s] => inner \in Good
         PROVE  s \in Good
    BY <1>2, <1>10, <1>11
  <1>12. Good \subseteq Shapes
    OBVIOUS
  <1> HIDE DEF Good
  <1>13. Good = Shapes
    BY <1>11, <1>12, ShapesRank, Everywhere
  <1>14. Places \in [Shapes -> T]
    BY <1>10, <1>13 DEF Good
  <1>15. \A shape \in Shapes : Places[shape] = Body(Places, shape)
    BY <1>10
  <1> QED
    BY <1>14, <1>15 DEF T, Body, Piece

LEMMA IntersectIs ==
    ASSUME NEW set \in CallerSets, NEW other \in CallerSets
    PROVE  /\ Intersect(set, other) \in CallerSets
           /\ \A caller : Allows(Intersect(set, other), caller) <=>
                             Allows(set, caller) /\ Allows(other, caller)
  BY DEF Intersect, CallerSets, Allows

\* What nodes are built for: a shape, and the callers that see it.
Nodes == Shapes \X CallerSets

LEMMA NodeOf ==
    ASSUME NEW at \in Nodes
    PROVE  at[1] \in Shapes /\ at[2] \in CallerSets
  BY DEF Nodes

\* The shape and the callers that the node of an attribute is built for.
Child(at, attribute) ==
    <<ProjectionObjectShape[attribute.shape], Intersect(at[2], attribute.availability)>>

\* How deep the shape of a node is nested.
NodeDepth == [at \in Nodes |-> ShapeDepth[at[1]]]

LEMMA NodesRank == NodeDepth \in [Nodes -> Nat]
  BY ShapesRank DEF NodeDepth, Nodes

LEMMA InsideNode ==
    ASSUME NEW at \in Nodes, IsObject(at[1]), NEW attribute \in AttributesOf(at[1])
    PROVE  /\ attribute.name \in PropertyName
           /\ attribute.availability \in CallerSets
           /\ attribute.shape \in Shapes
           /\ Child(at, attribute) \in Nodes
           /\ NodeDepth[Child(at, attribute)] < NodeDepth[at]
  <1>1. at[1] \in Shapes /\ at[2] \in CallerSets /\ ProjectionObjectShape[at[1]] = at[1]
    BY Inside, ObjectShapeIs, NodeOf
  <1>2. /\ attribute.name \in PropertyName /\ attribute.availability \in CallerSets
        /\ attribute.shape \in Shapes
        /\ ProjectionObjectShape[attribute.shape] \in Shapes
        /\ ShapeDepth[ProjectionObjectShape[attribute.shape]] < ShapeDepth[at[1]]
    BY <1>1, InsideObject
  <1>3. Intersect(at[2], attribute.availability) \in CallerSets
    BY <1>1, <1>2, IntersectIs
  <1> QED
    BY <1>1, <1>2, <1>3 DEF Child, NodeDepth, Nodes

LEMMA BuildNodeEquation ==
    /\ BuildNode \in [Nodes -> SUBSET (Paths \X CallerSets)]
    /\ \A at \in Nodes :
          BuildNode[at] =
             {<<<<>>, at[2]>>} \cup
                (IF ~ IsObject(at[1]) THEN {}
                 ELSE UNION {Under(attribute.name, BuildNode[Child(at, attribute)])
                             : attribute \in AttributesOf(at[1])})
  <1> DEFINE T == SUBSET (Paths \X CallerSets)
             Piece(g, at, attribute) == Under(attribute.name, g[Child(at, attribute)])
             Body(g, at) ==
                {<<<<>>, at[2]>>} \cup
                   (IF ~ IsObject(at[1]) THEN {}
                    ELSE UNION {Piece(g, at, attribute) : attribute \in AttributesOf(at[1])})
             D == [pair \in [Nodes -> T] \X Nodes |->
                      Body(pair[1], pair[2])]
  <1>1. ASSUME NEW g, NEW at \in Nodes, IsObject(at[1]),
               NEW attribute \in AttributesOf(at[1]), g[Child(at, attribute)] \in T
        PROVE  Piece(g, at, attribute) \in T
    <2>1. attribute.name \in PropertyName
      BY <1>1, InsideNode
    <2>2. \A entry \in g[Child(at, attribute)] :
             <<<<attribute.name>> \o entry[1], entry[2]>> \in Paths \X CallerSets
      BY <1>1, <2>1, Led DEF Paths
    <2> QED
      BY <2>2, Zenon DEF Under
  <1>2. ASSUME NEW g, NEW at \in Nodes,
               \A x \in Nodes : NodeDepth[x] < NodeDepth[at] => g[x] \in T
        PROVE  Body(g, at) \in T
    <2> HIDE DEF Piece, T
    <2>1. ASSUME IsObject(at[1]), NEW attribute \in AttributesOf(at[1])
          PROVE  Piece(g, at, attribute) \in T
      BY <1>1, <1>2, <2>1, InsideNode
    <2> USE DEF T
    <2>2. <<<<>>, at[2]>> \in Paths \X CallerSets
      <3>1. <<>> \in Paths /\ at[2] \in CallerSets
        BY NodeOf DEF Paths
      <3> QED
        BY <3>1
    <2> QED
      BY <2>1, <2>2
  <1>3. ASSUME NEW g, NEW h, NEW at \in Nodes,
               \A x \in Nodes : NodeDepth[x] < NodeDepth[at] => g[x] = h[x]
        PROVE  Body(g, at) = Body(h, at)
    <2>1. ASSUME IsObject(at[1]), NEW attribute \in AttributesOf(at[1])
          PROVE  Piece(g, at, attribute) = Piece(h, at, attribute)
      <3>1. g[Child(at, attribute)] = h[Child(at, attribute)]
        BY <1>3, <2>1, InsideNode
      <3> QED
        BY <3>1
    <2> HIDE DEF Piece
    <2> QED
      BY <2>1
  <1> HIDE DEF Body
  <1>4. \A g \in [Nodes -> T], at \in Nodes : D[<<g, at>>] = Body(g, at)
    BY DEF D
  <1>5. D \in [[Nodes -> T] \X Nodes -> T]
    <2> HIDE DEF T
    <2> QED
      BY <1>2 DEF D
  <1> HIDE DEF D, T
  <1>6. LooksLower(Nodes, T, NodeDepth, D)
    BY <1>3, <1>4 DEF LooksLower
  <1>7. Recursion(Nodes, T, NodeDepth, D)
    <2>1. T # {}
      BY DEF T
    <2> QED
      BY <1>5, <1>6, <2>1, NodesRank DEF Recursion
  <1>8. PICK f : Solves(Nodes, T, D, f)
    BY <1>7, RecursiveFunction
  <1>9. f = [at \in Nodes |-> Body(f, at)]
    BY <1>4, <1>8 DEF Solves
  <1>10. BuildNode = [at \in Nodes |-> Body(BuildNode, at)]
    BY <1>9, ZenonT(60) DEF BuildNode, Body, Piece, Child, Nodes
  <1> DEFINE Good == {at \in Nodes : BuildNode[at] \in T}
  <1>11. ASSUME NEW s \in Nodes,
                \A inner \in Nodes : NodeDepth[inner] < NodeDepth[s] => inner \in Good
         PROVE  s \in Good
    BY <1>2, <1>10, <1>11
  <1>12. Good \subseteq Nodes
    OBVIOUS
  <1> HIDE DEF Good
  <1>13. Good = Nodes
    BY <1>11, <1>12, NodesRank, Everywhere
  <1>14. BuildNode \in [Nodes -> T]
    BY <1>10, <1>13 DEF Good
  <1>15. \A at \in Nodes : BuildNode[at] = Body(BuildNode, at)
    BY <1>10
  <1> QED
    BY <1>14, <1>15 DEF T, Body, Piece

IndexEquation(at, attribute) ==
    IF ~ IsObject(ProjectionObjectShape[attribute.shape]) THEN {}
    ELSE {<<attribute.name, BuildNode[Child(at, attribute)]>>}
             \cup IndexResources[Child(at, attribute)]

LEMMA IndexResourcesEquation ==
    /\ IndexResources \in [Nodes ->
                              SUBSET (PropertyName \X SUBSET (Paths \X CallerSets))]
    /\ \A at \in Nodes :
          IndexResources[at] =
             IF ~ IsObject(at[1]) THEN {}
             ELSE UNION {IndexEquation(at, attribute) : attribute \in AttributesOf(at[1])}
  <1> DEFINE T == SUBSET (PropertyName \X SUBSET (Paths \X CallerSets))
             Piece(g, at, attribute) ==
                IF ~ IsObject(ProjectionObjectShape[attribute.shape]) THEN {}
                ELSE {<<attribute.name, BuildNode[Child(at, attribute)]>>}
                         \cup g[Child(at, attribute)]
             Body(g, at) ==
                IF ~ IsObject(at[1]) THEN {}
                ELSE UNION {Piece(g, at, attribute) : attribute \in AttributesOf(at[1])}
             D == [pair \in [Nodes -> T] \X Nodes |->
                      Body(pair[1], pair[2])]
  <1>1. ASSUME NEW g, NEW at \in Nodes, IsObject(at[1]),
               NEW attribute \in AttributesOf(at[1]), g[Child(at, attribute)] \in T
        PROVE  Piece(g, at, attribute) \in T
    <2>1. /\ attribute.name \in PropertyName
          /\ BuildNode[Child(at, attribute)] \in SUBSET (Paths \X CallerSets)
      BY <1>1, InsideNode, BuildNodeEquation
    <2>2. <<attribute.name, BuildNode[Child(at, attribute)]>>
             \in PropertyName \X SUBSET (Paths \X CallerSets)
      BY <2>1
    <2> QED
      BY <1>1, <2>2
  <1>2. ASSUME NEW g, NEW at \in Nodes,
               \A x \in Nodes : NodeDepth[x] < NodeDepth[at] => g[x] \in T
        PROVE  Body(g, at) \in T
    <2> HIDE DEF Piece, T
    <2>1. ASSUME IsObject(at[1]), NEW attribute \in AttributesOf(at[1])
          PROVE  Piece(g, at, attribute) \in T
      BY <1>1, <1>2, <2>1, InsideNode
    <2> USE DEF T
    <2> QED
      BY <2>1
  <1>3. ASSUME NEW g, NEW h, NEW at \in Nodes,
               \A x \in Nodes : NodeDepth[x] < NodeDepth[at] => g[x] = h[x]
        PROVE  Body(g, at) = Body(h, at)
    <2>1. ASSUME IsObject(at[1]), NEW attribute \in AttributesOf(at[1])
          PROVE  Piece(g, at, attribute) = Piece(h, at, attribute)
      <3>1. g[Child(at, attribute)] = h[Child(at, attribute)]
        BY <1>3, <2>1, InsideNode
      <3> QED
        BY <3>1
    <2> HIDE DEF Piece
    <2> QED
      BY <2>1
  <1> HIDE DEF Body
  <1>4. \A g \in [Nodes -> T], at \in Nodes : D[<<g, at>>] = Body(g, at)
    BY DEF D
  <1>5. D \in [[Nodes -> T] \X Nodes -> T]
    <2> HIDE DEF T
    <2> QED
      BY <1>2 DEF D
  <1> HIDE DEF D, T
  <1>6. LooksLower(Nodes, T, NodeDepth, D)
    BY <1>3, <1>4 DEF LooksLower
  <1>7. Recursion(Nodes, T, NodeDepth, D)
    <2>1. T # {}
      BY DEF T
    <2> QED
      BY <1>5, <1>6, <2>1, NodesRank DEF Recursion
  <1>8. PICK f : Solves(Nodes, T, D, f)
    BY <1>7, RecursiveFunction
  <1>9. f = [at \in Nodes |-> Body(f, at)]
    BY <1>4, <1>8 DEF Solves
  <1>10. IndexResources = [at \in Nodes |-> Body(IndexResources, at)]
    BY <1>9, ZenonT(60) DEF IndexResources, Body, Piece, Child, Nodes
  <1> DEFINE Good == {at \in Nodes : IndexResources[at] \in T}
  <1>11. ASSUME NEW s \in Nodes,
                \A inner \in Nodes : NodeDepth[inner] < NodeDepth[s] => inner \in Good
         PROVE  s \in Good
    BY <1>2, <1>10, <1>11
  <1>12. Good \subseteq Nodes
    OBVIOUS
  <1> HIDE DEF Good
  <1>13. Good = Nodes
    BY <1>11, <1>12, NodesRank, Everywhere
  <1>14. IndexResources \in [Nodes -> T]
    BY <1>10, <1>13 DEF Good
  <1>15. \A at \in Nodes : IndexResources[at] = Body(IndexResources, at)
    BY <1>10
  <1> QED
    BY <1>14, <1>15 DEF T, Body, Piece, IndexEquation

LEMMA ValuesRank == ValueDepth \in [Values -> Nat]
  BY ValuesAssumption

LEMMA InsideValue ==
    ASSUME NEW value \in Values
    PROVE  /\ "items" \in DOMAIN value =>
                 \A i \in DOMAIN value.items :
                    value.items[i] \in Values /\ ValueDepth[value.items[i]] < ValueDepth[value]
           /\ "fields" \in DOMAIN value =>
                 \A name \in DOMAIN value.fields :
                    /\ name \in PropertyName
                    /\ value.fields[name] \in Values
                    /\ ValueDepth[value.fields[name]] < ValueDepth[value]
  BY ValuesAssumption

LEMMA ValuePathsEquation ==
    /\ ValuePaths \in [Values -> SUBSET Paths]
    /\ \A value \in Values :
          ValuePaths[value] =
             IF "items" \in DOMAIN value
             THEN UNION {ValuePaths[value.items[i]] : i \in DOMAIN value.items}
             ELSE IF "fields" \in DOMAIN value
             THEN UNION {{<<name>> \o path : path \in ValuePaths[value.fields[name]] \cup {<<>>}} :
                            name \in DOMAIN value.fields}
             ELSE {}
  <1> DEFINE T == SUBSET Paths
             Piece(g, value, name) ==
                {<<name>> \o path : path \in g[value.fields[name]] \cup {<<>>}}
             Body(g, value) ==
                IF "items" \in DOMAIN value
                THEN UNION {g[value.items[i]] : i \in DOMAIN value.items}
                ELSE IF "fields" \in DOMAIN value
                THEN UNION {Piece(g, value, name) : name \in DOMAIN value.fields}
                ELSE {}
             D == [at \in [Values -> T] \X Values |-> Body(at[1], at[2])]
  <1>1. ASSUME NEW g, NEW value \in Values, "fields" \in DOMAIN value,
               NEW name \in DOMAIN value.fields, g[value.fields[name]] \in T
        PROVE  Piece(g, value, name) \in T
    <2>1. name \in PropertyName /\ <<>> \in Paths
      BY <1>1, InsideValue DEF Paths
    <2>2. \A path \in g[value.fields[name]] \cup {<<>>} : <<name>> \o path \in Paths
      BY <1>1, <2>1, Led DEF Paths
    <2> QED
      BY <2>2, Zenon
  <1>2. ASSUME NEW g, NEW value \in Values,
               \A x \in Values : ValueDepth[x] < ValueDepth[value] => g[x] \in T
        PROVE  Body(g, value) \in T
    <2> HIDE DEF Piece, T
    <2>1. ASSUME "fields" \in DOMAIN value, NEW name \in DOMAIN value.fields
          PROVE  Piece(g, value, name) \in T
      BY <1>1, <1>2, <2>1, InsideValue
    <2>2. ASSUME "items" \in DOMAIN value, NEW i \in DOMAIN value.items
          PROVE  g[value.items[i]] \in T
      BY <1>2, <2>2, InsideValue
    <2> USE DEF T
    <2> QED
      BY <2>1, <2>2
  <1>3. ASSUME NEW g, NEW h, NEW value \in Values,
               \A x \in Values : ValueDepth[x] < ValueDepth[value] => g[x] = h[x]
        PROVE  Body(g, value) = Body(h, value)
    <2>1. ASSUME "fields" \in DOMAIN value, NEW name \in DOMAIN value.fields
          PROVE  Piece(g, value, name) = Piece(h, value, name)
      <3>1. g[value.fields[name]] = h[value.fields[name]]
        BY <1>3, <2>1, InsideValue
      <3> QED
        BY <3>1
    <2>2. ASSUME "items" \in DOMAIN value, NEW i \in DOMAIN value.items
          PROVE  g[value.items[i]] = h[value.items[i]]
      BY <1>3, <2>2, InsideValue
    <2> HIDE DEF Piece
    <2> QED
      BY <2>1, <2>2, ZenonT(60)
  <1> HIDE DEF Body
  <1>4. \A g \in [Values -> T], value \in Values : D[<<g, value>>] = Body(g, value)
    BY DEF D
  <1>5. D \in [[Values -> T] \X Values -> T]
    <2> HIDE DEF T
    <2> QED
      BY <1>2 DEF D
  <1> HIDE DEF D, T
  <1>6. LooksLower(Values, T, ValueDepth, D)
    BY <1>3, <1>4 DEF LooksLower
  <1>7. Recursion(Values, T, ValueDepth, D)
    <2>1. T # {}
      BY DEF T
    <2> QED
      BY <1>5, <1>6, <2>1, ValuesRank DEF Recursion
  <1>8. PICK f : Solves(Values, T, D, f)
    BY <1>7, RecursiveFunction
  <1>9. f = [value \in Values |-> Body(f, value)]
    BY <1>4, <1>8 DEF Solves
  <1>10. ValuePaths = [value \in Values |-> Body(ValuePaths, value)]
    BY <1>9 DEF ValuePaths, Body, Piece
  <1> DEFINE Good == {value \in Values : ValuePaths[value] \in T}
  <1>11. ASSUME NEW s \in Values,
                \A inner \in Values : ValueDepth[inner] < ValueDepth[s] => inner \in Good
         PROVE  s \in Good
    BY <1>2, <1>10, <1>11
  <1>12. Good \subseteq Values
    OBVIOUS
  <1> HIDE DEF Good
  <1>13. Good = Values
    BY <1>11, <1>12, ValuesRank, Everywhere
  <1>14. ValuePaths \in [Values -> T]
    BY <1>10, <1>13 DEF Good
  <1>15. \A value \in Values : ValuePaths[value] = Body(ValuePaths, value)
    BY <1>10
  <1> QED
    BY <1>14, <1>15 DEF T, Body, Piece

-----------------------------------------------------------------------------
(***************************************************************************)
(* What is visible in a shape, taken apart at the first name of a path.    *)
(***************************************************************************)
\* A place is an attribute, or one inside of it.
At(attribute, place) ==
    \/ place = <<<<attribute.name>>, attribute>>
    \/ \E rest \in Places[attribute.shape] : place = <<<<attribute.name>> \o rest[1], rest[2]>>

LEMMA PlaceIs ==
    ASSUME NEW shape \in Shapes, NEW place
    PROVE  place \in Places[shape] <=>
              /\ IsObject(ProjectionObjectShape[shape])
              /\ \E attribute \in AttributesOf(ProjectionObjectShape[shape]) :
                    At(attribute, place)
  <1> DEFINE object == ProjectionObjectShape[shape]
             There(attribute) ==
                {<<<<attribute.name>>, attribute>>}
                   \cup {<<<<attribute.name>> \o rest[1], rest[2]>> :
                            rest \in Places[attribute.shape]}
  <1>1. Places[shape] = IF ~ IsObject(object) THEN {}
                        ELSE UNION {There(attribute) : attribute \in AttributesOf(object)}
    BY PlacesEquation
  <1>2. \A attribute : place \in There(attribute) <=> At(attribute, place)
    BY DEF At
  <1> HIDE DEF There
  <1> QED
    BY <1>1, <1>2

\* The paths of the attributes of a shape that a caller may see.
Seen(shape, caller) ==
    {place[1] : place \in {p \in Places[shape] : Allows(p[2].availability, caller)}}

LEMMA PlacesInside ==
    ASSUME NEW shape \in Shapes, IsObject(ProjectionObjectShape[shape]),
           NEW attribute \in AttributesOf(ProjectionObjectShape[shape])
    PROVE  /\ attribute.name \in PropertyName
           /\ attribute.shape \in Shapes
           /\ \A place \in Places[attribute.shape] :
                 place = <<place[1], place[2]>> /\ place[1] \in Paths
  BY InsideObject, PlacesEquation

LEMMA NeverSeen ==
    ASSUME NEW shape \in Shapes, NEW caller
    PROVE  <<>> \notin Seen(shape, caller)
  <1> DEFINE object == ProjectionObjectShape[shape]
  <1> SUFFICES ASSUME NEW place \in Places[shape], place[1] = <<>> PROVE FALSE
    BY DEF Seen
  <1>1. PICK attribute \in AttributesOf(object) : IsObject(object) /\ At(attribute, place)
    BY PlaceIs
  <1>2. CASE place = <<<<attribute.name>>, attribute>>
    BY <1>2
  <1>3. ASSUME NEW inner \in Places[attribute.shape],
               place = <<<<attribute.name>> \o inner[1], inner[2]>>
        PROVE  FALSE
    <2>1. attribute.name \in PropertyName /\ inner[1] \in Paths
      BY <1>1, PlacesInside
    <2>2. place[1] = <<attribute.name>> \o inner[1]
      BY <1>3
    <2> QED
      BY <2>1, <2>2, Led DEF Paths
  <1> QED
    BY <1>1, <1>2, <1>3 DEF At

LEMMA SeenIs ==
    ASSUME NEW shape \in Shapes, NEW caller, NEW name \in PropertyName, NEW rest \in Paths
    PROVE  <<name>> \o rest \in Seen(shape, caller) <=>
              /\ IsObject(ProjectionObjectShape[shape])
              /\ \E attribute \in AttributesOf(ProjectionObjectShape[shape]) :
                    /\ attribute.name = name
                    /\ \/ rest = <<>> /\ Allows(attribute.availability, caller)
                       \/ rest \in Seen(attribute.shape, caller)
  <1> DEFINE object == ProjectionObjectShape[shape]
  <1>2. ASSUME <<name>> \o rest \in Seen(shape, caller)
        PROVE  /\ IsObject(object)
               /\ \E attribute \in AttributesOf(object) :
                     /\ attribute.name = name
                     /\ \/ rest = <<>> /\ Allows(attribute.availability, caller)
                        \/ rest \in Seen(attribute.shape, caller)
    <2>1. PICK place \in Places[shape] :
             place[1] = <<name>> \o rest /\ Allows(place[2].availability, caller)
      BY <1>2 DEF Seen
    <2>2. PICK attribute \in AttributesOf(object) : IsObject(object) /\ At(attribute, place)
      BY PlaceIs
    <2>3. attribute.name \in PropertyName
      BY <2>2, PlacesInside
    <2>4. CASE place = <<<<attribute.name>>, attribute>>
      <3>1. place[1] = <<attribute.name>> /\ place[2] = attribute
        BY <2>4
      <3>2. <<attribute.name>> = <<attribute.name>> \o <<>> /\ <<>> \in Seq(PropertyName)
        BY <2>3
      <3>3. <<attribute.name>> \o <<>> = <<name>> \o rest
        BY <2>1, <3>1, <3>2
      <3>4. attribute.name = name /\ rest = <<>>
        BY <2>3, <3>2, <3>3, LedOnce DEF Paths
      <3> QED
        BY <2>1, <2>2, <3>1, <3>4
    <2>5. ASSUME NEW inner \in Places[attribute.shape],
                 place = <<<<attribute.name>> \o inner[1], inner[2]>>
          PROVE  attribute.name = name /\ rest \in Seen(attribute.shape, caller)
      <3>1. inner[1] \in Paths
        BY <2>2, PlacesInside
      <3>2. place[1] = <<attribute.name>> \o inner[1] /\ place[2] = inner[2]
        BY <2>5
      <3>3. <<attribute.name>> \o inner[1] = <<name>> \o rest
        BY <2>1, <3>2
      <3>4. attribute.name = name /\ inner[1] = rest
        BY <2>3, <3>1, <3>3, LedOnce DEF Paths
      <3> QED
        BY <2>1, <3>2, <3>4 DEF Seen
    <2> QED
      BY <2>2, <2>4, <2>5 DEF At
  <1>3. ASSUME IsObject(object), NEW attribute \in AttributesOf(object), attribute.name = name,
               rest = <<>>, Allows(attribute.availability, caller)
        PROVE  <<name>> \o rest \in Seen(shape, caller)
    <2> DEFINE place == <<<<attribute.name>>, attribute>>
    <2>1. place \in Places[shape]
      BY <1>3, PlaceIs DEF At
    <2>2. <<name>> \o rest = <<name>>
      BY <1>3
    <2> QED
      BY <1>3, <2>1, <2>2 DEF Seen
  <1>4. ASSUME IsObject(object), NEW attribute \in AttributesOf(object), attribute.name = name,
               rest \in Seen(attribute.shape, caller)
        PROVE  <<name>> \o rest \in Seen(shape, caller)
    <2>1. PICK inner \in Places[attribute.shape] :
             rest = inner[1] /\ Allows(inner[2].availability, caller)
      BY <1>4 DEF Seen
    <2> DEFINE place == <<<<attribute.name>> \o inner[1], inner[2]>>
    <2>2. At(attribute, place)
      BY DEF At
    <2> HIDE DEF place
    <2>4. place \in Places[shape]
      BY <1>4, <2>2, PlaceIs
    <2> USE DEF place
    <2>3. place[1] = <<name>> \o rest /\ place[2] = inner[2]
      BY <1>4, <2>1
    <2> QED
      BY <2>1, <2>3, <2>4 DEF Seen
  <1> QED
    BY <1>2, <1>3, <1>4

LEMMA VisibleEmpty == \A shape, caller : Visible(shape, <<>>, caller)
  BY DEF Visible

LEMMA VisibleLed ==
    ASSUME NEW shape \in Shapes, NEW caller, NEW name \in PropertyName, NEW rest \in Paths
    PROVE  Visible(shape, <<name>> \o rest, caller) <=>
              /\ IsObject(ProjectionObjectShape[shape])
              /\ \E attribute \in AttributesOf(ProjectionObjectShape[shape]) :
                    /\ attribute.name = name
                    /\ Allows(attribute.availability, caller)
                    /\ Visible(attribute.shape, rest, caller)
  <1> DEFINE object == ProjectionObjectShape[shape]
             path == <<name>> \o rest
  <1>1. \A s, p : Visible(s, p, caller) <=> \A n \in DOMAIN p : SubSeq(p, 1, n) \in Seen(s, caller)
    BY DEF Visible, Seen
  <1>2. /\ DOMAIN path = 1 .. Len(rest) + 1 /\ DOMAIN rest = 1 .. Len(rest) /\ Len(rest) \in Nat
    BY Led DEF Paths
  <1>3. \A n \in 0 .. Len(rest) : /\ SubSeq(path, 1, n + 1) = <<name>> \o SubSeq(rest, 1, n)
                                  /\ SubSeq(rest, 1, n) \in Paths
                                  /\ SubSeq(rest, 1, n) = <<>> <=> n = 0
    <2> SUFFICES ASSUME NEW n \in 0 .. Len(rest)
                 PROVE  /\ SubSeq(path, 1, n + 1) = <<name>> \o SubSeq(rest, 1, n)
                        /\ SubSeq(rest, 1, n) \in Paths
                        /\ SubSeq(rest, 1, n) = <<>> <=> n = 0
      OBVIOUS
    <2>1. SubSeq(path, 1, n + 1) = <<name>> \o SubSeq(rest, 1, n)
      BY LedPrefix DEF Paths
    <2>2. 1 \in 1 .. Len(rest) + 1
      BY <1>2
    <2>3. /\ SubSeq(rest, 1, n) \in Seq(PropertyName)
          /\ Len(SubSeq(rest, 1, n)) = IF 1 <= n THEN n - 1 + 1 ELSE 0
      BY <2>2, PartsOf DEF Paths
    <2> QED
      BY <1>2, <2>1, <2>3, EmptySeq DEF Paths
  <1> HIDE DEF path
  <1>5. Visible(shape, path, caller) <=>
           \A n \in 0 .. Len(rest) : <<name>> \o SubSeq(rest, 1, n) \in Seen(shape, caller)
    <2>1. Visible(shape, path, caller) <=>
             \A n \in 0 .. Len(rest) : SubSeq(path, 1, n + 1) \in Seen(shape, caller)
      <3>1. \A n \in 1 .. Len(rest) + 1 : n - 1 \in 0 .. Len(rest) /\ (n - 1) + 1 = n
        BY <1>2
      <3>2. \A n \in 0 .. Len(rest) : n + 1 \in 1 .. Len(rest) + 1
        BY <1>2
      <3> QED
        BY <1>1, <1>2, <3>1, <3>2
    <2> QED
      BY <1>3, <2>1
  <1>6. \A s : Visible(s, rest, caller) <=>
                  \A n \in 1 .. Len(rest) : SubSeq(rest, 1, n) \in Seen(s, caller)
    BY <1>1, <1>2
  <1>7. \A n \in 0 .. Len(rest) :
           <<name>> \o SubSeq(rest, 1, n) \in Seen(shape, caller) <=>
              /\ IsObject(object)
              /\ \E attribute \in AttributesOf(object) :
                    /\ attribute.name = name
                    /\ \/ n = 0 /\ Allows(attribute.availability, caller)
                       \/ SubSeq(rest, 1, n) \in Seen(attribute.shape, caller)
    <2> DEFINE part(n) == SubSeq(rest, 1, n)
    <2>1. \A n \in 0 .. Len(rest) : part(n) \in Paths /\ (part(n) = <<>> <=> n = 0)
      BY <1>3
    <2> HIDE DEF part
    <2>2. ASSUME NEW n \in 0 .. Len(rest)
          PROVE  <<name>> \o part(n) \in Seen(shape, caller) <=>
                    /\ IsObject(object)
                    /\ \E attribute \in AttributesOf(object) :
                          /\ attribute.name = name
                          /\ \/ n = 0 /\ Allows(attribute.availability, caller)
                             \/ part(n) \in Seen(attribute.shape, caller)
      <3> DEFINE p == part(n)
      <3>1. p \in Paths /\ (p = <<>> <=> n = 0)
        BY <2>1
      <3> HIDE DEF p
      <3>2. <<name>> \o p \in Seen(shape, caller) <=>
              /\ IsObject(object)
              /\ \E attribute \in AttributesOf(object) :
                    /\ attribute.name = name
                    /\ \/ p = <<>> /\ Allows(attribute.availability, caller)
                       \/ p \in Seen(attribute.shape, caller)
        BY <3>1, SeenIs
      <3> QED
        BY <3>1, <3>2 DEF p
    <2> QED
      BY <2>2 DEF part
  <1>8. ASSUME IsObject(object), NEW attribute \in AttributesOf(object)
        PROVE  SubSeq(rest, 1, 0) \notin Seen(attribute.shape, caller)
    <2>1. SubSeq(rest, 1, 0) = <<>> /\ attribute.shape \in Shapes
      BY <1>2, <1>3, <1>8, InsideObject
    <2> QED
      BY <2>1, NeverSeen
  <1>9. ASSUME IsObject(object), NEW attribute \in AttributesOf(object),
               NEW other \in AttributesOf(object), other.name = attribute.name
        PROVE  other = attribute
    BY <1>9, InsideObject
  <1>10. ASSUME Visible(shape, path, caller)
         PROVE  /\ IsObject(object)
                /\ \E attribute \in AttributesOf(object) :
                      /\ attribute.name = name
                      /\ Allows(attribute.availability, caller)
                      /\ Visible(attribute.shape, rest, caller)
    <2>1. 0 \in 0 .. Len(rest)
      BY <1>2
    <2>2. IsObject(object) /\ \E attribute \in AttributesOf(object) :
                                 /\ attribute.name = name
                                 /\ Allows(attribute.availability, caller)
      BY <1>5, <1>7, <1>8, <1>10, <2>1
    <2>3. PICK attribute \in AttributesOf(object) :
             attribute.name = name /\ Allows(attribute.availability, caller)
      BY <2>2
    <2>4. ASSUME NEW n \in 1 .. Len(rest)
          PROVE  SubSeq(rest, 1, n) \in Seen(attribute.shape, caller)
      <3>1. n \in 0 .. Len(rest) /\ n # 0
        BY <1>2
      <3>2. PICK other \in AttributesOf(object) :
               other.name = name /\ SubSeq(rest, 1, n) \in Seen(other.shape, caller)
        BY <1>5, <1>7, <1>10, <3>1
      <3>3. other = attribute
        BY <1>9, <2>2, <2>3, <3>2
      <3> QED
        BY <3>2, <3>3
    <2> QED
      BY <1>6, <2>2, <2>3, <2>4
  <1>11. ASSUME IsObject(object), NEW attribute \in AttributesOf(object), attribute.name = name,
                Allows(attribute.availability, caller), Visible(attribute.shape, rest, caller)
         PROVE  Visible(shape, path, caller)
    <2>1. ASSUME NEW n \in 0 .. Len(rest)
          PROVE  n = 0 \/ SubSeq(rest, 1, n) \in Seen(attribute.shape, caller)
      <3>1. n = 0 \/ n \in 1 .. Len(rest)
        BY <1>2
      <3> QED
        BY <1>6, <1>11, <3>1
    <2> QED
      BY <1>5, <1>7, <1>11, <2>1
  <1> QED
    BY <1>10, <1>11 DEF path

LEMMA VisibleInside ==
    ASSUME NEW shape \in Shapes, NEW path, NEW caller
    PROVE  Visible(ProjectionObjectShape[shape], path, caller) <=> Visible(shape, path, caller)
  <1> DEFINE object == ProjectionObjectShape[shape]
  <1>1. object \in Shapes /\ ProjectionObjectShape[object] = object
    BY ObjectShapeIs
  <1>2. Places[object] = Places[shape]
    BY <1>1, PlacesEquation
  <1> HIDE DEF object
  <1> QED
    BY <1>2 DEF Visible, object

-----------------------------------------------------------------------------
(***************************************************************************)
(* The schema shows what is visible.                                       *)
(***************************************************************************)
Open(node, caller) == {entry[1] : entry \in {e \in node : Allows(e[2], caller)}}

LEMMA AvailableIfOpen ==
    ASSUME NEW node, NEW path, NEW caller
    PROVE  PathAvailableTo(node, path, caller) <=>
              \A n \in 0 .. Len(path) : SubSeq(path, 1, n) \in Open(node, caller)
  BY DEF PathAvailableTo, Open

LEMMA EntryIs ==
    ASSUME NEW at \in Nodes, NEW entry
    PROVE  entry \in BuildNode[at] <=>
              \/ entry = <<<<>>, at[2]>>
              \/ /\ IsObject(at[1])
                 /\ \E attribute \in AttributesOf(at[1]) :
                       entry \in Under(attribute.name, BuildNode[Child(at, attribute)])
  <1> DEFINE There(attribute) == Under(attribute.name, BuildNode[Child(at, attribute)])
  <1>1. BuildNode[at] = {<<<<>>, at[2]>>} \cup
                           (IF ~ IsObject(at[1]) THEN {}
                            ELSE UNION {There(attribute) : attribute \in AttributesOf(at[1])})
    BY BuildNodeEquation
  <1> HIDE DEF There
  <1>2. entry \in BuildNode[at] <=>
           \/ entry = <<<<>>, at[2]>>
           \/ IsObject(at[1]) /\ \E attribute \in AttributesOf(at[1]) : entry \in There(attribute)
    BY <1>1
  <1> QED
    BY <1>2 DEF There

LEMMA EntriesInside ==
    ASSUME NEW at \in Nodes, IsObject(at[1]), NEW attribute \in AttributesOf(at[1])
    PROVE  /\ attribute.name \in PropertyName
           /\ \A entry \in BuildNode[Child(at, attribute)] :
                 entry = <<entry[1], entry[2]>> /\ entry[1] \in Paths
  BY InsideNode, BuildNodeEquation

LEMMA OpenIs ==
    ASSUME NEW at \in Nodes, NEW caller
    PROVE  /\ <<>> \in Open(BuildNode[at], caller) <=> Allows(at[2], caller)
           /\ \A name \in PropertyName, rest \in Paths :
                 <<name>> \o rest \in Open(BuildNode[at], caller) <=>
                    /\ IsObject(at[1])
                    /\ \E attribute \in AttributesOf(at[1]) :
                          /\ attribute.name = name
                          /\ rest \in Open(BuildNode[Child(at, attribute)], caller)
  <1>1. ASSUME NEW attribute \in AttributesOf(at[1]), IsObject(at[1]),
               NEW entry \in Under(attribute.name, BuildNode[Child(at, attribute)])
        PROVE  \E inner \in BuildNode[Child(at, attribute)] :
                  /\ entry[1] = <<attribute.name>> \o inner[1] /\ entry[2] = inner[2]
                  /\ inner[1] \in Paths /\ attribute.name \in PropertyName
    <2>1. PICK inner \in BuildNode[Child(at, attribute)] :
             entry = <<<<attribute.name>> \o inner[1], inner[2]>>
      BY <1>1 DEF Under
    <2> QED
      BY <1>1, <2>1, EntriesInside
  <1>2. ASSUME <<>> \in Open(BuildNode[at], caller)
        PROVE  Allows(at[2], caller)
    <2>1. PICK entry \in BuildNode[at] : entry[1] = <<>> /\ Allows(entry[2], caller)
      BY <1>2 DEF Open
    <2>2. ASSUME IsObject(at[1]), NEW attribute \in AttributesOf(at[1]),
                 entry \in Under(attribute.name, BuildNode[Child(at, attribute)])
          PROVE  FALSE
      <3>1. PICK inner \in BuildNode[Child(at, attribute)] :
               /\ entry[1] = <<attribute.name>> \o inner[1]
               /\ inner[1] \in Paths /\ attribute.name \in PropertyName
        BY <1>1, <2>2
      <3> QED
        BY <2>1, <3>1, Led DEF Paths
    <2>3. entry = <<<<>>, at[2]>>
      BY <2>2, EntryIs
    <2> QED
      BY <2>1, <2>3
  <1>3. ASSUME Allows(at[2], caller)
        PROVE  <<>> \in Open(BuildNode[at], caller)
    <2> DEFINE entry == <<<<>>, at[2]>>
    <2>1. entry \in BuildNode[at]
      BY EntryIs
    <2> QED
      BY <1>3, <2>1 DEF Open
  <1>4. ASSUME NEW name \in PropertyName, NEW rest \in Paths,
               <<name>> \o rest \in Open(BuildNode[at], caller)
        PROVE  /\ IsObject(at[1])
               /\ \E attribute \in AttributesOf(at[1]) :
                     /\ attribute.name = name
                     /\ rest \in Open(BuildNode[Child(at, attribute)], caller)
    <2>1. PICK entry \in BuildNode[at] :
             entry[1] = <<name>> \o rest /\ Allows(entry[2], caller)
      BY <1>4 DEF Open
    <2>2. entry # <<<<>>, at[2]>>
      <3>1. <<name>> \o rest # <<>>
        BY Led DEF Paths
      <3> QED
        BY <2>1, <3>1
    <2>3. PICK attribute \in AttributesOf(at[1]) :
             IsObject(at[1]) /\ entry \in Under(attribute.name, BuildNode[Child(at, attribute)])
      BY <2>2, EntryIs
    <2>4. PICK inner \in BuildNode[Child(at, attribute)] :
             /\ entry[1] = <<attribute.name>> \o inner[1] /\ entry[2] = inner[2]
             /\ inner[1] \in Paths /\ attribute.name \in PropertyName
      BY <1>1, <2>3
    <2>5. attribute.name = name /\ inner[1] = rest
      <3> DEFINE p == inner[1]
                 m == attribute.name
      <3>1. <<m>> \o p = <<name>> \o rest
        BY <2>1, <2>4
      <3>2. p \in Seq(PropertyName) /\ m \in PropertyName /\ rest \in Seq(PropertyName)
        BY <2>4 DEF Paths
      <3> HIDE DEF p, m
      <3>3. m = name /\ p = rest
        BY <3>1, <3>2, LedOnce, ZenonT(60)
      <3> QED
        BY <3>3 DEF p, m
    <2> QED
      BY <2>1, <2>3, <2>4, <2>5 DEF Open
  <1>5. ASSUME NEW name \in PropertyName, NEW rest \in Paths, IsObject(at[1]),
               NEW attribute \in AttributesOf(at[1]), attribute.name = name,
               rest \in Open(BuildNode[Child(at, attribute)], caller)
        PROVE  <<name>> \o rest \in Open(BuildNode[at], caller)
    <2>1. PICK inner \in BuildNode[Child(at, attribute)] :
             rest = inner[1] /\ Allows(inner[2], caller)
      BY <1>5 DEF Open
    <2> DEFINE entry == <<<<attribute.name>> \o inner[1], inner[2]>>
    <2>2. entry \in Under(attribute.name, BuildNode[Child(at, attribute)])
      BY DEF Under
    <2>3. entry[1] = <<name>> \o rest /\ entry[2] = inner[2]
      BY <1>5, <2>1
    <2> HIDE DEF entry
    <2>4. entry \in BuildNode[at]
      BY <1>5, <2>2, EntryIs
    <2> QED
      BY <2>1, <2>3, <2>4 DEF Open
  <1> QED
    BY <1>2, <1>3, <1>4, <1>5

LEMMA OpenLed ==
    ASSUME NEW at \in Nodes, NEW caller, NEW name \in PropertyName, NEW rest \in Paths
    PROVE  <<name>> \o rest \in Open(BuildNode[at], caller) <=>
              /\ IsObject(at[1])
              /\ \E attribute \in AttributesOf(at[1]) :
                    /\ attribute.name = name
                    /\ rest \in Open(BuildNode[Child(at, attribute)], caller)
  BY OpenIs

LEMMA AvailableEmpty ==
    ASSUME NEW at \in Nodes, NEW caller
    PROVE  PathAvailableTo(BuildNode[at], <<>>, caller) <=> Allows(at[2], caller)
  <1>1. Len(<<>>) = 0 /\ SubSeq(<<>>, 1, 0) = <<>> /\ 0 .. 0 = {0}
    BY EmptySeq
  <1>2. PathAvailableTo(BuildNode[at], <<>>, caller) <=> <<>> \in Open(BuildNode[at], caller)
    <2> DEFINE node == BuildNode[at]
    <2> HIDE DEF node
    <2>1. PathAvailableTo(node, <<>>, caller) <=> <<>> \in Open(node, caller)
      BY <1>1 DEF PathAvailableTo, Open
    <2> QED
      BY <2>1 DEF node
  <1> QED
    BY <1>2, OpenIs

LEMMA AvailableLed ==
    ASSUME NEW at \in Nodes, NEW caller, NEW name \in PropertyName, NEW rest \in Paths
    PROVE  PathAvailableTo(BuildNode[at], <<name>> \o rest, caller) <=>
              /\ Allows(at[2], caller) /\ IsObject(at[1])
              /\ \E attribute \in AttributesOf(at[1]) :
                    /\ attribute.name = name
                    /\ PathAvailableTo(BuildNode[Child(at, attribute)], rest, caller)
  <1> DEFINE path == <<name>> \o rest
             part(n) == SubSeq(rest, 1, n)
  <1>1. Len(path) = Len(rest) + 1 /\ Len(rest) \in Nat /\ path \in Paths
    BY Led DEF Paths
  <1>2. \A n \in 0 .. Len(rest) : SubSeq(path, 1, n + 1) = <<name>> \o part(n)
    BY LedPrefix DEF Paths
  <1>3. \A n \in 0 .. Len(rest) : part(n) \in Paths
    <2>1. 1 \in 1 .. Len(rest) + 1
      BY <1>1
    <2> QED
      BY <2>1, PartsOf DEF Paths
  <1>4. SubSeq(path, 1, 0) = <<>>
    BY <1>1
  <1> HIDE DEF path, part
  <1>5. PathAvailableTo(BuildNode[at], path, caller) <=>
           /\ Allows(at[2], caller)
           /\ \A n \in 0 .. Len(rest) : <<name>> \o part(n) \in Open(BuildNode[at], caller)
    <2>1. \A m \in 0 .. Len(path) : m = 0 \/ (m - 1 \in 0 .. Len(rest) /\ (m - 1) + 1 = m)
      BY <1>1
    <2>2. 0 \in 0 .. Len(path) /\ \A n \in 0 .. Len(rest) : n + 1 \in 0 .. Len(path)
      BY <1>1
    <2>3. (\A m \in 0 .. Len(path) : SubSeq(path, 1, m) \in Open(BuildNode[at], caller)) <=>
             /\ <<>> \in Open(BuildNode[at], caller)
             /\ \A n \in 0 .. Len(rest) : <<name>> \o part(n) \in Open(BuildNode[at], caller)
      BY <1>2, <1>4, <2>1, <2>2
    <2> QED
      BY <2>3, AvailableIfOpen, OpenIs
  <1>6. \A n \in 0 .. Len(rest) :
           <<name>> \o part(n) \in Open(BuildNode[at], caller) <=>
              /\ IsObject(at[1])
              /\ \E attribute \in AttributesOf(at[1]) :
                    /\ attribute.name = name
                    /\ part(n) \in Open(BuildNode[Child(at, attribute)], caller)
    <2>1. ASSUME NEW n \in 0 .. Len(rest)
          PROVE  <<name>> \o part(n) \in Open(BuildNode[at], caller) <=>
                    /\ IsObject(at[1])
                    /\ \E attribute \in AttributesOf(at[1]) :
                          /\ attribute.name = name
                          /\ part(n) \in Open(BuildNode[Child(at, attribute)], caller)
      <3> DEFINE p == part(n)
      <3>1. p \in Paths
        BY <1>3
      <3> HIDE DEF p
      <3>2. <<name>> \o p \in Open(BuildNode[at], caller) <=>
               /\ IsObject(at[1])
               /\ \E attribute \in AttributesOf(at[1]) :
                     /\ attribute.name = name
                     /\ p \in Open(BuildNode[Child(at, attribute)], caller)
        BY <3>1, OpenLed
      <3> QED
        BY <3>2 DEF p
    <2> QED
      BY <2>1
  <1>7. 0 \in 0 .. Len(rest)
    BY <1>1
  <1>8. \A node : PathAvailableTo(node, rest, caller) <=>
                     \A n \in 0 .. Len(rest) : part(n) \in Open(node, caller)
    BY AvailableIfOpen DEF part
  <1>9. IsObject(at[1]) =>
           \A attribute, other \in AttributesOf(at[1]) : other.name = attribute.name => other = attribute
    BY Inside, NodeOf
  <1> QED
    BY <1>5, <1>6, <1>7, <1>8, <1>9 DEF path

\* A node that is built for some callers shows those of them what it holds.
LEMMA NodeShows ==
    ASSUME NEW caller
    PROVE  \A at \in Nodes : ~ IsList(at[1]) =>
              \A path \in Paths : PathAvailableTo(BuildNode[at], path, caller) <=>
                                     Allows(at[2], caller) /\ Visible(at[1], path, caller)
  <1> DEFINE Good == {at \in Nodes : ~ IsList(at[1]) =>
                         \A path \in Paths :
                            PathAvailableTo(BuildNode[at], path, caller) <=>
                               Allows(at[2], caller) /\ Visible(at[1], path, caller)}
  <1>1. ASSUME NEW at \in Nodes,
               \A x \in Nodes : NodeDepth[x] < NodeDepth[at] => x \in Good
        PROVE  at \in Good
    <2> SUFFICES ASSUME ~ IsList(at[1]), NEW path \in Paths
                 PROVE  PathAvailableTo(BuildNode[at], path, caller) <=>
                           Allows(at[2], caller) /\ Visible(at[1], path, caller)
      OBVIOUS
    <2>1. at[1] \in Shapes /\ ProjectionObjectShape[at[1]] = at[1] /\ at[2] \in CallerSets
      BY ObjectShapeIs, NodeOf
    <2>2. CASE path = <<>>
      BY <2>1, <2>2, AvailableEmpty, VisibleEmpty
    <2>3. ASSUME NEW name \in PropertyName, NEW rest \in Paths, path = <<name>> \o rest
          PROVE  PathAvailableTo(BuildNode[at], path, caller) <=>
                    Allows(at[2], caller) /\ Visible(at[1], path, caller)
      <3>1. ASSUME IsObject(at[1]), NEW attribute \in AttributesOf(at[1])
            PROVE  PathAvailableTo(BuildNode[Child(at, attribute)], rest, caller) <=>
                      /\ Allows(at[2], caller) /\ Allows(attribute.availability, caller)
                      /\ Visible(attribute.shape, rest, caller)
        <4>1. /\ Child(at, attribute) \in Nodes
              /\ NodeDepth[Child(at, attribute)] < NodeDepth[at]
              /\ attribute.shape \in Shapes /\ attribute.availability \in CallerSets
          BY <3>1, InsideNode
        <4>2. /\ ~ IsList(Child(at, attribute)[1])
              /\ Child(at, attribute)[1] = ProjectionObjectShape[attribute.shape]
              /\ Child(at, attribute)[2] = Intersect(at[2], attribute.availability)
          BY <4>1, ObjectShapeIs, NodeOf DEF Child
        <4>3. PathAvailableTo(BuildNode[Child(at, attribute)], rest, caller) <=>
                 /\ Allows(Intersect(at[2], attribute.availability), caller)
                 /\ Visible(ProjectionObjectShape[attribute.shape], rest, caller)
          BY <1>1, <4>1, <4>2
        <4> QED
          BY <2>1, <4>1, <4>3, IntersectIs, VisibleInside
      <3>2. PathAvailableTo(BuildNode[at], path, caller) <=>
               /\ Allows(at[2], caller) /\ IsObject(at[1])
               /\ \E attribute \in AttributesOf(at[1]) :
                     /\ attribute.name = name
                     /\ PathAvailableTo(BuildNode[Child(at, attribute)], rest, caller)
        BY <2>3, AvailableLed
      <3>3. Visible(at[1], path, caller) <=>
               /\ IsObject(at[1])
               /\ \E attribute \in AttributesOf(at[1]) :
                     /\ attribute.name = name /\ Allows(attribute.availability, caller)
                     /\ Visible(attribute.shape, rest, caller)
        <4> DEFINE shape == at[1]
        <4>1. shape \in Shapes /\ ProjectionObjectShape[shape] = shape
          BY <2>1
        <4> HIDE DEF shape
        <4>2. Visible(shape, <<name>> \o rest, caller) <=>
                 /\ IsObject(shape)
                 /\ \E attribute \in AttributesOf(shape) :
                       /\ attribute.name = name
                       /\ Allows(attribute.availability, caller)
                       /\ Visible(attribute.shape, rest, caller)
          BY <4>1, VisibleLed
        <4> QED
          BY <2>3, <4>2 DEF shape
      <3> QED
        BY <3>1, <3>2, <3>3
    <2> QED
      BY <2>2, <2>3, EmptyOrLed DEF Paths
  <1>2. Good \subseteq Nodes
    OBVIOUS
  <1> HIDE DEF Good
  <1>3. Good = Nodes
    BY <1>1, <1>2, NodesRank, Everywhere
  <1> QED
    BY <1>3 DEF Good

\* A resource is a place that holds objects.
Leads(shape, place, resource, path, caller) ==
    /\ Last(place[1]) = resource
    /\ IsObject(ProjectionObjectShape[place[2].shape])
    /\ Visible(shape, place[1] \o path, caller)

Holds(shape, resource, path, caller) ==
    \E place \in Places[shape] : Leads(shape, place, resource, path, caller)

\* The attribute of a shape that leads to a resource, or is it.
HoldsIn(attribute, resource, path, caller) ==
    /\ Allows(attribute.availability, caller)
    /\ \/ /\ attribute.name = resource
          /\ IsObject(ProjectionObjectShape[attribute.shape])
          /\ Visible(attribute.shape, path, caller)
       \/ Holds(attribute.shape, resource, path, caller)

LEMMA VisibleIn ==
    ASSUME NEW shape \in Shapes, IsObject(ProjectionObjectShape[shape]),
           NEW attribute \in AttributesOf(ProjectionObjectShape[shape]),
           NEW rest \in Paths, NEW caller
    PROVE  Visible(shape, <<attribute.name>> \o rest, caller) <=>
              Allows(attribute.availability, caller) /\ Visible(attribute.shape, rest, caller)
  <1> DEFINE name == attribute.name
  <1>1. /\ name \in PropertyName
        /\ \A other \in AttributesOf(ProjectionObjectShape[shape]) :
              other.name = name => other = attribute
    BY InsideObject
  <1>2. attribute.name = name
    OBVIOUS
  <1> HIDE DEF name
  <1>3. Visible(shape, <<name>> \o rest, caller) <=>
           \E other \in AttributesOf(ProjectionObjectShape[shape]) :
              /\ other.name = name
              /\ Allows(other.availability, caller)
              /\ Visible(other.shape, rest, caller)
    BY <1>1, VisibleLed
  <1> QED
    BY <1>1, <1>2, <1>3

LEMMA PlaceHasAPath ==
    ASSUME NEW shape \in Shapes, NEW place \in Places[shape]
    PROVE  place[1] \in Paths /\ place[1] # <<>>
  <1> DEFINE object == ProjectionObjectShape[shape]
  <1>1. place[1] \in Paths
    BY PlacesEquation
  <1>2. PICK attribute \in AttributesOf(object) : IsObject(object) /\ At(attribute, place)
    BY PlaceIs
  <1>3. CASE place = <<<<attribute.name>>, attribute>>
    BY <1>1, <1>3
  <1>4. ASSUME NEW inner \in Places[attribute.shape],
               place = <<<<attribute.name>> \o inner[1], inner[2]>>
        PROVE  place[1] # <<>>
    <2>1. attribute.name \in PropertyName /\ inner[1] \in Paths
      BY <1>2, PlacesInside
    <2>2. place[1] = <<attribute.name>> \o inner[1]
      BY <1>4
    <2> QED
      BY <2>1, <2>2, Led DEF Paths
  <1> QED
    BY <1>1, <1>2, <1>3, <1>4 DEF At

LEMMA HoldsIs ==
    ASSUME NEW shape \in Shapes, NEW resource, NEW path \in Paths, NEW caller
    PROVE  Holds(shape, resource, path, caller) <=>
              /\ IsObject(ProjectionObjectShape[shape])
              /\ \E attribute \in AttributesOf(ProjectionObjectShape[shape]) :
                    HoldsIn(attribute, resource, path, caller)
  <1> DEFINE object == ProjectionObjectShape[shape]
  <1>1. ASSUME IsObject(object), NEW attribute \in AttributesOf(object), NEW place,
               place = <<<<attribute.name>>, attribute>>
        PROVE  Leads(shape, place, resource, path, caller) <=>
                  /\ Allows(attribute.availability, caller)
                  /\ attribute.name = resource
                  /\ IsObject(ProjectionObjectShape[attribute.shape])
                  /\ Visible(attribute.shape, path, caller)
    <2>1. place[1] = <<attribute.name>> /\ place[2] = attribute /\ Last(place[1]) = attribute.name
      BY <1>1 DEF Last
    <2>2. Visible(shape, place[1] \o path, caller) <=>
             Allows(attribute.availability, caller) /\ Visible(attribute.shape, path, caller)
      BY <1>1, <2>1, VisibleIn
    <2> QED
      BY <2>1, <2>2 DEF Leads
  <1>2. ASSUME IsObject(object), NEW attribute \in AttributesOf(object), NEW place,
               NEW inner \in Places[attribute.shape],
               place = <<<<attribute.name>> \o inner[1], inner[2]>>
        PROVE  Leads(shape, place, resource, path, caller) <=>
                  /\ Allows(attribute.availability, caller)
                  /\ Leads(attribute.shape, inner, resource, path, caller)
    <2> DEFINE name == attribute.name
               p == inner[1]
    <2>1. name \in PropertyName /\ p \in Paths /\ p # <<>> /\ attribute.shape \in Shapes
      BY <1>2, PlacesInside, PlaceHasAPath
    <2>2. place[1] = <<name>> \o p /\ place[2] = inner[2]
      BY <1>2
    <2>3. Visible(shape, <<name>> \o (p \o path), caller) <=>
             Allows(attribute.availability, caller) /\ Visible(attribute.shape, p \o path, caller)
      <3>1. p \o path \in Paths
        BY <2>1, LedConcat DEF Paths
      <3> QED
        BY <1>2, <3>1, VisibleIn
    <2> HIDE DEF name, p
    <2>4. (<<name>> \o p) \o path = <<name>> \o (p \o path)
      BY <2>1, LedConcat DEF Paths
    <2>5. Last(<<name>> \o p) = Last(p)
      BY <2>1, LedLast DEF Paths, Last
    <2>6. p = inner[1]
      BY DEF p
    <2> QED
      BY <2>2, <2>3, <2>4, <2>5, <2>6 DEF Leads
  <1>3. ASSUME Holds(shape, resource, path, caller)
        PROVE  IsObject(object) /\ \E attribute \in AttributesOf(object) :
                                      HoldsIn(attribute, resource, path, caller)
    <2>1. PICK place \in Places[shape] : Leads(shape, place, resource, path, caller)
      BY <1>3 DEF Holds
    <2>2. PICK attribute \in AttributesOf(object) : IsObject(object) /\ At(attribute, place)
      BY PlaceIs
    <2>3. CASE place = <<<<attribute.name>>, attribute>>
      BY <1>1, <2>1, <2>2, <2>3 DEF HoldsIn
    <2>4. ASSUME NEW inner \in Places[attribute.shape],
                 place = <<<<attribute.name>> \o inner[1], inner[2]>>
          PROVE  HoldsIn(attribute, resource, path, caller)
      BY <1>2, <2>1, <2>2, <2>4 DEF HoldsIn, Holds
    <2> QED
      BY <2>2, <2>3, <2>4 DEF At
  <1>4. ASSUME IsObject(object), NEW attribute \in AttributesOf(object),
               Allows(attribute.availability, caller), attribute.name = resource,
               IsObject(ProjectionObjectShape[attribute.shape]),
               Visible(attribute.shape, path, caller)
        PROVE  Holds(shape, resource, path, caller)
    <2> DEFINE place == <<<<attribute.name>>, attribute>>
    <2>1. At(attribute, place)
      BY DEF At
    <2>2. Leads(shape, place, resource, path, caller)
      BY <1>1, <1>4
    <2> HIDE DEF place
    <2> QED
      BY <1>4, <2>1, <2>2, PlaceIs DEF Holds
  <1>5. ASSUME IsObject(object), NEW attribute \in AttributesOf(object),
               Allows(attribute.availability, caller), Holds(attribute.shape, resource, path, caller)
        PROVE  Holds(shape, resource, path, caller)
    <2>1. PICK inner \in Places[attribute.shape] :
             Leads(attribute.shape, inner, resource, path, caller)
      BY <1>5 DEF Holds
    <2> DEFINE place == <<<<attribute.name>> \o inner[1], inner[2]>>
    <2>2. At(attribute, place)
      BY DEF At
    <2>3. Leads(shape, place, resource, path, caller)
      BY <1>2, <1>5, <2>1
    <2> HIDE DEF place
    <2> QED
      BY <1>5, <2>2, <2>3, PlaceIs DEF Holds
  <1> QED
    BY <1>3, <1>4, <1>5 DEF HoldsIn

LEMMA HoldsInside ==
    ASSUME NEW shape \in Shapes, NEW resource, NEW path \in Paths, NEW caller
    PROVE  /\ Holds(ProjectionObjectShape[shape], resource, path, caller) <=>
                 Holds(shape, resource, path, caller)
           /\ Holds(shape, resource, path, caller) => IsObject(ProjectionObjectShape[shape])
  <1> DEFINE object == ProjectionObjectShape[shape]
  <1>1. object \in Shapes /\ ProjectionObjectShape[object] = object
    BY ObjectShapeIs
  <1>2. Holds(object, resource, path, caller) <=>
           IsObject(object) /\ \E attribute \in AttributesOf(object) :
                                  HoldsIn(attribute, resource, path, caller)
    <2> HIDE DEF object
    <2> QED
      BY <1>1, HoldsIs
  <1> QED
    BY <1>2, HoldsIs

\* What the resources of a node show.
IndexHolds(roots, resource, path, caller) ==
    \E root \in roots : root[1] = resource /\ PathAvailableTo(root[2], path, caller)

LEMMA IndexIs ==
    ASSUME NEW at \in Nodes, NEW resource, NEW path, NEW caller
    PROVE  IndexHolds(IndexResources[at], resource, path, caller) <=>
              /\ IsObject(at[1])
              /\ \E attribute \in AttributesOf(at[1]) :
                    /\ IsObject(ProjectionObjectShape[attribute.shape])
                    /\ \/ /\ attribute.name = resource
                          /\ PathAvailableTo(BuildNode[Child(at, attribute)], path, caller)
                       \/ IndexHolds(IndexResources[Child(at, attribute)], resource, path, caller)
  <1>1. IndexResources[at] =
           IF ~ IsObject(at[1]) THEN {}
           ELSE UNION {IndexEquation(at, attribute) : attribute \in AttributesOf(at[1])}
    BY IndexResourcesEquation
  <1>2. IndexHolds(IndexResources[at], resource, path, caller) <=>
           /\ IsObject(at[1])
           /\ \E attribute \in AttributesOf(at[1]) :
                 IndexHolds(IndexEquation(at, attribute), resource, path, caller)
    BY <1>1 DEF IndexHolds
  <1>3. ASSUME NEW attribute
        PROVE  IndexHolds(IndexEquation(at, attribute), resource, path, caller) <=>
                  /\ IsObject(ProjectionObjectShape[attribute.shape])
                  /\ \/ /\ attribute.name = resource
                        /\ PathAvailableTo(BuildNode[Child(at, attribute)], path, caller)
                     \/ IndexHolds(IndexResources[Child(at, attribute)], resource, path, caller)
    <2> DEFINE node == BuildNode[Child(at, attribute)]
               inner == IndexResources[Child(at, attribute)]
               here == <<attribute.name, node>>
    <2>1. IndexEquation(at, attribute) =
             IF ~ IsObject(ProjectionObjectShape[attribute.shape]) THEN {} ELSE {here} \cup inner
      BY DEF IndexEquation
    <2>2. here[1] = attribute.name /\ here[2] = node
      OBVIOUS
    <2> HIDE DEF here, node, inner
    <2>3. IndexHolds(IndexEquation(at, attribute), resource, path, caller) <=>
             /\ IsObject(ProjectionObjectShape[attribute.shape])
             /\ \/ attribute.name = resource /\ PathAvailableTo(node, path, caller)
                \/ IndexHolds(inner, resource, path, caller)
      BY <2>1, <2>2 DEF IndexHolds
    <2> QED
      BY <2>3 DEF node, inner
  <1> QED
    BY <1>2, <1>3

\* The schema knows a resource of a node if and only if there is a place in the
\* shape that leads to it, all of the way visible.
LEMMA IndexShows ==
    ASSUME NEW resource, NEW path \in Paths, NEW caller
    PROVE  \A at \in Nodes : ~ IsList(at[1]) =>
              (IndexHolds(IndexResources[at], resource, path, caller) <=>
                  Allows(at[2], caller) /\ Holds(at[1], resource, path, caller))
  <1> DEFINE Good == {at \in Nodes : ~ IsList(at[1]) =>
                         (IndexHolds(IndexResources[at], resource, path, caller) <=>
                             Allows(at[2], caller) /\ Holds(at[1], resource, path, caller))}
  <1>1. ASSUME NEW at \in Nodes,
               \A x \in Nodes : NodeDepth[x] < NodeDepth[at] => x \in Good
        PROVE  at \in Good
    <2> SUFFICES ASSUME ~ IsList(at[1])
                 PROVE  IndexHolds(IndexResources[at], resource, path, caller) <=>
                           Allows(at[2], caller) /\ Holds(at[1], resource, path, caller)
      OBVIOUS
    <2>1. at[1] \in Shapes /\ ProjectionObjectShape[at[1]] = at[1] /\ at[2] \in CallerSets
      BY ObjectShapeIs, NodeOf
    <2>2. ASSUME IsObject(at[1]), NEW attribute \in AttributesOf(at[1])
          PROVE  (/\ IsObject(ProjectionObjectShape[attribute.shape])
                  /\ \/ /\ attribute.name = resource
                        /\ PathAvailableTo(BuildNode[Child(at, attribute)], path, caller)
                     \/ IndexHolds(IndexResources[Child(at, attribute)], resource, path, caller))
                 <=> Allows(at[2], caller) /\ HoldsIn(attribute, resource, path, caller)
      <3> DEFINE child == Child(at, attribute)
      <3>1. /\ child \in Nodes /\ NodeDepth[child] < NodeDepth[at]
            /\ attribute.shape \in Shapes /\ attribute.availability \in CallerSets
        BY <2>2, InsideNode
      <3>2. /\ child[1] = ProjectionObjectShape[attribute.shape]
            /\ child[2] = Intersect(at[2], attribute.availability)
            /\ ~ IsList(child[1])
        BY <3>1, ObjectShapeIs DEF Child
      <3> HIDE DEF child
      <3>3. PathAvailableTo(BuildNode[child], path, caller) <=>
               Allows(child[2], caller) /\ Visible(child[1], path, caller)
        BY <3>1, <3>2, NodeShows
      <3>4. IndexHolds(IndexResources[child], resource, path, caller) <=>
               Allows(child[2], caller) /\ Holds(child[1], resource, path, caller)
        BY <1>1, <3>1, <3>2
      <3>5. Allows(child[2], caller) <=>
               Allows(at[2], caller) /\ Allows(attribute.availability, caller)
        BY <2>1, <3>1, <3>2, IntersectIs
      <3>6. Visible(child[1], path, caller) <=> Visible(attribute.shape, path, caller)
        BY <3>1, <3>2, VisibleInside
      <3>7. /\ Holds(child[1], resource, path, caller) <=> Holds(attribute.shape, resource, path, caller)
            /\ Holds(attribute.shape, resource, path, caller) => IsObject(child[1])
        BY <3>1, <3>2, HoldsInside
      <3> QED
        BY <3>2, <3>3, <3>4, <3>5, <3>6, <3>7 DEF HoldsIn, child
    <2>3. Holds(at[1], resource, path, caller) <=>
             IsObject(at[1]) /\ \E attribute \in AttributesOf(at[1]) :
                                   HoldsIn(attribute, resource, path, caller)
      <3> DEFINE shape == at[1]
      <3>1. shape \in Shapes /\ ProjectionObjectShape[shape] = shape
        BY <2>1
      <3> HIDE DEF shape
      <3>2. Holds(shape, resource, path, caller) <=>
               IsObject(shape) /\ \E attribute \in AttributesOf(shape) :
                                     HoldsIn(attribute, resource, path, caller)
        BY <3>1, HoldsIs
      <3> QED
        BY <3>2 DEF shape
    <2> QED
      BY <2>2, <2>3, IndexIs
  <1>2. Good \subseteq Nodes
    OBVIOUS
  <1> HIDE DEF Good
  <1>3. Good = Nodes
    BY <1>1, <1>2, NodesRank, Everywhere
  <1> QED
    BY <1>3 DEF Good

-----------------------------------------------------------------------------
(***************************************************************************)
(* The rendering, in scopes, keeps what the selection keeps of a path.     *)
(***************************************************************************)
\* What one resource keeps, and all that is kept behind a path that is already
\* inside of it.
Inc(projection, resource, path) ==
    resource \in DOMAIN projection => Includes(projection[resource], path)

Along(projection, resource, before, path) ==
    \A n \in 1 .. Len(path) : Inc(projection, resource, before \o SubSeq(path, 1, n))

InScopes(projection, scopes, path) ==
    \A scope \in scopes : Along(projection, scope.name, scope.path, path)

InTurn(projection, path) ==
    \A i, n \in 1 .. Len(path) : i < n => Inc(projection, path[i], SubSeq(path, i + 1, n))

LEMMA AlongLed ==
    ASSUME NEW projection, NEW resource, NEW before \in Paths,
           NEW name \in PropertyName, NEW rest \in Paths
    PROVE  Along(projection, resource, before, <<name>> \o rest) <=>
              /\ Inc(projection, resource, Append(before, name))
              /\ Along(projection, resource, Append(before, name), rest)
  <1> DEFINE path == <<name>> \o rest
             Kept(n) == Inc(projection, resource, before \o SubSeq(path, 1, n))
             Then(n) == Inc(projection, resource, Append(before, name) \o SubSeq(rest, 1, n))
  <1>1. Len(path) = Len(rest) + 1 /\ Len(rest) \in Nat
    BY Led DEF Paths
  <1>2. Kept(1) <=> Inc(projection, resource, Append(before, name))
    <2>1. SubSeq(path, 1, 0 + 1) = <<name>> \o SubSeq(rest, 1, 0) /\ 0 + 1 = 1
      BY <1>1, LedPrefix DEF Paths
    <2>2. SubSeq(rest, 1, 0) = <<>>
      BY <1>1
    <2>3. <<name>> \o <<>> = <<name>>
      OBVIOUS
    <2>4. before \o <<name>> = Append(before, name)
      BY AppendLed DEF Paths
    <2> QED
      BY <2>1, <2>2, <2>3, <2>4
  <1>3. ASSUME NEW n \in 1 .. Len(rest)
        PROVE  Kept(n + 1) <=> Then(n)
    <2> DEFINE part == SubSeq(rest, 1, n)
    <2>1. SubSeq(path, 1, n + 1) = <<name>> \o part
      BY <1>1, LedPrefix DEF Paths
    <2>2. part \in Paths
      BY <1>1, PartsOf DEF Paths
    <2> HIDE DEF part
    <2>3. before \o (<<name>> \o part) = Append(before, name) \o part
      BY <2>2, AppendLed DEF Paths
    <2> QED
      BY <2>1, <2>3 DEF part
  <1>4. Along(projection, resource, before, path) <=> \A n \in 1 .. Len(rest) + 1 : Kept(n)
    BY <1>1 DEF Along
  <1>5. Along(projection, resource, Append(before, name), rest) <=> \A n \in 1 .. Len(rest) : Then(n)
    BY DEF Along
  <1> HIDE DEF Kept, Then, path
  <1>6. (\A n \in 1 .. Len(rest) + 1 : Kept(n)) <=> Kept(1) /\ \A n \in 1 .. Len(rest) : Kept(n + 1)
    <2>1. \A n \in 1 .. Len(rest) + 1 : n = 1 \/ (n - 1 \in 1 .. Len(rest) /\ (n - 1) + 1 = n)
      BY <1>1
    <2>2. 1 \in 1 .. Len(rest) + 1 /\ \A n \in 1 .. Len(rest) : n + 1 \in 1 .. Len(rest) + 1
      BY <1>1
    <2> QED
      BY <2>1, <2>2
  <1> QED
    BY <1>2, <1>3, <1>4, <1>5, <1>6 DEF path

LEMMA InTurnLed ==
    ASSUME NEW projection, NEW name \in PropertyName, NEW rest \in Paths
    PROVE  InTurn(projection, <<name>> \o rest) <=>
              Along(projection, name, <<>>, rest) /\ InTurn(projection, rest)
  <1> DEFINE path == <<name>> \o rest
             Kept(i, n) == Inc(projection, path[i], SubSeq(path, i + 1, n))
             Then(i, n) == Inc(projection, rest[i], SubSeq(rest, i + 1, n))
             First(n) == Inc(projection, name, <<>> \o SubSeq(rest, 1, n))
  <1>1. /\ Len(path) = Len(rest) + 1 /\ Len(rest) \in Nat /\ path[1] = name
        /\ \A i \in 1 .. Len(rest) : path[i + 1] = rest[i]
    BY Led DEF Paths
  <1>2. ASSUME NEW n \in 1 .. Len(rest)
        PROVE  Kept(1, n + 1) <=> First(n)
    <2> DEFINE part == SubSeq(rest, 1, n)
    <2>1. SubSeq(path, 1 + 1, n + 1) = part
      BY <1>1, LedPart DEF Paths
    <2>2. part \in Paths
      BY <1>1, PartsOf DEF Paths
    <2> HIDE DEF part
    <2>3. <<>> \o part = part
      BY <2>2, ConcatEmptySeq DEF Paths
    <2> QED
      BY <1>1, <2>1, <2>3 DEF part
  <1>3. ASSUME NEW i \in 1 .. Len(rest), NEW n \in 1 .. Len(rest)
        PROVE  Kept(i + 1, n + 1) <=> Then(i, n)
    <2>1. i + 1 \in 1 .. Len(rest) + 1 /\ n \in 0 .. Len(rest)
      BY <1>1
    <2>2. SubSeq(path, (i + 1) + 1, n + 1) = SubSeq(rest, i + 1, n)
      BY <2>1, LedPart DEF Paths
    <2> QED
      BY <1>1, <2>2
  <1>4. InTurn(projection, path) <=>
           \A i, n \in 1 .. Len(rest) + 1 : i < n => Kept(i, n)
    BY <1>1 DEF InTurn
  <1>5. InTurn(projection, rest) <=> \A i, n \in 1 .. Len(rest) : i < n => Then(i, n)
    BY DEF InTurn
  <1>6. Along(projection, name, <<>>, rest) <=> \A n \in 1 .. Len(rest) : First(n)
    BY DEF Along
  <1> HIDE DEF Kept, Then, First, path
  <1>7. (\A i, n \in 1 .. Len(rest) + 1 : i < n => Kept(i, n)) <=>
           /\ \A n \in 1 .. Len(rest) : Kept(1, n + 1)
           /\ \A i, n \in 1 .. Len(rest) : i < n => Kept(i + 1, n + 1)
    <2>1. \A n \in 1 .. Len(rest) + 1 : n = 1 \/ (n - 1 \in 1 .. Len(rest) /\ (n - 1) + 1 = n)
      BY <1>1
    <2>2. /\ 1 \in 1 .. Len(rest) + 1
          /\ \A n \in 1 .. Len(rest) : n + 1 \in 1 .. Len(rest) + 1 /\ 1 < n + 1
      BY <1>1
    <2>3. \A i, n \in 1 .. Len(rest) : i < n <=> i + 1 < n + 1
      BY <1>1
    <2>4. ASSUME \A i, n \in 1 .. Len(rest) + 1 : i < n => Kept(i, n)
          PROVE  /\ \A n \in 1 .. Len(rest) : Kept(1, n + 1)
                 /\ \A i, n \in 1 .. Len(rest) : i < n => Kept(i + 1, n + 1)
      BY <2>2, <2>3, <2>4
    <2>5. ASSUME \A n \in 1 .. Len(rest) : Kept(1, n + 1),
                 \A i, n \in 1 .. Len(rest) : i < n => Kept(i + 1, n + 1),
                 NEW i \in 1 .. Len(rest) + 1, NEW n \in 1 .. Len(rest) + 1, i < n
          PROVE  Kept(i, n)
      <3>1. n - 1 \in 1 .. Len(rest) /\ (n - 1) + 1 = n
        BY <1>1, <2>5
      <3>2. CASE i = 1
        BY <2>5, <3>1, <3>2
      <3>3. CASE i # 1
        <4>1. i - 1 \in 1 .. Len(rest) /\ (i - 1) + 1 = i /\ i - 1 < n - 1
          BY <1>1, <2>5, <3>3
        <4> QED
          BY <2>5, <3>1, <4>1
      <3> QED
        BY <3>2, <3>3
    <2> QED
      BY <2>4, <2>5
  <1> QED
    BY <1>2, <1>3, <1>4, <1>5, <1>6, <1>7 DEF path

Allowed(projection, scopes, path) ==
    InScopes(projection, scopes, path) /\ InTurn(projection, path)

LEMMA DescendIs ==
    ASSUME NEW scopes \in Scopes, NEW name \in PropertyName
    PROVE  /\ Descend(scopes, name) \in Scopes
           /\ \A projection, path :
                 InScopes(projection, Descend(scopes, name), path) <=>
                    /\ \A scope \in scopes :
                          Along(projection, scope.name, Append(scope.path, name), path)
                    /\ Along(projection, name, <<>>, path)
  <1> DEFINE own == [name |-> name, path |-> <<>>]
             inner(scope) == [scope EXCEPT !.path = Append(@, name)]
  <1>1. own \in [name : PropertyName, path : Paths] /\ own.name = name /\ own.path = <<>>
    BY DEF Paths
  <1>2. ASSUME NEW scope \in scopes
        PROVE  /\ scope \in [name : PropertyName, path : Paths]
               /\ inner(scope) \in [name : PropertyName, path : Paths]
               /\ inner(scope).name = scope.name
               /\ inner(scope).path = Append(scope.path, name)
    <2>1. scope \in [name : PropertyName, path : Paths]
      BY DEF Scopes
    <2>2. Append(scope.path, name) \in Paths
      BY <2>1, AppendLed DEF Paths
    <2> QED
      BY <2>1, <2>2
  <1> HIDE DEF own, inner
  <1>3. Descend(scopes, name) = {inner(scope) : scope \in scopes} \cup {own}
    BY DEF Descend, own, inner
  <1>4. Descend(scopes, name) \in Scopes
    BY <1>1, <1>2, <1>3 DEF Scopes
  <1>5. ASSUME NEW projection, NEW path
        PROVE  InScopes(projection, Descend(scopes, name), path) <=>
                  /\ \A scope \in scopes :
                        Along(projection, scope.name, Append(scope.path, name), path)
                  /\ Along(projection, name, <<>>, path)
    BY <1>1, <1>2, <1>3 DEF InScopes
  <1> QED
    BY <1>4, <1>5

LEMMA AllowedLed ==
    ASSUME NEW context, NEW scopes \in Scopes, NEW name \in PropertyName, NEW rest \in Paths
    PROVE  Allowed(context.projection, scopes, <<name>> \o rest) <=>
              /\ IncludesAttribute(context, scopes, name)
              /\ Allowed(context.projection, Descend(scopes, name), rest)
  <1> DEFINE projection == context.projection
  <1>1. ASSUME NEW scope \in scopes
        PROVE  Along(projection, scope.name, scope.path, <<name>> \o rest) <=>
                  /\ Inc(projection, scope.name, Append(scope.path, name))
                  /\ Along(projection, scope.name, Append(scope.path, name), rest)
    <2> DEFINE before == scope.path
               resource == scope.name
    <2>1. before \in Paths
      BY DEF Scopes
    <2> HIDE DEF before, resource, projection
    <2>2. Along(projection, resource, before, <<name>> \o rest) <=>
             /\ Inc(projection, resource, Append(before, name))
             /\ Along(projection, resource, Append(before, name), rest)
      BY <2>1, AlongLed
    <2> QED
      BY <2>2 DEF before, resource
  <1>2. IncludesAttribute(context, scopes, name) <=>
           \A scope \in scopes : Inc(projection, scope.name, Append(scope.path, name))
    BY DEF IncludesAttribute, Inc
  <1> HIDE DEF projection
  <1>3. InTurn(projection, <<name>> \o rest) <=>
           Along(projection, name, <<>>, rest) /\ InTurn(projection, rest)
    BY InTurnLed
  <1>4. InScopes(projection, Descend(scopes, name), rest) <=>
           /\ \A scope \in scopes : Along(projection, scope.name, Append(scope.path, name), rest)
           /\ Along(projection, name, <<>>, rest)
    BY DescendIs
  <1> QED
    BY <1>1, <1>2, <1>3, <1>4 DEF Allowed, InScopes, projection

-----------------------------------------------------------------------------
(***************************************************************************)
(* What a value renders to.                                                *)
(***************************************************************************)
Frames == Typed \X Scopes

FrameDepth == [at \in Frames |-> ShapeDepth[at[1][1]]]

LEMMA FrameOf ==
    ASSUME NEW at \in Frames
    PROVE  /\ at[1] \in Typed /\ at[2] \in Scopes
           /\ at[1][1] \in Shapes /\ at[1][2] \in Values
           /\ FrameDepth[at] = ShapeDepth[at[1][1]]
           /\ HasType(at[1][1], at[1][2])
  BY TypedAssumption DEF Frames, FrameDepth

LEMMA FramesRank == FrameDepth \in [Frames -> Nat]
  BY FrameOf, ShapesRank DEF FrameDepth

\* One step into a list, and one into an object.
Item(at, i) == <<<<at[1][1].item, at[1][2].items[i]>>, at[2]>>

Field(at, attribute) ==
    <<<<attribute.shape, at[1][2].fields[attribute.name]>>, Descend(at[2], attribute.name)>>

LEMMA ItemIs ==
    ASSUME NEW at \in Frames, IsList(at[1][1]), NEW i \in DOMAIN at[1][2].items
    PROVE  /\ Item(at, i) \in Frames /\ FrameDepth[Item(at, i)] < FrameDepth[at]
           /\ Item(at, i)[1][1] = at[1][1].item /\ Item(at, i)[1][2] = at[1][2].items[i]
           /\ Item(at, i)[2] = at[2]
  <1>1. <<at[1][1].item, at[1][2].items[i]>> \in Typed /\ at[2] \in Scopes
    BY FrameOf DEF HasType
  <1>2. Item(at, i) \in Frames
    BY <1>1 DEF Item, Frames
  <1>3. /\ Item(at, i)[1][1] = at[1][1].item /\ Item(at, i)[1][2] = at[1][2].items[i]
        /\ Item(at, i)[2] = at[2]
    BY DEF Item
  <1>4. ShapeDepth[at[1][1].item] < ShapeDepth[at[1][1]]
    BY FrameOf, Inside
  <1> QED
    BY <1>2, <1>3, <1>4, FrameOf

LEMMA FieldIs ==
    ASSUME NEW at \in Frames, IsObject(at[1][1]), NEW attribute \in AttributesOf(at[1][1]),
           attribute.name \in DOMAIN at[1][2].fields
    PROVE  /\ Field(at, attribute) \in Frames
           /\ FrameDepth[Field(at, attribute)] < FrameDepth[at]
           /\ Field(at, attribute)[1][1] = attribute.shape
           /\ Field(at, attribute)[1][2] = at[1][2].fields[attribute.name]
           /\ Field(at, attribute)[2] = Descend(at[2], attribute.name)
  <1>1. /\ <<attribute.shape, at[1][2].fields[attribute.name]>> \in Typed /\ at[2] \in Scopes
        /\ attribute.name \in PropertyName
        /\ ShapeDepth[attribute.shape] < ShapeDepth[at[1][1]]
    BY FrameOf, Inside DEF HasType
  <1>2. Descend(at[2], attribute.name) \in Scopes
    BY <1>1, DescendIs
  <1>3. Field(at, attribute) \in Frames
    BY <1>1, <1>2 DEF Field, Frames
  <1>4. /\ Field(at, attribute)[1][1] = attribute.shape
        /\ Field(at, attribute)[1][2] = at[1][2].fields[attribute.name]
        /\ Field(at, attribute)[2] = Descend(at[2], attribute.name)
    BY DEF Field
  <1> QED
    BY <1>1, <1>3, <1>4, FrameOf

\* The local function of Project.
EmittedAt(context, at) == Emitted(at[1][1], context, at[2], at[1][2])

RenderingBody(context, g, at) ==
    IF IsList(at[1][1])
    THEN UNION {g[Item(at, i)] : i \in DOMAIN at[1][2].items}
    ELSE IF IsObject(at[1][1])
    THEN UNION {LET inner == g[Field(at, attribute)]
                IN {<<attribute.name>> \o path : path \in inner \cup {<<>>}}
                : attribute \in EmittedAt(context, at)}
    ELSE {}

Rendering(context) ==
    CHOOSE g : g = [at \in Typed \X Scopes |-> RenderingBody(context, g, at)]

LEMMA ProjectIsRendering ==
    ASSUME NEW shape, NEW context, NEW value
    PROVE  Project(shape, context, value) = Rendering(context)[<<<<shape, value>>, {}>>]
  BY DEF Project, Rendering, RenderingBody, EmittedAt, Item, Field

LEMMA EmittedIs ==
    ASSUME NEW at \in Frames, NEW context, NEW attribute
    PROVE  attribute \in EmittedAt(context, at) <=>
              /\ attribute \in AttributesOf(at[1][1])
              /\ Allows(attribute.availability, context.caller)
              /\ IncludesAttribute(context, at[2], attribute.name)
              /\ attribute.name \in DOMAIN at[1][2].fields
  BY DEF EmittedAt, Emitted, Selected

LEMMA RenderingEquation ==
    ASSUME NEW context
    PROVE  /\ Rendering(context) \in [Frames -> SUBSET Paths]
           /\ \A at \in Frames :
                 Rendering(context)[at] = RenderingBody(context, Rendering(context), at)
  <1> DEFINE T == SUBSET Paths
             Piece(g, at, attribute) ==
                {<<attribute.name>> \o path : path \in g[Field(at, attribute)] \cup {<<>>}}
             Body(g, at) ==
                IF IsList(at[1][1])
                THEN UNION {g[Item(at, i)] : i \in DOMAIN at[1][2].items}
                ELSE IF IsObject(at[1][1])
                THEN UNION {Piece(g, at, attribute) : attribute \in EmittedAt(context, at)}
                ELSE {}
             D == [pair \in [Frames -> T] \X Frames |-> Body(pair[1], pair[2])]
             R == Rendering(context)
  <1>0. ASSUME NEW at \in Frames, IsObject(at[1][1]), NEW attribute \in EmittedAt(context, at)
        PROVE  /\ Field(at, attribute) \in Frames
               /\ FrameDepth[Field(at, attribute)] < FrameDepth[at]
               /\ attribute.name \in PropertyName
    BY <1>0, EmittedIs, FieldIs, FrameOf, Inside
  <1>1. ASSUME NEW g, NEW at \in Frames, IsObject(at[1][1]),
               NEW attribute \in EmittedAt(context, at), g[Field(at, attribute)] \in T
        PROVE  Piece(g, at, attribute) \in T
    <2>1. attribute.name \in PropertyName /\ <<>> \in Paths
      BY <1>0, <1>1 DEF Paths
    <2>2. \A path \in g[Field(at, attribute)] \cup {<<>>} : <<attribute.name>> \o path \in Paths
      BY <1>1, <2>1, Led DEF Paths
    <2> QED
      BY <2>2, Zenon
  <1>2. ASSUME NEW g, NEW at \in Frames,
               \A x \in Frames : FrameDepth[x] < FrameDepth[at] => g[x] \in T
        PROVE  Body(g, at) \in T
    <2> HIDE DEF Piece, T
    <2>1. ASSUME IsObject(at[1][1]), NEW attribute \in EmittedAt(context, at)
          PROVE  Piece(g, at, attribute) \in T
      BY <1>0, <1>1, <1>2, <2>1
    <2>2. ASSUME IsList(at[1][1]), NEW i \in DOMAIN at[1][2].items
          PROVE  g[Item(at, i)] \in T
      BY <1>2, <2>2, ItemIs
    <2> USE DEF T
    <2> QED
      BY <2>1, <2>2
  <1>3. ASSUME NEW g, NEW h, NEW at \in Frames,
               \A x \in Frames : FrameDepth[x] < FrameDepth[at] => g[x] = h[x]
        PROVE  Body(g, at) = Body(h, at)
    <2>1. ASSUME IsObject(at[1][1]), NEW attribute \in EmittedAt(context, at)
          PROVE  Piece(g, at, attribute) = Piece(h, at, attribute)
      <3>1. g[Field(at, attribute)] = h[Field(at, attribute)]
        BY <1>0, <1>3, <2>1
      <3> QED
        BY <3>1
    <2>2. ASSUME IsList(at[1][1]), NEW i \in DOMAIN at[1][2].items
          PROVE  g[Item(at, i)] = h[Item(at, i)]
      BY <1>3, <2>2, ItemIs
    <2> HIDE DEF Piece
    <2> QED
      BY <2>1, <2>2
  <1> HIDE DEF Body
  <1>4. \A g \in [Frames -> T], at \in Frames : D[<<g, at>>] = Body(g, at)
    BY DEF D
  <1>5. D \in [[Frames -> T] \X Frames -> T]
    <2> HIDE DEF T
    <2> QED
      BY <1>2 DEF D
  <1> HIDE DEF D, T
  <1>6. LooksLower(Frames, T, FrameDepth, D)
    BY <1>3, <1>4 DEF LooksLower
  <1>7. Recursion(Frames, T, FrameDepth, D)
    <2>1. T # {}
      BY DEF T
    <2> QED
      BY <1>5, <1>6, <2>1, FramesRank DEF Recursion
  <1>8. PICK f : Solves(Frames, T, D, f)
    BY <1>7, RecursiveFunction
  <1>9. f = [at \in Frames |-> Body(f, at)]
    BY <1>4, <1>8 DEF Solves
  <1>10. R = [at \in Frames |-> Body(R, at)]
    <2>1. R = CHOOSE g : g = [at \in Frames |-> Body(g, at)]
      BY DEF Rendering, RenderingBody, Body, Piece, Frames
    <2> HIDE DEF R
    <2> QED
      BY <1>9, <2>1
  <1> HIDE DEF R
  <1> DEFINE Good == {at \in Frames : R[at] \in T}
  <1>11. ASSUME NEW s \in Frames,
                \A inner \in Frames : FrameDepth[inner] < FrameDepth[s] => inner \in Good
         PROVE  s \in Good
    BY <1>2, <1>10, <1>11
  <1>12. Good \subseteq Frames
    OBVIOUS
  <1> HIDE DEF Good
  <1>13. Good = Frames
    BY <1>11, <1>12, FramesRank, Everywhere
  <1>14. R \in [Frames -> T]
    BY <1>10, <1>13 DEF Good
  <1>15. \A at \in Frames : R[at] = Body(R, at)
    BY <1>10
  <1> QED
    BY <1>14, <1>15 DEF T, Body, Piece, R, RenderingBody

\* A path that begins with a name and goes on with one of some paths, if at all.
Leading(name, rests, path) == \E rest \in rests \cup {<<>>} : path = <<name>> \o rest

LEMMA PathOfFields ==
    ASSUME NEW value \in Values, "items" \notin DOMAIN value, "fields" \in DOMAIN value, NEW path
    PROVE  path \in ValuePaths[value] <=>
              \E name \in DOMAIN value.fields : Leading(name, ValuePaths[value.fields[name]], path)
  <1> DEFINE There(name) ==
                {<<name>> \o rest : rest \in ValuePaths[value.fields[name]] \cup {<<>>}}
  <1>1. ValuePaths[value] = UNION {There(name) : name \in DOMAIN value.fields}
    BY ValuePathsEquation
  <1>2. \A name : path \in There(name) <=> Leading(name, ValuePaths[value.fields[name]], path)
    BY DEF Leading
  <1> HIDE DEF There
  <1>3. path \in ValuePaths[value] <=> \E name \in DOMAIN value.fields : path \in There(name)
    BY <1>1
  <1> QED
    BY <1>2, <1>3, Zenon

LEMMA PathOfItems ==
    ASSUME NEW value \in Values, "items" \in DOMAIN value, NEW path
    PROVE  path \in ValuePaths[value] <=>
              \E i \in DOMAIN value.items : path \in ValuePaths[value.items[i]]
  BY ValuePathsEquation

LEMMA NoEmptyPath == \A value \in Values : <<>> \notin ValuePaths[value]
  <1> DEFINE Good == {value \in Values : <<>> \notin ValuePaths[value]}
  <1>1. ASSUME NEW value \in Values,
               \A inner \in Values : ValueDepth[inner] < ValueDepth[value] => inner \in Good
        PROVE  value \in Good
    <2> SUFFICES ASSUME NEW empty, empty = <<>>, empty \in ValuePaths[value] PROVE FALSE
      OBVIOUS
    <2>1. CASE "items" \in DOMAIN value
      <3>1. PICK i \in DOMAIN value.items : empty \in ValuePaths[value.items[i]]
        BY <2>1, PathOfItems
      <3> QED
        BY <1>1, <2>1, <3>1, InsideValue
    <2>2. CASE "items" \notin DOMAIN value /\ "fields" \in DOMAIN value
      <3>1. PICK name \in DOMAIN value.fields :
               Leading(name, ValuePaths[value.fields[name]], empty)
        BY <2>2, PathOfFields
      <3>2. name \in PropertyName /\ value.fields[name] \in Values
        BY <2>2, InsideValue
      <3>3. PICK path \in Paths : empty = <<name>> \o path
        BY <3>1, <3>2, ValuePathsEquation DEF Paths, Leading
      <3> QED
        BY <3>2, <3>3, Led DEF Paths
    <2> QED
      BY <2>1, <2>2, ValuePathsEquation
  <1>2. Good \subseteq Values
    OBVIOUS
  <1> HIDE DEF Good
  <1>3. Good = Values
    BY <1>1, <1>2, ValuesRank, Everywhere
  <1> QED
    BY <1>3 DEF Good

LEMMA RenderedPath ==
    ASSUME NEW context, NEW at \in Frames, NEW path
    PROVE  path \in Rendering(context)[at] <=>
              \/ /\ IsList(at[1][1])
                 /\ \E i \in DOMAIN at[1][2].items : path \in Rendering(context)[Item(at, i)]
              \/ /\ ~ IsList(at[1][1]) /\ IsObject(at[1][1])
                 /\ \E attribute \in EmittedAt(context, at) :
                       Leading(attribute.name, Rendering(context)[Field(at, attribute)], path)
  <1> DEFINE R == Rendering(context)
             There(attribute) ==
                {<<attribute.name>> \o rest : rest \in R[Field(at, attribute)] \cup {<<>>}}
  <1>1. R[at] = IF IsList(at[1][1])
                THEN UNION {R[Item(at, i)] : i \in DOMAIN at[1][2].items}
                ELSE IF IsObject(at[1][1])
                THEN UNION {There(attribute) : attribute \in EmittedAt(context, at)}
                ELSE {}
    BY RenderingEquation DEF RenderingBody
  <1>2. \A attribute : path \in There(attribute) <=>
                          Leading(attribute.name, R[Field(at, attribute)], path)
    BY DEF Leading
  <1> HIDE DEF There, R
  <1>3. path \in R[at] <=>
           \/ /\ IsList(at[1][1])
              /\ \E i \in DOMAIN at[1][2].items : path \in R[Item(at, i)]
           \/ /\ ~ IsList(at[1][1]) /\ IsObject(at[1][1])
              /\ \E attribute \in EmittedAt(context, at) : path \in There(attribute)
    BY <1>1
  <1> QED
    BY <1>2, <1>3, Zenon DEF R

LEMMA VisibleItem ==
    ASSUME NEW shape \in Shapes, IsList(shape), NEW path, NEW caller
    PROVE  Visible(shape, path, caller) <=> Visible(shape.item, path, caller)
  <1> DEFINE object == ProjectionObjectShape[shape]
             item == shape.item
  <1>1. item \in Shapes /\ ProjectionObjectShape[item] = object
    BY Inside, ObjectShapeIs
  <1> HIDE DEF item
  <1>2. Visible(object, path, caller) <=> Visible(item, path, caller)
    BY <1>1, VisibleInside
  <1> QED
    BY <1>2, VisibleInside DEF item

\* What is rendered of a value, in scopes: the paths that are visible and kept.
Kept(context, at) ==
    {path \in ValuePaths[at[1][2]] : /\ Visible(at[1][1], path, context.caller)
                                     /\ Allowed(context.projection, at[2], path)}

LEMMA NothingLeft ==
    ASSUME NEW projection, NEW scopes
    PROVE  Allowed(projection, scopes, <<>>)
  BY EmptySeq DEF Allowed, InScopes, Along, InTurn

LEMMA KeptField ==
    ASSUME NEW context, NEW at \in Frames, IsObject(at[1][1]),
           NEW attribute \in AttributesOf(at[1][1]), attribute.name \in DOMAIN at[1][2].fields,
           NEW rest \in ValuePaths[at[1][2].fields[attribute.name]] \cup {<<>>}
    PROVE  <<attribute.name>> \o rest \in Kept(context, at) <=>
              /\ attribute \in EmittedAt(context, at)
              /\ rest \in Kept(context, Field(at, attribute)) \cup {<<>>}
  <1> DEFINE name == attribute.name
             shape == at[1][1]
             value == at[1][2]
             scopes == at[2]
             caller == context.caller
             path == <<name>> \o rest
  <1>1. /\ shape \in Shapes /\ value \in Values /\ scopes \in Scopes
        /\ ProjectionObjectShape[shape] = shape
        /\ "items" \notin DOMAIN value /\ "fields" \in DOMAIN value
        /\ name \in PropertyName /\ value.fields[name] \in Values
    BY FrameOf, Inside, InsideValue, ObjectShapeIs DEF HasType
  <1>2. rest \in Paths
    <2>1. ValuePaths[value.fields[name]] \subseteq Paths /\ <<>> \in Paths
      BY <1>1, ValuePathsEquation DEF Paths
    <2> QED
      BY <2>1
  <1>3. path \in ValuePaths[value]
    BY <1>1, PathOfFields DEF Leading
  <1>4. Visible(shape, path, caller) <=>
           Allows(attribute.availability, caller) /\ Visible(attribute.shape, rest, caller)
    <2>1. attribute \in AttributesOf(ProjectionObjectShape[shape])
          /\ IsObject(ProjectionObjectShape[shape])
      BY <1>1
    <2> HIDE DEF shape, caller
    <2> QED
      BY <1>1, <1>2, <2>1, VisibleIn
  <1>5. Allowed(context.projection, scopes, path) <=>
           /\ IncludesAttribute(context, scopes, name)
           /\ Allowed(context.projection, Descend(scopes, name), rest)
    <2> HIDE DEF scopes, name
    <2> QED
      BY <1>1, <1>2, AllowedLed
  <1>6. attribute \in EmittedAt(context, at) <=>
           Allows(attribute.availability, caller) /\ IncludesAttribute(context, scopes, name)
    BY EmittedIs
  <1>7. rest \in Kept(context, Field(at, attribute)) \cup {<<>>} <=>
           /\ Visible(attribute.shape, rest, caller)
           /\ Allowed(context.projection, Descend(scopes, name), rest)
    <2>1. rest = <<>> => /\ Visible(attribute.shape, rest, caller)
                         /\ Allowed(context.projection, Descend(scopes, name), rest)
      BY VisibleEmpty, NothingLeft
    <2>2. /\ Field(at, attribute)[1][1] = attribute.shape
          /\ Field(at, attribute)[1][2] = value.fields[name]
          /\ Field(at, attribute)[2] = Descend(scopes, name)
      BY FieldIs
    <2> QED
      BY <2>1, <2>2 DEF Kept
  <1>8. path \in Kept(context, at) <=>
           Visible(shape, path, caller) /\ Allowed(context.projection, scopes, path)
    BY <1>3 DEF Kept
  <1> QED
    BY <1>4, <1>5, <1>6, <1>7, <1>8

LEMMA RendersWhatIsKept ==
    ASSUME NEW context
    PROVE  \A at \in Frames : Rendering(context)[at] = Kept(context, at)
  <1> DEFINE R == Rendering(context)
             Good == {at \in Frames : R[at] = Kept(context, at)}
  <1>1. ASSUME NEW at \in Frames,
               \A inner \in Frames : FrameDepth[inner] < FrameDepth[at] => inner \in Good
        PROVE  at \in Good
    <2>1. ASSUME NEW path
          PROVE  path \in R[at] <=> path \in Kept(context, at)
      <3>1. CASE IsList(at[1][1])
        <4>1. path \in R[at] <=> \E i \in DOMAIN at[1][2].items : path \in R[Item(at, i)]
          BY <3>1, RenderedPath
        <4>2. \A i \in DOMAIN at[1][2].items :
                 path \in R[Item(at, i)] <=> path \in Kept(context, Item(at, i))
          BY <1>1, <3>1, ItemIs
        <4>3. path \in ValuePaths[at[1][2]] <=>
                 \E i \in DOMAIN at[1][2].items : path \in ValuePaths[at[1][2].items[i]]
          BY <3>1, FrameOf, PathOfItems DEF HasType
        <4>4. Visible(at[1][1], path, context.caller) <=>
                 Visible(at[1][1].item, path, context.caller)
          BY <3>1, FrameOf, VisibleItem
        <4>5. \A i \in DOMAIN at[1][2].items :
                 path \in Kept(context, Item(at, i)) <=>
                    /\ path \in ValuePaths[at[1][2].items[i]]
                    /\ Visible(at[1][1].item, path, context.caller)
                    /\ Allowed(context.projection, at[2], path)
          BY <3>1, ItemIs DEF Kept
        <4> QED
          BY <4>1, <4>2, <4>3, <4>4, <4>5 DEF Kept
      <3>2. CASE IsObject(at[1][1])
        <4>0. /\ ~ IsList(at[1][1]) /\ at[1][1] \in Shapes /\ at[1][2] \in Values
              /\ "items" \notin DOMAIN at[1][2] /\ "fields" \in DOMAIN at[1][2]
              /\ DOMAIN at[1][2].fields \subseteq Names(at[1][1])
          BY <3>2, FrameOf, Inside DEF HasType
        <4>1. path \in R[at] <=>
                 \E attribute \in EmittedAt(context, at) :
                    Leading(attribute.name, R[Field(at, attribute)], path)
          BY <3>2, <4>0, RenderedPath
        <4>2. ASSUME NEW attribute \in EmittedAt(context, at)
              PROVE  /\ attribute \in AttributesOf(at[1][1])
                     /\ attribute.name \in DOMAIN at[1][2].fields
                     /\ R[Field(at, attribute)] = Kept(context, Field(at, attribute))
                     /\ Kept(context, Field(at, attribute))
                           \subseteq ValuePaths[at[1][2].fields[attribute.name]]
          BY <1>1, <3>2, <4>2, EmittedIs, FieldIs DEF Kept
        <4>3. ASSUME path \in R[at]
              PROVE  path \in Kept(context, at)
          <5>1. PICK attribute \in EmittedAt(context, at) :
                   \E rest \in Kept(context, Field(at, attribute)) \cup {<<>>} :
                      path = <<attribute.name>> \o rest
            BY <4>1, <4>2, <4>3 DEF Leading
          <5>2. PICK rest \in Kept(context, Field(at, attribute)) \cup {<<>>} :
                   path = <<attribute.name>> \o rest
            BY <5>1
          <5>3. rest \in ValuePaths[at[1][2].fields[attribute.name]] \cup {<<>>}
            BY <4>2, <5>2
          <5> QED
            BY <3>2, <4>2, <5>2, <5>3, KeptField
        <4>4. ASSUME path \in Kept(context, at)
              PROVE  path \in R[at]
          <5>1. path \in ValuePaths[at[1][2]]
            BY <4>4 DEF Kept
          <5>2. PICK name \in DOMAIN at[1][2].fields :
                   \E rest \in ValuePaths[at[1][2].fields[name]] \cup {<<>>} :
                      path = <<name>> \o rest
            BY <4>0, <5>1, PathOfFields, ZenonT(60) DEF Leading
          <5>3. PICK attribute \in AttributesOf(at[1][1]) : attribute.name = name
            BY <4>0 DEF Names
          <5>4. PICK rest \in ValuePaths[at[1][2].fields[attribute.name]] \cup {<<>>} :
                   path = <<attribute.name>> \o rest
            BY <5>2, <5>3
          <5>5. /\ attribute \in EmittedAt(context, at)
                /\ rest \in Kept(context, Field(at, attribute)) \cup {<<>>}
            BY <3>2, <4>4, <5>3, <5>4, KeptField
          <5> QED
            BY <4>1, <4>2, <5>4, <5>5 DEF Leading
        <4> QED
          BY <4>3, <4>4
      <3>3. CASE ~ IsList(at[1][1]) /\ ~ IsObject(at[1][1])
        <4>1. path \notin R[at]
          BY <3>3, RenderedPath
        <4>2. ASSUME path \in Kept(context, at)
              PROVE  FALSE
          <5>1. /\ path \in ValuePaths[at[1][2]] /\ at[1][2] \in Values /\ at[1][1] \in Shapes
                /\ Visible(at[1][1], path, context.caller)
            BY <4>2, FrameOf DEF Kept
          <5>2. path \in Paths /\ path # <<>>
            BY <5>1, ValuePathsEquation, NoEmptyPath
          <5>3. PICK name \in PropertyName, rest \in Paths : path = <<name>> \o rest
            BY <5>2, EmptyOrLed DEF Paths
          <5>4. ProjectionObjectShape[at[1][1]] = at[1][1]
            BY <3>3, <5>1, ObjectShapeIs
          <5> DEFINE shape == at[1][1]
          <5>5. /\ shape \in Shapes /\ ~ IsObject(ProjectionObjectShape[shape])
                /\ Visible(shape, <<name>> \o rest, context.caller)
            BY <3>3, <5>1, <5>3, <5>4
          <5> HIDE DEF shape
          <5> QED
            BY <5>5, VisibleLed
        <4> QED
          BY <4>1, <4>2
      <3> QED
        BY <3>1, <3>2, <3>3
    <2> HIDE DEF R
    <2> QED
      BY <2>1
  <1>2. Good \subseteq Frames
    OBVIOUS
  <1> HIDE DEF Good
  <1>3. Good = Frames
    BY <1>1, <1>2, FramesRank, Everywhere
  <1> QED
    BY <1>3 DEF Good

-----------------------------------------------------------------------------
(***************************************************************************)
(* The selection a request makes is of paths that are not empty.           *)
(***************************************************************************)
IsSelection(projection) ==
    \A resource \in DOMAIN projection :
        \A path \in projection[resource].paths : path \in Paths /\ path # <<>>

LEMMA NoSelection == IsSelection(NoProjection)
  <1>1. DOMAIN NoProjection = {}
    BY DEF NoProjection
  <1> QED
    BY <1>1 DEF IsSelection

LEMMA SelectionIs ==
    ASSUME NEW resource, NEW selection, SelectionErrors(resource, selection) = {},
           NEW i \in DOMAIN Texts(selection.fields[Mode(selection)])
    PROVE  LET path == Segments[Trim[Texts(selection.fields[Mode(selection)])[i]]]
           IN path \in Paths /\ path # <<>>
  <1> DEFINE texts == Texts(selection.fields[Mode(selection)])
  <1>1. DefinesProjection(texts)
    BY DEF SelectionErrors
  <1> HIDE DEF texts
  <1>2. \A j \in DOMAIN texts : Trim[texts[j]] \in DOMAIN Segments
    BY <1>1 DEF DefinesProjection, IsPropertyPath
  <1>3. i \in DOMAIN texts
    BY DEF texts
  <1> DEFINE text == Trim[texts[i]]
  <1>4. text \in DOMAIN Segments
    BY <1>2, <1>3
  <1> HIDE DEF text
  <1>5. Segments[text] \in Seq(STRING) /\ Segments[text] # <<>>
    BY <1>4, SegmentsAssumption
  <1> QED
    BY <1>5 DEF text, texts, Paths, PropertyName

LEMMA ProjectionIs ==
    ASSUME NEW body, PrepareMetaErrors(body) = {}
    PROVE  IsSelection(ProjectionOf(body))
  <1> DEFINE meta == body.fields["request_meta"]
             response == meta.fields["response"]
             wire == response.fields["projection"]
  <1>1. CASE body.json # "object" \/ meta.json = "null" \/ ~ Given(meta, "response")
                \/ ~ Given(response, "projection")
    BY <1>1, NoSelection DEF ProjectionOf
  <1>2. CASE ~ (body.json # "object" \/ meta.json = "null" \/ ~ Given(meta, "response")
                   \/ ~ Given(response, "projection"))
    <2>1. ParseMeta(meta) = {}
      BY <1>2 DEF PrepareMetaErrors
    <2>2. ParseResponse(response) = {}
      BY <1>2, <2>1 DEF ParseMeta
    <2>3. ProjectionErrors(wire) = {}
      BY <1>2, <2>2, SMTT(30) DEF ParseResponse
    <2>4. ProjectionOf(body) =
             [resource \in {Trim[name] : name \in DOMAIN wire.fields} |->
               LET name == CHOOSE n \in DOMAIN wire.fields : Trim[n] = resource
                   selection == wire.fields[name]
                   texts == Texts(selection.fields[Mode(selection)])
               IN [mode |-> Mode(selection),
                   paths |-> {Segments[Trim[texts[i]]] : i \in DOMAIN texts}]]
      BY <1>2 DEF ProjectionOf
    <2> HIDE DEF wire
    <2>5. \A name \in DOMAIN wire.fields : SelectionErrors(name, wire.fields[name]) = {}
      <3> DEFINE errors == UNION {SelectionErrors(name, wire.fields[name]) :
                                     name \in DOMAIN wire.fields}
      <3>1. errors = {}
        BY <2>3 DEF ProjectionErrors
      <3> QED
        BY <3>1
    <2>6. ASSUME NEW resource \in {Trim[name] : name \in DOMAIN wire.fields},
                 NEW path \in ProjectionOf(body)[resource].paths
          PROVE  path \in Paths /\ path # <<>>
      <3> DEFINE name == CHOOSE n \in DOMAIN wire.fields : Trim[n] = resource
                 selection == wire.fields[name]
                 texts == Texts(selection.fields[Mode(selection)])
      <3>1. name \in DOMAIN wire.fields
        BY ZenonT(30)
      <3>2. ProjectionOf(body)[resource].paths = {Segments[Trim[texts[i]]] : i \in DOMAIN texts}
        <4>1. ProjectionOf(body)[resource] =
                 [mode |-> Mode(selection),
                  paths |-> {Segments[Trim[texts[i]]] : i \in DOMAIN texts}]
          BY <2>4, ZenonT(60)
        <4> DEFINE paths == {Segments[Trim[texts[i]]] : i \in DOMAIN texts}
                   mode == Mode(selection)
        <4>2. ProjectionOf(body)[resource] = [mode |-> mode, paths |-> paths]
          BY <4>1
        <4> HIDE DEF paths, mode
        <4>3. ProjectionOf(body)[resource].paths = paths
          BY <4>2
        <4> QED
          BY <4>3 DEF paths
      <3> HIDE DEF name
      <3>3. SelectionErrors(name, selection) = {}
        BY <2>5, <3>1
      <3>4. PICK i \in DOMAIN texts : path = Segments[Trim[texts[i]]]
        BY <2>6, <3>2, SMTT(30)
      <3> HIDE DEF selection
      <3> QED
        BY <3>3, <3>4, SelectionIs, SMTT(30)
    <2>7. DOMAIN ProjectionOf(body) = {Trim[name] : name \in DOMAIN wire.fields}
      BY <2>4
    <2> QED
      BY <2>6, <2>7 DEF IsSelection
  <1> QED
    BY <1>1, <1>2, SMTT(30)

-----------------------------------------------------------------------------
(***************************************************************************)
(* The rendering and the schema, compared with what the properties say.    *)
(***************************************************************************)
LEMMA OmittedIs ==
    ASSUME NEW omitted \in Paths, omitted # <<>>, NEW inside \in Paths
    PROVE  IsPrefix(omitted, inside) <=> \E n \in DOMAIN inside : SubSeq(inside, 1, n) = omitted
  <1>1. /\ Len(omitted) \in Nat /\ Len(inside) \in Nat /\ Len(omitted) # 0
        /\ DOMAIN inside = 1 .. Len(inside)
    BY EmptySeq DEF Paths
  <1>2. SubSeq(omitted, 1, Len(omitted)) = omitted
    BY SubSeqFull DEF Paths
  <1>3. \A n \in 1 .. Len(inside) : Len(SubSeq(inside, 1, n)) = n
    <2> SUFFICES ASSUME NEW n \in 1 .. Len(inside) PROVE Len(SubSeq(inside, 1, n)) = n
      OBVIOUS
    <2>1. 1 \in 1 .. Len(inside) + 1 /\ n \in 0 .. Len(inside)
      BY <1>1
    <2> QED
      BY <2>1, PartsOf DEF Paths
  <1> QED
    BY <1>1, <1>2, <1>3 DEF IsPrefix

LEMMA KeepsInTurn ==
    ASSUME NEW projection, IsSelection(projection), NEW path \in Paths
    PROVE  Keeps(projection, path) <=> InTurn(projection, path)
  <1>1. DOMAIN path = 1 .. Len(path) /\ Len(path) \in Nat
    BY DEF Paths
  <1>2. ASSUME NEW i \in 1 .. Len(path), NEW n \in 1 .. Len(path), path[i] \in DOMAIN projection
        PROVE  Includes(projection[path[i]], SubSeq(path, i + 1, n)) <=>
                  (LET inside == SubSeq(path, i + 1, n)
                       paths == projection[path[i]].paths
                   IN IF projection[path[i]].mode = "pick"
                      THEN \E picked \in paths : IsPrefix(inside, picked) \/ IsPrefix(picked, inside)
                      ELSE \A k \in DOMAIN inside : SubSeq(inside, 1, k) \notin paths)
    <2> DEFINE inside == SubSeq(path, i + 1, n)
               selection == projection[path[i]]
    <2>1. inside \in Paths
      <3>1. i + 1 \in 1 .. Len(path) + 1 /\ n \in 0 .. Len(path)
        BY <1>1
      <3> QED
        BY <3>1, PartsOf DEF Paths
    <2>2. \A omitted \in selection.paths : omitted \in Paths /\ omitted # <<>>
      BY <1>2 DEF IsSelection
    <2> HIDE DEF inside, selection
    <2>3. (\A omitted \in selection.paths : ~ IsPrefix(omitted, inside)) <=>
             \A k \in DOMAIN inside : SubSeq(inside, 1, k) \notin selection.paths
      BY <2>1, <2>2, OmittedIs, ZenonT(60)
    <2> QED
      BY <2>3 DEF Includes, inside, selection
  <1> QED
    BY <1>1, <1>2 DEF Keeps, InTurn, Inc

LEMMA ProjectIs ==
    ASSUME NEW shape, NEW value, <<shape, value>> \in Typed,
           NEW context, IsSelection(context.projection)
    PROVE  Project(shape, context, value) =
              {path \in ValuePaths[value] : /\ Visible(shape, path, context.caller)
                                            /\ Keeps(context.projection, path)}
  <1> DEFINE at == <<<<shape, value>>, {}>>
  <1>1. at \in Frames /\ at[1][1] = shape /\ at[1][2] = value /\ at[2] = {}
    BY DEF Frames, Scopes
  <1>2. Project(shape, context, value) = Rendering(context)[at]
    BY ProjectIsRendering
  <1> HIDE DEF at
  <1>3. Project(shape, context, value) = Kept(context, at)
    BY <1>1, <1>2, RendersWhatIsKept
  <1>4. ASSUME NEW path \in ValuePaths[value]
        PROVE  Allowed(context.projection, {}, path) <=> Keeps(context.projection, path)
    <2>1. value \in Values
      BY <1>1, FrameOf
    <2>2. path \in Paths
      BY <2>1, ValuePathsEquation
    <2>3. InScopes(context.projection, {}, path)
      BY DEF InScopes
    <2> QED
      BY <2>2, <2>3, KeepsInTurn DEF Allowed
  <1> QED
    BY <1>1, <1>3, <1>4 DEF Kept

\* What the contracts of an endpoint show.
HeldIn(list, resource, path, caller) ==
    \E contract \in {c \in ToSet(list) : Projectable(c)} :
        Holds(contract.body, resource, path, caller)

LEMMA SchemaIs ==
    ASSUME NEW list, \A i \in DOMAIN list : list[i].body \in Shapes,
           NEW resource, NEW path \in Paths, NEW caller
    PROVE  IndexHolds(DeriveSchema(list), resource, path, caller) <=>
              HeldIn(list, resource, path, caller)
  <1> DEFINE There(contract) ==
                IndexResources[<<ProjectionObjectShape[contract.body], Unrestricted>>]
             Chosen == {c \in ToSet(list) : Projectable(c)}
  <1>1. DeriveSchema(list) = UNION {There(contract) : contract \in Chosen}
    BY DEF DeriveSchema
  <1>2. ASSUME NEW contract \in Chosen
        PROVE  IndexHolds(There(contract), resource, path, caller) <=>
                  Holds(contract.body, resource, path, caller)
    <2> DEFINE shape == contract.body
               object == ProjectionObjectShape[shape]
               at == <<object, Unrestricted>>
    <2>1. shape \in Shapes
      BY DEF ToSet
    <2>2. Unrestricted \in CallerSets /\ Allows(Unrestricted, caller)
      BY DEF Unrestricted, CallerSets, Allows
    <2> HIDE DEF shape
    <2>3. object \in Shapes /\ ~ IsList(object)
      BY <2>1, ObjectShapeIs
    <2>4. at \in Nodes /\ at[1] = object /\ at[2] = Unrestricted
      BY <2>2, <2>3 DEF Nodes
    <2>5. Holds(object, resource, path, caller) <=> Holds(shape, resource, path, caller)
      BY <2>1, HoldsInside
    <2> HIDE DEF at, object
    <2>6. IndexHolds(IndexResources[at], resource, path, caller) <=>
             Allows(at[2], caller) /\ Holds(at[1], resource, path, caller)
      BY <2>3, <2>4, IndexShows
    <2> QED
      BY <2>2, <2>4, <2>5, <2>6 DEF at, object, shape
  <1> HIDE DEF There, Chosen
  <1>3. IndexHolds(DeriveSchema(list), resource, path, caller) <=>
           \E contract \in Chosen : IndexHolds(There(contract), resource, path, caller)
    BY <1>1 DEF IndexHolds
  <1> QED
    BY <1>2, <1>3 DEF Chosen, HeldIn

LEMMA ShowsIs ==
    ASSUME NEW resource, NEW path, NEW caller
    PROVE  Shows(resource, path, caller) <=> HeldIn(contracts, resource, path, caller)
  BY DEF Shows, HeldIn, Holds, Leads

\* Who is let in: who asks for what is shown.
GrantedBy(list, projection, caller) ==
    \A resource \in DOMAIN projection :
        /\ HeldIn(list, resource, <<>>, caller)
        /\ \A path \in projection[resource].paths : HeldIn(list, resource, path, caller)

LEMMA ValidatesIs ==
    ASSUME NEW list, \A i \in DOMAIN list : list[i].body \in Shapes,
           NEW projection, IsSelection(projection), NEW caller
    PROVE  Validates(DeriveSchema(list), projection, caller) <=> GrantedBy(list, projection, caller)
  <1> DEFINE schema == DeriveSchema(list)
             roots(resource) == {root[2] : root \in {s \in schema : s[1] = resource}}
  <1>1. ASSUME NEW resource, NEW path \in Paths
        PROVE  IndexHolds(schema, resource, path, caller) <=> HeldIn(list, resource, path, caller)
    BY SchemaIs
  <1> HIDE DEF schema
  <1>2. \A resource, path :
           (\E root \in roots(resource) : PathAvailableTo(root, path, caller)) <=>
              IndexHolds(schema, resource, path, caller)
    BY DEF IndexHolds
  <1>3. Validates(schema, projection, caller) <=>
           \A resource \in DOMAIN projection :
              /\ \E root \in roots(resource) : PathAvailableTo(root, <<>>, caller)
              /\ \A path \in projection[resource].paths :
                    \E root \in roots(resource) : PathAvailableTo(root, path, caller)
    BY DEF Validates, NodeVisibleTo
  <1> HIDE DEF roots
  <1>4. Validates(schema, projection, caller) <=>
           \A resource \in DOMAIN projection :
              /\ IndexHolds(schema, resource, <<>>, caller)
              /\ \A path \in projection[resource].paths : IndexHolds(schema, resource, path, caller)
    BY <1>2, <1>3
  <1>5. <<>> \in Paths
    BY DEF Paths
  <1>6. \A resource \in DOMAIN projection : \A path \in projection[resource].paths : path \in Paths
    BY DEF IsSelection
  <1>7. \A resource \in DOMAIN projection :
           /\ IndexHolds(schema, resource, <<>>, caller) <=> HeldIn(list, resource, <<>>, caller)
           /\ \A path \in projection[resource].paths :
                 IndexHolds(schema, resource, path, caller) <=> HeldIn(list, resource, path, caller)
    BY <1>1, <1>5, <1>6
  <1> QED
    BY <1>4, <1>7 DEF GrantedBy, schema

-----------------------------------------------------------------------------
(***************************************************************************)
(* The invariant.  The schema is that of the contracts of the endpoint,    *)
(* once there is one; until then whoever makes it has these contracts.     *)
(* What is selected is what it was when it was judged, and what is stored  *)
(* has the type of its contract until it is written.                       *)
(***************************************************************************)
IndexFields == {"once", "by", "contracts", "schema"}

IndexOf(list, x) ==
    /\ DOMAIN x = IndexFields
    /\ IF x.once = "done" THEN x.by = {} /\ x.schema = DeriveSchema(list) ELSE x.contracts = list

RequestFields == {"step", "caller", "responseCaller", "calls", "body", "projection", "errors",
                  "judged", "contract", "value", "context", "emitted"}

Judged(list, q) ==
    q.projection # NoProjection /\ q.step \in {"handler", "refused"} =>
        ((q.step = "handler") <=> GrantedBy(list, q.projection, q.judged))

Stored(list, q) ==
    q.step = "stored" => <<list[q.contract].body, q.value>> \in Typed

RendersSelected(list, q) ==
    q.step \in {"rendered", "written"} =>
        q.emitted = {path \in ValuePaths[q.value] :
                        /\ Visible(list[q.contract].body, path, q.context.caller)
                        /\ Keeps(q.projection, path)}

RequestOf(list, q) ==
    /\ DOMAIN q = RequestFields
    /\ IsSelection(q.projection)
    /\ Judged(list, q)
    /\ Stored(list, q)
    /\ RendersSelected(list, q)

ResponseInv ==
    /\ contracts \in Endpoints
    /\ IndexOf(contracts, index)
    /\ DOMAIN requests = Requests
    /\ \A r \in Requests : RequestOf(contracts, requests[r])

LEMMA EndpointIs ==
    ASSUME NEW list \in Endpoints
    PROVE  \A i \in DOMAIN list : list[i].body \in Shapes
  BY EndpointsAssumption

LEMMA Begins == Init => ResponseInv
  <1> SUFFICES ASSUME Init PROVE ResponseInv
    OBVIOUS
  <1>1. IndexOf(contracts, index)
    BY DEF Init, IndexOf, IndexFields
  <1>2. RequestOf(contracts, Fresh)
    <2>1. DOMAIN Fresh = RequestFields /\ Fresh.step = "new" /\ Fresh.projection = NoProjection
      BY DEF Fresh, RequestFields
    <2> QED
      BY <2>1, NoSelection DEF RequestOf, Judged, Stored, RendersSelected
  <1> QED
    BY <1>1, <1>2 DEF ResponseInv, Init

\* A step that is of one request, and leaves the schema alone.
LEMMA OneRequest ==
    ASSUME ResponseInv, NEW r \in Requests, NEW q, RequestOf(contracts, q),
           requests' = [requests EXCEPT ![r] = q], UNCHANGED <<contracts, index>>
    PROVE  ResponseInv'
  BY DEF ResponseInv

\* A step that changes nothing the invariant is about but the step.
LEMMA Elsewhere ==
    ASSUME NEW list, NEW q, RequestOf(list, q), NEW p, DOMAIN p = RequestFields,
           p.projection = q.projection,
           p.step \notin {"handler", "refused", "stored", "rendered", "written"}
    PROVE  RequestOf(list, p)
  BY DEF RequestOf, Judged, Stored, RendersSelected

LEMMA Arrives ==
    ASSUME ResponseInv, NEW r \in Requests, NEW caller, NEW asked, NEW body,
           Arrive(r, caller, asked, body)
    PROVE  ResponseInv'
  <1>1. PICK projected :
           requests' = [requests EXCEPT ![r].step = "meta", ![r].caller = caller,
                                        ![r].responseCaller = projected, ![r].body = body]
    BY DEF Arrive
  <1> DEFINE q == [requests[r] EXCEPT !.step = "meta", !.caller = caller,
                                      !.responseCaller = projected, !.body = body]
  <1>2. requests' = [requests EXCEPT ![r] = q]
    BY <1>1
  <1>3. RequestOf(contracts, requests[r])
    BY DEF ResponseInv
  <1>4. DOMAIN q = RequestFields /\ q.projection = requests[r].projection /\ q.step = "meta"
    BY <1>3 DEF RequestOf, RequestFields
  <1> HIDE DEF q
  <1>5. RequestOf(contracts, q)
    BY <1>3, <1>4, Elsewhere
  <1> QED
    BY <1>2, <1>5, OneRequest DEF Arrive


LEMMA Prepares ==
    ASSUME ResponseInv, NEW r \in Requests, PrepareMeta(r)
    PROVE  ResponseInv'
  <1> DEFINE errors == PrepareMetaErrors(requests[r].body)
             projection == IF errors # {} THEN NoProjection ELSE ProjectionOf(requests[r].body)
             step == IF errors # {} THEN "refused" ELSE "validate"
             q == [requests[r] EXCEPT !.step = step, !.errors = errors, !.projection = projection]
  <1>1. requests' = [requests EXCEPT ![r] = q]
    BY DEF PrepareMeta
  <1>2. RequestOf(contracts, requests[r])
    BY DEF ResponseInv
  <1>3. IsSelection(projection)
    BY NoSelection, ProjectionIs
  <1>4. step = "validate" \/ (step = "refused" /\ projection = NoProjection)
    OBVIOUS
  <1> HIDE DEF step, errors, projection
  <1>5. DOMAIN q = RequestFields /\ q.projection = projection /\ q.step = step
    BY <1>2 DEF RequestOf, RequestFields
  <1> HIDE DEF q
  <1>6. RequestOf(contracts, q)
    BY <1>3, <1>4, <1>5 DEF RequestOf, Judged, Stored, RendersSelected
  <1> QED
    BY <1>1, <1>6, OneRequest DEF PrepareMeta

LEMMA Skips ==
    ASSUME ResponseInv, NEW r \in Requests, SkipValidation(r)
    PROVE  ResponseInv'
  <1> DEFINE q == [requests[r] EXCEPT !.step = "handler"]
  <1>1. requests' = [requests EXCEPT ![r] = q]
    BY DEF SkipValidation
  <1>2. RequestOf(contracts, requests[r]) /\ requests[r].projection = NoProjection
    BY DEF ResponseInv, SkipValidation
  <1>3. DOMAIN q = RequestFields /\ q.projection = NoProjection /\ q.step = "handler"
    BY <1>2 DEF RequestOf, RequestFields
  <1> HIDE DEF q
  <1>4. RequestOf(contracts, q)
    BY <1>3, NoSelection DEF RequestOf, Judged, Stored, RendersSelected
  <1> QED
    BY <1>1, <1>4, OneRequest DEF SkipValidation

LEMMA Compiles ==
    ASSUME ResponseInv, NEW r \in Requests, StartCompile(r) \/ FinishCompile(r)
    PROVE  ResponseInv'
  <1>1. IndexOf(contracts, index) /\ UNCHANGED <<contracts, requests>>
    BY DEF ResponseInv, StartCompile, FinishCompile
  <1>2. CASE StartCompile(r)
    <2>1. IndexOf(contracts, index')
      BY <1>1, <1>2 DEF StartCompile, IndexOf, IndexFields
    <2> QED
      BY <1>1, <2>1 DEF ResponseInv
  <1>3. CASE FinishCompile(r)
    <2>1. index.contracts = contracts
      BY <1>1, <1>3 DEF FinishCompile, IndexOf
    <2>2. index' = [once |-> "done", by |-> {}, contracts |-> <<>>,
                    schema |-> DeriveSchema(contracts)]
      BY <1>3, <2>1 DEF FinishCompile
    <2>3. IndexOf(contracts, index')
      BY <2>2 DEF IndexOf, IndexFields
    <2> QED
      BY <1>1, <2>3 DEF ResponseInv
  <1> QED
    BY <1>2, <1>3

LEMMA ValidatesRequest ==
    ASSUME ResponseInv, NEW r \in Requests, ValidateProjection(r)
    PROVE  ResponseInv'
  <1> DEFINE caller == ResponseCaller(requests[r])
             valid == Validates(index.schema, requests[r].projection, caller)
             q == [requests[r] EXCEPT
                      !.step = IF valid THEN "handler" ELSE "refused",
                      !.errors = IF valid THEN {} ELSE {"invalid_response_projection"},
                      !.judged = caller]
  <1>1. requests' = [requests EXCEPT ![r] = q]
    BY DEF ValidateProjection
  <1>2. /\ RequestOf(contracts, requests[r]) /\ IndexOf(contracts, index)
        /\ contracts \in Endpoints /\ index.once = "done"
    BY DEF ResponseInv, ValidateProjection, Compiled
  <1>3. valid <=> GrantedBy(contracts, requests[r].projection, caller)
    <2>1. index.schema = DeriveSchema(contracts)
      BY <1>2 DEF IndexOf
    <2>2. IsSelection(requests[r].projection)
      BY <1>2 DEF RequestOf
    <2> HIDE DEF caller
    <2> QED
      BY <1>2, <2>1, <2>2, EndpointIs, ValidatesIs
  <1> HIDE DEF caller, valid
  <1>4. /\ DOMAIN q = RequestFields /\ q.projection = requests[r].projection
        /\ q.step = IF valid THEN "handler" ELSE "refused"
        /\ q.judged = caller
    BY <1>2 DEF RequestOf, RequestFields
  <1> HIDE DEF q
  <1>5. RequestOf(contracts, q)
    BY <1>2, <1>3, <1>4 DEF RequestOf, Judged, Stored, RendersSelected
  <1> QED
    BY <1>1, <1>5, OneRequest DEF ValidateProjection

\* What trusted code does with the callers changes nothing that was decided.
LEMMA Attaches ==
    ASSUME ResponseInv, NEW r \in Requests, NEW caller,
           AttachCaller(r, caller) \/ ProjectResponseAs(r, caller)
    PROVE  ResponseInv'
  <1>1. PICK q : /\ requests' = [requests EXCEPT ![r] = q]
                 /\ \/ q = [requests[r] EXCEPT !.caller = caller, !.calls = @ + 1]
                    \/ q = [requests[r] EXCEPT
                               !.responseCaller = Resolve(Policy, requests[r].caller, caller),
                               !.calls = @ + 1]
    BY ZenonT(60) DEF AttachCaller, ProjectResponseAs
  <1>2. RequestOf(contracts, requests[r])
    BY DEF ResponseInv
  <1>3. /\ DOMAIN q = RequestFields /\ q.step = requests[r].step
        /\ q.projection = requests[r].projection /\ q.judged = requests[r].judged
        /\ q.contract = requests[r].contract /\ q.value = requests[r].value
        /\ q.context = requests[r].context /\ q.emitted = requests[r].emitted
    BY <1>1, <1>2 DEF RequestOf, RequestFields
  <1>4. RequestOf(contracts, q)
    BY <1>2, <1>3 DEF RequestOf, Judged, Stored, RendersSelected
  <1> QED
    BY <1>1, <1>4, OneRequest DEF AttachCaller, ProjectResponseAs

\* A value of the type of its contract renders to what is selected of it.
LEMMA IsRendered ==
    ASSUME ResponseInv, NEW r \in Requests, NEW contract, NEW value,
           <<contracts[contract].body, value>> \in Typed, NEW step \in {"rendered", "written"},
           requests' = Rendered(r, contract, value, step), UNCHANGED <<contracts, index>>
    PROVE  ResponseInv'
  <1> DEFINE shape == contracts[contract].body
             context == ResponseContext(requests[r])
             panics == Panics(shape, context, value)
             emitted == IF panics THEN {} ELSE Project(shape, context, value)
             q == [requests[r] EXCEPT
                      !.step = IF panics THEN "panicked" ELSE step,
                      !.contract = contract, !.value = value, !.context = context,
                      !.emitted = emitted]
  <1>1. requests' = [requests EXCEPT ![r] = q]
    BY DEF Rendered
  <1>2. RequestOf(contracts, requests[r])
    BY DEF ResponseInv
  <1>3. context.projection = requests[r].projection
    BY DEF ResponseContext
  <1>4. IsSelection(requests[r].projection)
    BY <1>2 DEF RequestOf
  <1> HIDE DEF context, panics
  <1>5. Project(shape, context, value) =
           {path \in ValuePaths[value] : /\ Visible(shape, path, context.caller)
                                         /\ Keeps(requests[r].projection, path)}
    BY <1>3, <1>4, ProjectIs
  <1> HIDE DEF emitted
  <1>6. /\ DOMAIN q = RequestFields /\ q.projection = requests[r].projection
        /\ q.step = IF panics THEN "panicked" ELSE step
        /\ q.contract = contract /\ q.value = value /\ q.context = context
        /\ q.emitted = emitted
    BY <1>2 DEF RequestOf, RequestFields
  <1> HIDE DEF q
  <1>7. RequestOf(contracts, q)
    <2>1. CASE panics
      BY <1>4, <1>6, <2>1 DEF RequestOf, Judged, Stored, RendersSelected
    <2>2. CASE ~ panics
      <3>1. emitted = {path \in ValuePaths[value] : /\ Visible(shape, path, context.caller)
                                                    /\ Keeps(requests[r].projection, path)}
        BY <1>5, <2>2 DEF emitted
      <3>2. RendersSelected(contracts, q)
        BY <1>6, <3>1 DEF RendersSelected
      <3> QED
        BY <1>4, <1>6, <2>2, <3>2 DEF RequestOf, Judged, Stored
    <2> QED
      BY <2>1, <2>2
  <1> QED
    BY <1>1, <1>7, OneRequest

LEMMA Responds ==
    ASSUME ResponseInv, NEW r \in Requests, NEW contract, NEW value,
           Render(r, contract, value) \/ SetResponse(r, contract, value)
    PROVE  ResponseInv'
  <1>1. CASE Render(r, contract, value)
    BY <1>1, IsRendered DEF Render
  <1>2. CASE SetResponse(r, contract, value)
    <2> DEFINE q == [requests[r] EXCEPT !.step = "stored", !.contract = contract, !.value = value]
    <2>1. requests' = [requests EXCEPT ![r] = q]
      BY <1>2 DEF SetResponse
    <2>2. RequestOf(contracts, requests[r]) /\ <<contracts[contract].body, value>> \in Typed
      BY <1>2 DEF ResponseInv, SetResponse
    <2>3. /\ DOMAIN q = RequestFields /\ q.projection = requests[r].projection
          /\ q.step = "stored" /\ q.contract = contract /\ q.value = value
      BY <2>2 DEF RequestOf, RequestFields
    <2> HIDE DEF q
    <2>4. RequestOf(contracts, q)
      BY <2>2, <2>3 DEF RequestOf, Judged, Stored, RendersSelected
    <2> QED
      BY <1>2, <2>1, <2>4, OneRequest DEF SetResponse
  <1> QED
    BY <1>1, <1>2

LEMMA Writes ==
    ASSUME ResponseInv, NEW r \in Requests, WriteResponse(r)
    PROVE  ResponseInv'
  <1>1. RequestOf(contracts, requests[r])
    BY DEF ResponseInv
  <1>2. CASE requests[r].step = "rendered"
    <2> DEFINE q == [requests[r] EXCEPT !.step = "written"]
    <2>1. requests' = [requests EXCEPT ![r] = q]
      BY <1>2 DEF WriteResponse
    <2>2. /\ DOMAIN q = RequestFields /\ q.step = "written"
          /\ q.projection = requests[r].projection
          /\ q.contract = requests[r].contract /\ q.value = requests[r].value
          /\ q.context = requests[r].context /\ q.emitted = requests[r].emitted
      BY <1>1 DEF RequestOf, RequestFields
    <2> HIDE DEF q
    <2>3. RequestOf(contracts, q)
      BY <1>1, <1>2, <2>2 DEF RequestOf, Judged, Stored, RendersSelected
    <2> QED
      BY <2>1, <2>3, OneRequest DEF WriteResponse
  <1>3. CASE requests[r].step # "rendered"
    <2>1. <<contracts[requests[r].contract].body, requests[r].value>> \in Typed
      BY <1>1, <1>3 DEF WriteResponse, RequestOf, Stored
    <2>2. requests' = Rendered(r, requests[r].contract, requests[r].value, "written")
          /\ UNCHANGED <<contracts, index>>
      BY <1>3 DEF WriteResponse
    <2> QED
      BY <2>1, <2>2, IsRendered
  <1> QED
    BY <1>2, <1>3

LEMMA Inductive == ResponseInv /\ [Next]_vars => ResponseInv'
  <1> SUFFICES ASSUME ResponseInv, [Next]_vars PROVE ResponseInv'
    OBVIOUS
  <1>1. CASE UNCHANGED vars
    BY <1>1 DEF vars, ResponseInv
  <1>2. CASE Next
    <2>1. PICK r \in Requests :
             \/ \E caller, asked \in Caller \cup {NoCaller}, body \in Bodies[r] :
                   Arrive(r, caller, asked, body)
             \/ PrepareMeta(r)
             \/ SkipValidation(r)
             \/ StartCompile(r)
             \/ FinishCompile(r)
             \/ ValidateProjection(r)
             \/ \E caller \in Caller : AttachCaller(r, caller)
             \/ \E asked \in Caller \cup {NoCaller} : ProjectResponseAs(r, asked)
             \/ \E contract \in DOMAIN contracts, value \in Values :
                   Render(r, contract, value) \/ SetResponse(r, contract, value)
             \/ WriteResponse(r)
      BY <1>2 DEF Next
    <2> QED
      BY <2>1, Arrives, Prepares, Skips, Compiles, ValidatesRequest, Attaches, Responds, Writes
  <1> QED
    BY <1>1, <1>2

LEMMA InvariantHolds == Spec => []ResponseInv
  BY Begins, Inductive, PTL DEF Spec

-----------------------------------------------------------------------------
\* A request with a selection is let into the handler if and only if all it names
\* is what some successful contract shows its response caller
\* (endpoint/response_projection.go, request/projection_shape.go), however many
\* requests compile the schema at once, for all contracts, callers and selections.
THEOREM AdmitsWhatIsVisible == Spec => []AdmitsVisibleSelections
  <1>1. ResponseInv => AdmitsVisibleSelections
    <2> SUFFICES ASSUME ResponseInv, NEW r \in Requests,
                        requests[r].projection # NoProjection,
                        requests[r].step \in {"handler", "refused"}
                 PROVE  (requests[r].step = "handler") <=>
                           \A resource \in DOMAIN requests[r].projection :
                              /\ Shows(resource, <<>>, requests[r].judged)
                              /\ \A path \in requests[r].projection[resource].paths :
                                    Shows(resource, path, requests[r].judged)
      BY DEF AdmitsVisibleSelections
    <2>1. (requests[r].step = "handler") <=>
             GrantedBy(contracts, requests[r].projection, requests[r].judged)
      BY DEF ResponseInv, RequestOf, Judged
    <2> QED
      BY <2>1, ShowsIs DEF GrantedBy
  <1> QED
    BY <1>1, InvariantHolds, PTL

\* A response that does not panic has every path of its value that its caller
\* may see and every resource on the way to it keeps, and no other
\* (response/shape.go, request/caller.go), whether it is rendered at once or when
\* it is written, for all shapes, values, selections and callers.
THEOREM RendersWhatIsSelected == Spec => []RendersTheSelection
  <1>1. ResponseInv => RendersTheSelection
    BY DEF ResponseInv, RequestOf, RendersSelected, RendersTheSelection
  <1> QED
    BY <1>1, InvariantHolds, PTL
=============================================================================
