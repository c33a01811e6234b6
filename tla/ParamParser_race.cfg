SPECIFICATION Spec
CONSTANTS
    public = public
    admin = admin
    Caller = {public, admin}
    NoCaller = NoCaller
    Workers = {1, 2}
    Definitions <- MCDefinitions
    Bodies <- RaceBodies
    Bytes <- MCBytes
    Characters <- MCCharacters
    Trimmed <- MCTrimmed
    MaxInt64 = 4
    Shapes <- MCShapes
    ShapeDepth <- MCShapeDepth
    Values <- MCValues
    ValueDepth <- MCValueDepth
    Schemas <- MCSchemas
    SchemaDepth <- MCSchemaDepth
INVARIANT ParsesAreIndependent
