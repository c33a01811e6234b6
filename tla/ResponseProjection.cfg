SPECIFICATION Spec
CONSTANTS
    public = public
    admin = admin
    Caller = {public, admin}
    NoCaller = NoCaller
    Requests = {1, 2}
    Endpoints <- MCEndpoints
    Policy <- MCPolicy
    Bodies <- MCBodies
    Shapes <- MCShapes
    Values <- MCValues
    ShapeDepth <- MCShapeDepth
    ValueDepth <- MCValueDepth
    Typed <- MCTyped
    Trim <- MCTrim
    Segments <- MCSegments
    MaxCalls = 1
INVARIANTS
    AdmitsVisibleSelections
    RendersTheSelection
CHECK_DEADLOCK FALSE
