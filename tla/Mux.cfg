SPECIFICATION Spec
CONSTANTS
    public = public
    admin = admin
    Caller = {public, admin}
    NoCaller = NoCaller
    Methods = {"GET", "PATCH"}
    Paths <- MCPaths
    Timeouts = {0, 2}
    Backends = {"b"}
    Groups <- MCGroups
    Specs <- MCSpecs
    Batches <- MCBatches
    AuthKinds = {"bearer", "service"}
    ForeignKeys <- MCForeignKeys
    MountedPath <- MCMountedPath
    Overlapping <- MCOverlapping
    DocumentPath <- MCDocumentPath
    DefaultID <- MCDefaultID
    DeclaredID <- MCDeclaredID
    DefaultBackend = "none"
    NoID = "none"
    MaxMembers = 2
    MaxCalls = 5
INVARIANTS
    TypeOK
    RegistryMatchesServer
    ServedAsDeclared
    HandlerIsCurrent
    DocumentsAreServed
    PanicsAreForeign
    PublicDocumentIsExact
PROPERTY SnapshotIsReadOnly
CHECK_DEADLOCK FALSE
