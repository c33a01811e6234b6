SPECIFICATION Spec
CONSTANTS
    Units <- MCUnits
    Sinks = {"s"}
    NoopSink = "noop"
    ClientID = 101
    ClientTrace = 102
    MaxOperations = 3
    MaxUnits = 2
    MaxRequests = 1
    MaxFlushes = 1
    MaxOverrides = 1
INVARIANTS
    TypeOK
    CompletionCoversHandler
    WorkIsAttributed
CHECK_DEADLOCK FALSE
