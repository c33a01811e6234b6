CONSTANTS
    Requests = {r1, r2}
    Slots = {s1}
    Fingerprints = {f1, f2}
    Scopeless = {}
    Retention = 1
    MaxClock = 2
    Faults = {"panic"}
SPECIFICATION Spec
CHECK_DEADLOCK FALSE
INVARIANTS
    FailureReleases
