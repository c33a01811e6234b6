CONSTANTS
    Requests = {r1, r2, r3}
    Slots = {s1}
    Fingerprints = {f1, f2}
    Scopeless = {}
    Retention = 0
    MaxClock = 1
    Faults = {"crash", "store"}
SPECIFICATION Spec
SYMMETRY Symmetry
CHECK_DEADLOCK FALSE
INVARIANTS
    TypeOK
    OneHolder
    ReplayFaithful
    OrphansAreFaults
PROPERTIES
    NoSecondRun
