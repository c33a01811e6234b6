CONSTANTS
    Requests = {r1, r2, r3}
    Slots = {s1}
    Fingerprints = {f1}
    Scopeless = {r3}
    Retention = 0
    MaxClock = 0
    Faults = {"ctx", "panic"}
SPECIFICATION FairSpec
CHECK_DEADLOCK FALSE
PROPERTIES
    EveryRequestEnds
    ReservationSettles
