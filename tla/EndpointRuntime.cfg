CONSTANTS
    Endpoints <- SomeEndpoints
    Inputs <- SomeInputs
SPECIFICATION FairSpec
INVARIANTS TypeOK OneHead NoHandlerPastAFailure ReportMatchesWire OutcomeIsTheCause SettledBeforeAnswer
PROPERTIES Promise EveryRequestEnds
CHECK_DEADLOCK FALSE
