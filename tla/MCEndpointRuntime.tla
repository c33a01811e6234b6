-------------------------- MODULE MCEndpointRuntime --------------------------
EXTENDS EndpointRuntime, FiniteSets

Public == [internal |-> FALSE, authorization |-> "none", controlled |-> FALSE,
           idempotent |-> FALSE, scoped |-> FALSE, timeoutHandler |-> FALSE]

SomeEndpoints ==
    {Public,
     [Public EXCEPT !.internal = TRUE, !.authorization = "any"],
     [Public EXCEPT !.internal = TRUE, !.timeoutHandler = TRUE],
     [Public EXCEPT !.authorization = "bearer", !.controlled = TRUE],
     [Public EXCEPT !.authorization = "bearer", !.idempotent = TRUE],
     [Public EXCEPT !.authorization = "service", !.idempotent = TRUE, !.scoped = TRUE],
     [Public EXCEPT !.controlled = TRUE, !.timeoutHandler = TRUE],
     [Public EXCEPT !.idempotent = TRUE, !.timeoutHandler = TRUE]}

SomeInputs == {i \in HttpRequests : Cardinality(i.flaws) <= 2}
=============================================================================
