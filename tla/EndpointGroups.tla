---------------------------- MODULE EndpointGroups ----------------------------
(***************************************************************************)
(* Endpoint definitions and what a group makes of them (endpoint/          *)
(* runtime_spec.go, runtime_metadata.go): which declarations panic, and    *)
(* how the defaults of a group reach an endpoint.                          *)
(*                                                                         *)
(* Every default the code knows is inherited in one of four ways, and one  *)
(* field stands for each way:                                              *)
(*   internal   set by the group, never cleared;                           *)
(*   auth       replaced while it is inherited, kept when the group has    *)
(*              none (the priority too);                                   *)
(*   timeout    replaced or cleared while it is inherited (each field of   *)
(*              the timeouts and limits, the timeout handler, the summary, *)
(*              the cost mode);                                            *)
(*   backend    filled once, when it is empty (the fields of the route).   *)
(* The callers of the group are kept beside those of the endpoint.         *)
(***************************************************************************)
EXTENDS Integers, FiniteSets, Sequences, Functions, Callers

CONSTANTS
    Methods,        \* HTTP methods, supported or not
    Paths,          \* path patterns
    Timeouts,       \* values of a timeout, 0 for none
    Backends        \* backend addresses of route specifications

Supported == {"GET", "POST"}
Authorizations == {"none", "any", "bearer", "service"}
NoBackend == "none"
NoTimeout == 0

ASSUME MethodsAssumption == Methods \cap Supported # {}
ASSUME TimeoutsAssumption == Timeouts \subseteq Nat
ASSUME BackendsAssumption == NoBackend \notin Backends

(***************************************************************************)
(* What an application declares: an EndpointSpec.  Handlers names the      *)
(* functions it sets; the list of callers may repeat one.                  *)
(***************************************************************************)
EndpointSpecs ==
    [method : Methods, path : Paths, aliases : Seq(Paths \cup {"blank"}),
     handlers : SUBSET {"Handler", "Respond"}, internal : BOOLEAN,
     auth : Authorizations, callers : Seq(Caller \cup {NoCaller}),
     timeout : Int, backend : Backends \cup {NoBackend}]

SetsOneHandler(spec) == Cardinality(spec.handlers) = 1
SupportsMethod(spec) == spec.method \in Supported
NamesAliases(spec) == \A i \in DOMAIN spec.aliases : spec.aliases[i] # "blank"
BoundsTimeout(spec) == spec.timeout >= 0

\* The list of callers of a declaration is one SetOf accepts.
ListsCallers(spec) ==
    /\ NoCaller \notin Range(spec.callers)
    /\ IsInjective(spec.callers)

\* DefineEndpoint returns; any other declaration panics.
Defines(spec) ==
    /\ SetsOneHandler(spec)
    /\ SupportsMethod(spec)
    /\ NamesAliases(spec)
    /\ ListsCallers(spec)
    /\ BoundsTimeout(spec)

AsSet(callers) == SetOf(Range(callers))

(***************************************************************************)
(* What the HTTP wrapper of an endpoint enforces: httpHandler closes over  *)
(* a copy of the endpoint, so this is what the policy was when the wrapper *)
(* was built.                                                              *)
(***************************************************************************)
HttpHandler(endpoint) ==
    [internal |-> endpoint.internal, auth |-> endpoint.auth,
     callers |-> Intersect(endpoint.callers, endpoint.groupCallers),
     timeout |-> endpoint.timeout]

NoHandler == [internal |-> FALSE, auth |-> "none", callers |-> Unrestricted, timeout |-> -1]

\* Mutant: a wrapper that is built is kept.
BuiltOnce(endpoint) ==
    IF endpoint.handler = NoHandler
    THEN [endpoint EXCEPT !.handler = HttpHandler(endpoint)]
    ELSE endpoint

Rebuilt(endpoint) == [endpoint EXCEPT !.handler = HttpHandler(endpoint)]

\* An Endpoint remembers its declaration only for the properties.
DefineEndpoint(spec) ==
    Rebuilt([declared |-> spec, internal |-> spec.internal,
             auth |-> spec.auth, authInherited |-> FALSE,
             callers |-> AsSet(spec.callers), groupCallers |-> Unrestricted,
             timeout |-> spec.timeout, timeoutInherited |-> FALSE,
             backend |-> spec.backend, handler |-> NoHandler])

(***************************************************************************)
(* The header of an EndpointGroup: all of it but the list of endpoints.    *)
(***************************************************************************)
Headers == [internal : BOOLEAN, auth : Authorizations, callers : SUBSET Caller,
            timeout : Nat, backend : Backends \cup {NoBackend}]

\* Mutant: an authorization that was inherited is the endpoint's own.
InheritAuthOnce(endpoint, auth) ==
    IF auth # "none" /\ endpoint.auth = "none"
    THEN [endpoint EXCEPT !.auth = auth, !.authInherited = TRUE]
    ELSE endpoint

\* RequireAuthorization and endpointWithGroupMetadata.
InheritAuth(endpoint, auth) ==
    IF auth # "none" /\ (endpoint.auth = "none" \/ endpoint.authInherited)
    THEN [endpoint EXCEPT !.auth = auth, !.authInherited = TRUE]
    ELSE endpoint

\* Mutant: a default of zero is inherited like any other.
InheritAnyTimeout(endpoint, timeout) ==
    IF endpoint.timeout = NoTimeout \/ endpoint.timeoutInherited
    THEN [endpoint EXCEPT !.timeout = timeout, !.timeoutInherited = TRUE]
    ELSE endpoint

\* inheritDefaults of the timeout, limit and operation policies.
InheritTimeout(endpoint, timeout) ==
    IF endpoint.timeout = NoTimeout \/ endpoint.timeoutInherited
    THEN [endpoint EXCEPT !.timeout = timeout, !.timeoutInherited = timeout # NoTimeout]
    ELSE endpoint

\* RouteSpec.WithDefaults.
FillBackend(endpoint, backend) ==
    IF endpoint.backend = NoBackend
    THEN [endpoint EXCEPT !.backend = backend]
    ELSE endpoint

EndpointWithGroupMetadata(header, endpoint) ==
    LET marked == [endpoint EXCEPT !.internal = @ \/ header.internal,
                                   !.groupCallers = SetOf(header.callers)]
        authorized == InheritAuth(marked, header.auth)
        timed == InheritTimeout(authorized, header.timeout)
    IN Rebuilt(FillBackend(timed, header.backend))
=============================================================================
