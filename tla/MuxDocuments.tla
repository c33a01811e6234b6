------------------------------ MODULE MuxDocuments ------------------------------
(***************************************************************************)
(* The documents a server writes from the groups its Mux keeps: the public *)
(* OpenAPI 3.1 document and the Swagger 2.0 document of a gateway          *)
(* (server/describe.go, openapi/internal/route/route.go, openapi/openapi31 *)
(* and openapi/gcpapigateway, spec.Paths.AddOperation).                    *)
(*                                                                         *)
(* An operation identifier is a text and whether "Alias" was appended to   *)
(* it.  The schemas of the operations are the business of ParamSchema.     *)
(***************************************************************************)
EXTENDS Mux

CONSTANTS
    DeclaredID,     \* the operation id declared with a path, NoID for none
    DocumentPath,   \* route.JoinPath of a full path: no slash at its end
    DefaultID,      \* defaultOperationID of a method and a document path
    DefaultBackend, \* the backend of the server's description
    NoID

ASSUME DeclaredIDAssumption == DOMAIN DeclaredID = Paths
ASSUME DocumentPathAssumption ==
    /\ {MountedPath[p] : p \in Groups \X Paths} \subseteq DOMAIN DocumentPath
    /\ Methods \X {DocumentPath[p] : p \in DOMAIN DocumentPath} \subseteq DOMAIN DefaultID
ASSUME DefaultBackendAssumption == DefaultBackend \in Backends \cup {NoBackend}

Canonical == "canonical"

\* fromEndpoint: the endpoint at its path, then at each of its aliases.
RoutesOfEndpoint(group, endpoint) ==
    LET spec == endpoint.declared
        Path(path) == DocumentPath[MountedPath[group, path]]
        Route(path, alias) == [method |-> spec.method, path |-> Path(path), endpoint |-> endpoint,
                               canonicalPath |-> Path(spec.path), alias |-> alias]
    IN  <<Route(spec.path, Canonical)>>
            \o [i \in DOMAIN spec.aliases |-> Route(spec.aliases[i], spec.aliases[i])]

FromGroup(document) ==
    LET endpoints == Documented(document)
    IN  FlattenSeq([i \in DOMAIN endpoints |-> RoutesOfEndpoint(document.group, endpoints[i])])

FromGroups == FlattenSeq([i \in DOMAIN documents |-> FromGroup(documents[i])])

OperationIDForRoute(route) ==
    LET declared == DeclaredID[route.endpoint.declared.path]
        canonical == IF declared # NoID THEN declared
                     ELSE DefaultID[route.method, route.canonicalPath]
    IN  CASE route.alias = Canonical -> [text |-> canonical, suffixed |-> FALSE]
          [] route.alias # Canonical /\ DeclaredID[route.alias] # NoID ->
                [text |-> DeclaredID[route.alias], suffixed |-> FALSE]
          [] OTHER -> [text |-> canonical, suffixed |-> TRUE]

\* A document that is being written; it fails for good.
NewDocument == [ok |-> TRUE, operations |-> <<>>]

DocumentKey(route) == <<route.method, route.path>>

\* ensureUniqueOperationID, then AddOperation, which wants the place free.
AddOperation(document, route, operation) ==
    IF \/ ~ document.ok
       \/ DocumentKey(route) \in DOMAIN document.operations
       \/ \E key \in DOMAIN document.operations : document.operations[key].id = operation.id
    THEN [document EXCEPT !.ok = FALSE]
    ELSE [document EXCEPT !.operations = Put([key \in {DocumentKey(route)} |-> operation], @)]

\* Mutant: only what an endpoint declares itself makes it internal.
PublicOperationUnlessDeclared(document, route) ==
    LET operation == [id |-> OperationIDForRoute(route), auth |-> route.endpoint.auth]
    IN  IF route.endpoint.declared.internal THEN document
        ELSE AddOperation(document, route, operation)

\* Public documents leave internal endpoints out.
PublicOperation(document, route) ==
    LET operation == [id |-> OperationIDForRoute(route), auth |-> route.endpoint.auth]
    IN  IF route.endpoint.internal THEN document ELSE AddOperation(document, route, operation)

\* gatewayBackend: the backend of the route, filled from the server's default.
GatewayBackend(endpoint) == FillBackend(endpoint, DefaultBackend).backend

\* A gateway routes every endpoint, and must know where to.
GatewayOperation(document, route) ==
    LET backend == GatewayBackend(route.endpoint)
        operation == [id |-> OperationIDForRoute(route), auth |-> route.endpoint.auth,
                      internal |-> route.endpoint.internal, backend |-> backend]
    IN  IF backend = NoBackend
        THEN [document EXCEPT !.ok = FALSE]
        ELSE AddOperation(document, route, operation)

DocumentOperation(kind, document, route) ==
    IF kind = "gateway" THEN GatewayOperation(document, route)
    ELSE PublicOperation(document, route)

\* The document after each of the routes, in their order.
Describe(kind, described) ==
    LET Written[n \in 0 .. Len(described)] ==
            IF n = 0 THEN NewDocument
            ELSE DocumentOperation(kind, Written[n - 1], described[n])
    IN  Written[Len(described)]

DescribeOpenAPI31(described) == Describe("public", described)

DescribeGCPAPIGateway(described) == Describe("gateway", described)

-----------------------------------------------------------------------------
\* What the groups of a Mux describe is what it serves, route for route: a key
\* is one of an endpoint or an alias that a group documents just when it is
\* registered, unless a Mount registered it before it panicked at another one
\* (registerPrepared appends the groups last), and the routes that documents are
\* written from have the method of such a key and its path, without the slash
\* at its end (server/describe.go:25-37).
DocumentsAreServed ==
    LET standing == DOMAIN routes \ halted
        described == FromGroups
        KeysOfGroup(document) ==
            UNION {Keys(document, endpoint) : endpoint \in ToSet(Documented(document))}
    IN  /\ UNION {KeysOfGroup(documents[i]) : i \in DOMAIN documents} = standing
        /\ {DocumentKey(described[i]) : i \in DOMAIN described}
               = {<<key[1], DocumentPath[key[2]]>> : key \in standing}

\* Two routes a document cannot hold together.
Confused(left, right) ==
    \/ OperationIDForRoute(left) = OperationIDForRoute(right)
    \/ DocumentKey(left) = DocumentKey(right)

\* A server can be described just when no two of its public routes share an
\* identifier, or a path but for the slash at its end, whatever is internal
\* and however the groups were mounted: its document then has the public
\* routes and no other, each with its authorization (spec/profiles/
\* openapi-3.1/v0.1.md:36, 51-52), and whatever the gateway's document says of
\* them agrees (server/describe.go:25-30).
PublicDocumentIsExact ==
    LET described == FromGroups
        shown == {i \in DOMAIN described : ~ described[i].endpoint.internal}
        document == DescribeOpenAPI31(described)
        gateway == DescribeGCPAPIGateway(described)
    IN  /\ document.ok <=> \A i, j \in shown :
                               i # j => ~ Confused(described[i], described[j])
        /\ document.ok =>
              /\ DOMAIN document.operations = {DocumentKey(described[i]) : i \in shown}
              /\ \A i \in shown :
                    document.operations[DocumentKey(described[i])].auth = described[i].endpoint.auth
        /\ gateway.ok =>
              /\ document.ok
              /\ Len(described) = Cardinality(DOMAIN gateway.operations)
              /\ \A key \in DOMAIN document.operations :
                    /\ gateway.operations[key].id = document.operations[key].id
                    /\ gateway.operations[key].auth = document.operations[key].auth
                    /\ ~ gateway.operations[key].internal
=============================================================================
