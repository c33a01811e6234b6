-------------------------- MODULE ResponseProjection --------------------------
(***************************************************************************)
(* From the selection in a request to the response that is rendered        *)
(* (endpoint/response_projection.go, request/caller.go, response/).        *)
(* Requests for the copies of one endpoint share the schema, which the     *)
(* first of them that needs it compiles under a sync.Once.  Meanwhile      *)
(* trusted code attaches callers: the one that asks, and a narrower one    *)
(* that the response is rendered for.                                      *)
(***************************************************************************)
EXTENDS ResponseShapes, RequestMeta

CONSTANTS
    Requests,       \* the requests for the endpoint
    Endpoints,      \* the lists of response contracts an endpoint may have
    Policy,         \* the rules <<from, to>> of the projection policy
    Bodies,         \* for each request, the bodies it may have
    MaxCalls        \* how often trusted code changes the callers of one request;
                    \* the other requests keep theirs from then on

ASSUME PolicyAssumption == DefinesPolicy(Policy)

ASSUME EndpointsAssumption ==
    \A endpoint \in Endpoints :
        \A i \in DOMAIN endpoint : endpoint[i].body \in Shapes

VARIABLES
    contracts,      \* the response contracts of the endpoint
    index,          \* its lazyResponseProjectionSchema
    requests        \* the requests

vars == <<contracts, index, requests>>

NoBody == [json |-> "blank"]
NoContext == [caller |-> NoCaller, projection |-> NoProjection]
Fresh == [step |-> "new", caller |-> NoCaller, responseCaller |-> NoCaller, calls |-> 0,
          body |-> NoBody, projection |-> NoProjection, errors |-> {}, judged |-> NoCaller,
          contract |-> 0, value |-> <<>>, context |-> NoContext, emitted |-> {}]

Init ==
    /\ contracts \in Endpoints
    /\ index = [once |-> "fresh", by |-> {}, contracts |-> contracts, schema |-> {}]
    /\ requests = [r \in Requests |-> Fresh]

ResponseCaller(request) ==
    IF request.responseCaller # NoCaller THEN request.responseCaller ELSE request.caller

ResponseContext(request) ==
    [caller |-> ResponseCaller(request), projection |-> request.projection]

-----------------------------------------------------------------------------
\* Middleware attaches the caller and may ask for a narrower response; NewReq
\* takes both over.  A refused projection leaves the context as it was.
Arrive(r, caller, asked, body) ==
    LET resolved == Resolve(Policy, caller, asked)
    IN /\ requests[r].step = "new"
       /\ \E projected \in {NoCaller} \cup ({resolved} \cap Caller) :
             requests' = [requests EXCEPT ![r].step = "meta", ![r].caller = caller,
                                          ![r].responseCaller = projected, ![r].body = body]
       /\ UNCHANGED <<contracts, index>>

PrepareMeta(r) ==
    LET errors == PrepareMetaErrors(requests[r].body)
    IN /\ requests[r].step = "meta"
       /\ requests' = [requests EXCEPT
             ![r].step = IF errors # {} THEN "refused" ELSE "validate",
             ![r].errors = errors,
             ![r].projection = IF errors # {} THEN NoProjection
                               ELSE ProjectionOf(requests[r].body)]
       /\ UNCHANGED <<contracts, index>>

\* Most requests select nothing and touch no schema.
SkipValidation(r) ==
    /\ requests[r].step = "validate"
    /\ requests[r].projection = NoProjection
    /\ requests' = [requests EXCEPT ![r].step = "handler"]
    /\ UNCHANGED <<contracts, index>>

StartCompile(r) ==
    /\ requests[r].step = "validate"
    /\ requests[r].projection # NoProjection
    /\ index.once = "fresh"
    /\ index' = [index EXCEPT !.once = "running", !.by = {r}]
    /\ UNCHANGED <<contracts, requests>>

\* The holder lets go of the contracts once it has the schema.
FinishCompile(r) ==
    /\ index.by = {r}
    /\ index' = [once |-> "done", by |-> {}, contracts |-> <<>>,
                 schema |-> DeriveSchema(index.contracts)]
    /\ UNCHANGED <<contracts, requests>>

\* Mutant: one request sees that another has begun, and goes on.
Begun(r) == index.once # "fresh" /\ r \notin index.by

\* once.Do returns to nobody before the schema is there.
Compiled(r) == index.once = "done"

ValidateProjection(r) ==
    LET caller == ResponseCaller(requests[r])
        valid == Validates(index.schema, requests[r].projection, caller)
    IN /\ requests[r].step = "validate"
       /\ requests[r].projection # NoProjection
       /\ Compiled(r)
       /\ requests' = [requests EXCEPT
             ![r].step = IF valid THEN "handler" ELSE "refused",
             ![r].errors = IF valid THEN {} ELSE {"invalid_response_projection"},
             ![r].judged = caller]
       /\ UNCHANGED <<contracts, index>>

-----------------------------------------------------------------------------
InHandler(r) == requests[r].step \in {"handler", "rendered", "stored"}

\* Trusted code attaches another caller, before or in the handler.
AttachCaller(r, caller) ==
    /\ InHandler(r) \/ requests[r].step = "meta"
    /\ \A q \in Requests : requests[q].calls < MaxCalls
    /\ requests' = [requests EXCEPT ![r].caller = caller, ![r].calls = @ + 1]
    /\ UNCHANGED <<contracts, index>>

\* Nothing changes when the policy does not permit it.
ProjectResponseAs(r, asked) ==
    /\ InHandler(r) \/ requests[r].step = "meta"
    /\ \A q \in Requests : requests[q].calls < MaxCalls
    /\ Resolve(Policy, requests[r].caller, asked) \in Caller
    /\ requests' = [requests EXCEPT
          ![r].responseCaller = Resolve(Policy, requests[r].caller, asked),
          ![r].calls = @ + 1]
    /\ UNCHANGED <<contracts, index>>

\* What becomes of request r when its response is rendered in its context now.
Rendered(r, contract, value, step) ==
    LET shape == contracts[contract].body
        context == ResponseContext(requests[r])
        panics == Panics(shape, context, value)
    IN [requests EXCEPT
          ![r].step = IF panics THEN "panicked" ELSE step,
          ![r].contract = contract,
          ![r].value = value,
          ![r].context = context,
          ![r].emitted = IF panics THEN {} ELSE Project(shape, context, value)]

\* A handler has a value of the type of one of the contracts.  Render and its
\* kin project a shaped body at once.
Render(r, contract, value) ==
    /\ requests[r].step = "handler"
    /\ <<contracts[contract].body, value>> \in Typed
    /\ requests' = Rendered(r, contract, value, "rendered")
    /\ UNCHANGED <<contracts, index>>

\* SetResponse keeps the shaped body until it is written.
SetResponse(r, contract, value) ==
    /\ requests[r].step = "handler"
    /\ <<contracts[contract].body, value>> \in Typed
    /\ requests' = [requests EXCEPT ![r].step = "stored",
                                    ![r].contract = contract, ![r].value = value]
    /\ UNCHANGED <<contracts, index>>

WriteResponse(r) ==
    /\ requests[r].step \in {"rendered", "stored"}
    /\ requests' = IF requests[r].step = "rendered"
                   THEN [requests EXCEPT ![r].step = "written"]
                   ELSE Rendered(r, requests[r].contract, requests[r].value, "written")
    /\ UNCHANGED <<contracts, index>>

Next ==
    \E r \in Requests :
        \/ \E caller, asked \in Caller \cup {NoCaller}, body \in Bodies[r] :
              Arrive(r, caller, asked, body)
        \/ PrepareMeta(r)
        \/ SkipValidation(r)
        \/ StartCompile(r)
        \/ FinishCompile(r)
        \/ ValidateProjection(r)
        \/ \E caller \in Caller : AttachCaller(r, caller)
        \/ \E asked \in Caller \cup {NoCaller} : ProjectResponseAs(r, asked)
        \/ \E contract \in DOMAIN contracts, value \in Values :
              Render(r, contract, value) \/ SetResponse(r, contract, value)
        \/ WriteResponse(r)

Spec == Init /\ [][Next]_vars

-----------------------------------------------------------------------------
(***************************************************************************)
(* The selection a body spells, read without the parser, and what it means *)
(* by the formula of spec/v0.2.md:7.2.                                     *)
(***************************************************************************)
\* The attributes inside of a shape, arrays and maps passed through, each as
\* <<path, attribute>>.
Places[shape \in Shapes] ==
    LET object == ProjectionObjectShape[shape]
    IN IF ~ IsObject(object) THEN {}
       ELSE UNION {{<<<<attribute.name>>, attribute>>}
                       \cup {<<<<attribute.name>> \o place[1], place[2]>> :
                                place \in Places[attribute.shape]}
                   : attribute \in AttributesOf(object)}

\* A caller sees a path if it sees every attribute on the way to it.
Visible(shape, path, caller) ==
    LET seen == {place[1] : place \in {p \in Places[shape] : Allows(p[2].availability, caller)}}
    IN \A n \in DOMAIN path : SubSeq(path, 1, n) \in seen

\* All paths of a value.
ValuePaths[value \in Values] ==
    IF "items" \in DOMAIN value
    THEN UNION {ValuePaths[value.items[i]] : i \in DOMAIN value.items}
    ELSE IF "fields" \in DOMAIN value
    THEN UNION {{<<name>> \o path : path \in ValuePaths[value.fields[name]] \cup {<<>>}} :
                   name \in DOMAIN value.fields}
    ELSE {}

\* Every resource on the way to a path keeps what the path is inside of it.
Keeps(projection, path) ==
    \A i, j \in DOMAIN path : i < j /\ path[i] \in DOMAIN projection =>
        LET inside == SubSeq(path, i + 1, j)
            paths == projection[path[i]].paths
        IN IF projection[path[i]].mode = "pick"
           THEN \E picked \in paths : IsPrefix(inside, picked) \/ IsPrefix(picked, inside)
           ELSE \A n \in DOMAIN inside : SubSeq(inside, 1, n) \notin paths

\* Some successful contract shows the caller this resource, and in it this path.
Shows(resource, path, caller) ==
    \E contract \in {c \in ToSet(contracts) : Projectable(c)} :
        \E place \in Places[contract.body] :
            /\ Last(place[1]) = resource
            /\ IsObject(ProjectionObjectShape[place[2].shape])
            /\ Visible(contract.body, place[1] \o path, caller)

\* Who is let into the handler: a selection that is well-formed and names only
\* what a successful response may show its response caller, whoever compiled
\* the schema, and when (spec/v0.2.md:412-437, 465-466).
AdmitsVisibleSelections ==
    \A r \in Requests :
        LET request == requests[r]
        IN request.errors \in {{}, {"invalid_response_projection"}}
              /\ request.judged = ResponseCaller(request)
              /\ request.projection # NoProjection
              /\ request.step \in {"handler", "refused"}
           => ((request.step = "handler") <=>
                  \A resource \in DOMAIN request.projection :
                      /\ Shows(resource, <<>>, request.judged)
                      /\ \A path \in request.projection[resource].paths :
                            Shows(resource, path, request.judged))

\* A response has every path of its value that its caller sees and every
\* resource on the way to it keeps, and no other.
RendersTheSelection ==
    \A r \in Requests :
        LET request == requests[r]
            shape == contracts[request.contract].body
        IN request.step \in {"rendered", "written"} =>
              request.emitted = {path \in ValuePaths[request.value] :
                                    /\ Visible(shape, path, request.context.caller)
                                    /\ Keeps(request.projection, path)}

\* What is rendered is for the caller of the request, or a narrower one:
\* "Upward and lateral projections are denied" (spec/v0.2.md:242), the response
\* caller "is an optional, narrower caller" (request/request.go:124).
ResponseCallerIsNarrower ==
    \A r \in Requests :
        requests[r].responseCaller # NoCaller =>
            requests[r].responseCaller \in {requests[r].caller}
                                           \cup Narrower(Policy, requests[r].caller)
=============================================================================
