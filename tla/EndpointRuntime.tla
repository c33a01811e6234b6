--------------------------- MODULE EndpointRuntime ---------------------------
(***************************************************************************)
(* One request through Endpoint.httpHandler (endpoint/runtime.go): the     *)
(* transport checks, authentication, the access policy, request metadata,  *)
(* idempotency, the application handler, the response, and the deferred    *)
(* function that audits and completes the request whatever happened.       *)
(*                                                                         *)
(* While the request is served its session may expire, the deadline of its *)
(* context may pass, and its client may leave: the code reads the session  *)
(* and the context again at every step, so these are steps of their own.   *)
(* Application code (authenticator, control evaluator, idempotency store,  *)
(* handler, timeout handler, response bodies, sinks) answers in any way    *)
(* its interface allows, and may panic.                                    *)
(***************************************************************************)
EXTENDS Naturals, Sequences

CONSTANTS
    Endpoints,      \* the endpoint specifications of a behaviour
    Inputs          \* the HTTP requests of a behaviour

(***************************************************************************)
(* A flaw is a check the request is going to fail: the wrong method or     *)
(* media type, a declared or a streamed body over the limit, a body that   *)
(* cannot be read, a caller or a control the endpoint does not admit, bad  *)
(* metadata.  "rejected" credentials do not authenticate.                  *)
(***************************************************************************)
Flaws == {"method", "media_type", "declared_size", "streamed_size", "unreadable",
          "caller", "control", "meta"}

EndpointSpecs == [internal : BOOLEAN,
                  authorization : {"none", "any", "bearer", "service"},
                  controlled : BOOLEAN,
                  idempotent : BOOLEAN,
                  scoped : BOOLEAN,
                  timeoutHandler : BOOLEAN]

HttpRequests == [flaws : SUBSET Flaws,
                 credential : {"none", "rejected", "bearer", "service"}]

ASSUME EndpointsAssumption == Endpoints \subseteq EndpointSpecs
ASSUME InputsAssumption == Inputs \subseteq HttpRequests

VARIABLES
    endpoint,       \* the Endpoint serving the request
    input,          \* the HTTP request
    pc,             \* where its goroutine is
    session,        \* req.Sess: "none", "live" or "expired"
    ctx,            \* req.Context(): "live", "deadline" or "canceled"
    res,            \* req.Res
    outcome,        \* completionState.outcome, "unset" when empty
    denied,         \* req.AuthorizationFailure is set
    reservation,    \* of the idempotency key: "none", "bypassed", "held", "settled"
    ran,            \* history: the application handler was entered
    panicking,      \* a panic is unwinding the request
    wire,           \* the responses whose head went to the client, in order
    audited,        \* the audit sink was called
    report,         \* the completion given to the sink, once there is one
    fate            \* of the connection: "open", "returned" or "aborted"

vars == <<endpoint, input, pc, session, ctx, res, outcome, denied, reservation,
          ran, panicking, wire, audited, report, fate>>

static == <<endpoint, input>>
ending == <<audited, report, fate>>

Locations == {"method", "media_type", "limit", "reading", "authenticating",
              "internal", "authorization", "mode", "caller", "controls",
              "evaluating", "meta", "idempotency", "handling", "settling",
              "responding", "timing_out", "writing", "rewriting", "sending",
              "auditing", "completing", "ended"}

(***************************************************************************)
(* A response: who rendered it, whether its status is a 2xx, and what      *)
(* becomes of its body when it is encoded or copied.                       *)
(***************************************************************************)
Bodies == {"encodes", "fails", "panics", "stream"}

Failures == {"method_not_allowed", "unsupported_content_type", "request_too_large",
             "invalid_request_body", "unauthenticated", "forbidden",
             "invalid_param", "idempotency", "timeout", "unexpected"}

Failed(why) == [from |-> why, success |-> FALSE, body |-> "encodes"]

Replay == [from |-> "replay", success |-> TRUE, body |-> "encodes"]

NoResponse == [from |-> "nobody", success |-> FALSE, body |-> "encodes"]

HandlerResponses == [from : {"handler"}, success : BOOLEAN, body : Bodies]
                       \cup {Failed("invalid_param"), NoResponse}

Responses == HandlerResponses \cup {Failed(why) : why \in Failures} \cup {Replay}

Rejections == {"method_not_allowed", "unsupported_content_type", "request_too_large",
               "invalid_request_body"}

Outcomes == Rejections \cup {"unset", "access_denied", "timed_out", "parse_failed",
                             "handled", "panicked"}

Reports == [outcome : Outcomes \ {"unset"}, res : Responses]

NoReport == [outcome |-> "none"]

TypeOK ==
    /\ endpoint \in Endpoints
    /\ input \in Inputs
    /\ pc \in Locations
    /\ session \in {"none", "live", "expired"}
    /\ ctx \in {"live", "deadline", "canceled"}
    /\ res \in Responses
    /\ outcome \in Outcomes
    /\ denied \in BOOLEAN
    /\ reservation \in {"none", "bypassed", "held", "settled"}
    /\ ran \in BOOLEAN
    /\ panicking \in BOOLEAN
    /\ wire \in Seq(Responses)
    /\ audited \in BOOLEAN
    /\ report \in Reports \cup {NoReport}
    /\ fate \in {"open", "returned", "aborted"}

Init ==
    /\ endpoint \in Endpoints
    /\ input \in Inputs
    /\ pc = "method"
    /\ session = "none"
    /\ ctx = "live"
    /\ res = NoResponse
    /\ outcome = "unset"
    /\ denied = FALSE
    /\ reservation = "none"
    /\ ran = FALSE
    /\ panicking = FALSE
    /\ wire = <<>>
    /\ audited = FALSE
    /\ report = NoReport
    /\ fate = "open"

Authorized == session = "live"

-----------------------------------------------------------------------------
(***************************************************************************)
(* The transport checks.  A rejected request is answered and never reaches *)
(* the rest.                                                               *)
(***************************************************************************)
Pass(next) ==
    /\ pc' = next
    /\ UNCHANGED <<res, outcome>>

Reject(why) ==
    /\ res' = Failed(why)
    /\ outcome' = why
    /\ pc' = "writing"

CheckMethod ==
    /\ pc = "method"
    /\ IF "method" \in input.flaws
         THEN Reject("method_not_allowed")
         ELSE Pass("media_type")
    /\ UNCHANGED <<static, session, ctx, denied, reservation, ran, panicking, wire, ending>>

CheckMediaType ==
    /\ pc = "media_type"
    /\ IF "media_type" \in input.flaws
         THEN Reject("unsupported_content_type")
         ELSE Pass("limit")
    /\ UNCHANGED <<static, session, ctx, denied, reservation, ran, panicking, wire, ending>>

\* The envelope and the declared length; the body is counted while it is read.
EnforceLimit ==
    /\ pc = "limit"
    /\ IF "declared_size" \in input.flaws
         THEN Reject("request_too_large")
         ELSE Pass("reading")
    /\ UNCHANGED <<static, session, ctx, denied, reservation, ran, panicking, wire, ending>>

\* A body both too long and broken fails at whichever comes first.
ReadBody ==
    /\ pc = "reading"
    /\ \/ /\ "streamed_size" \in input.flaws
          /\ Reject("request_too_large")
       \/ /\ "unreadable" \in input.flaws
          /\ Reject("invalid_request_body")
       \/ /\ input.flaws \cap {"streamed_size", "unreadable"} = {}
          /\ Pass("authenticating")
    /\ UNCHANGED <<static, session, ctx, denied, reservation, ran, panicking, wire, ending>>

\* A session comes from the context or from the authenticator, which may hand
\* out one that has already expired.  Failed authentication is not an answer yet.
Authenticate ==
    /\ pc = "authenticating"
    /\ IF input.credential \in {"bearer", "service"}
         THEN session' \in {"live", "expired"}
         ELSE UNCHANGED session
    /\ pc' = "internal"
    /\ UNCHANGED <<static, ctx, res, outcome, denied, reservation, ran, panicking, wire, ending>>

-----------------------------------------------------------------------------
(***************************************************************************)
(* Endpoint.accessError.  Each check reads the session afresh.             *)
(***************************************************************************)
Admit(next) ==
    /\ pc' = next
    /\ UNCHANGED <<res, outcome, denied>>

Deny(why) ==
    /\ res' = Failed(why)
    /\ outcome' = "access_denied"
    /\ denied' = TRUE
    /\ pc' = "responding"

Satisfies(kind) ==
    /\ Authorized
    /\ \/ kind = "any"
       \/ kind = input.credential

\* Mutant: an internal endpoint lets any authorized session through.
CheckInternalByAuthorization ==
    /\ pc = "internal"
    /\ IF endpoint.internal /\ ~Authorized
         THEN Deny("unauthenticated")
         ELSE Admit(IF endpoint.authorization = "none" THEN "caller" ELSE "authorization")
    /\ UNCHANGED <<static, session, ctx, reservation, ran, panicking, wire, ending>>

CheckInternal ==
    /\ pc = "internal"
    /\ IF endpoint.internal /\ ~Satisfies("service")
         THEN Deny(IF Authorized THEN "forbidden" ELSE "unauthenticated")
         ELSE Admit(IF endpoint.authorization = "none" THEN "caller" ELSE "authorization")
    /\ UNCHANGED <<static, session, ctx, reservation, ran, panicking, wire, ending>>

CheckAuthenticated ==
    /\ pc = "authorization"
    /\ IF Authorized THEN Admit("mode") ELSE Deny("unauthenticated")
    /\ UNCHANGED <<static, session, ctx, reservation, ran, panicking, wire, ending>>

CheckMode ==
    /\ pc = "mode"
    /\ IF Satisfies(endpoint.authorization) THEN Admit("caller") ELSE Deny("forbidden")
    /\ UNCHANGED <<static, session, ctx, reservation, ran, panicking, wire, ending>>

\* No caller label at all is a 401, a label that is not admitted a 403.
CheckCaller ==
    /\ pc = "caller"
    /\ IF "caller" \in input.flaws
         THEN \E why \in {"unauthenticated", "forbidden"} : Deny(why)
         ELSE Admit("controls")
    /\ UNCHANGED <<static, session, ctx, reservation, ran, panicking, wire, ending>>

CheckControls ==
    /\ pc = "controls"
    /\ IF ~endpoint.controlled
         THEN Admit("meta")
         ELSE IF Authorized THEN Admit("evaluating") ELSE Deny("unauthenticated")
    /\ UNCHANGED <<static, session, ctx, reservation, ran, panicking, wire, ending>>

\* A refusal and an evaluation that fails are both a 403.
EvaluateControls ==
    /\ pc = "evaluating"
    /\ IF "control" \in input.flaws THEN Deny("forbidden") ELSE Admit("meta")
    /\ UNCHANGED <<static, session, ctx, reservation, ran, panicking, wire, ending>>

-----------------------------------------------------------------------------
(***************************************************************************)
(* Metadata, idempotency and the handler.                                  *)
(***************************************************************************)
PrepareMeta ==
    /\ pc = "meta"
    /\ IF "meta" \in input.flaws
         THEN /\ res' = Failed("invalid_param")
              /\ pc' = "responding"
         ELSE /\ pc' = IF endpoint.idempotent THEN "idempotency" ELSE "handling"
              /\ UNCHANGED res
    /\ UNCHANGED <<static, session, ctx, outcome, denied, reservation, ran, panicking,
                   wire, ending>>

\* handleIdempotently up to its handler call: the module Idempotency has the
\* store.  A key that is invalid, in progress, in conflict, replayed, or that
\* cannot be reserved answers the request without the handler.
Bypass ==
    /\ pc = "idempotency"
    /\ ~Authorized
    /\ ~endpoint.scoped
    /\ reservation' = "bypassed"
    /\ pc' = "handling"
    /\ UNCHANGED <<static, session, ctx, res, outcome, denied, ran, panicking, wire, ending>>

Reserve ==
    /\ pc = "idempotency"
    /\ Authorized \/ endpoint.scoped
    /\ \/ /\ reservation' = "held"
          /\ pc' = "handling"
          /\ UNCHANGED res
       \/ /\ res' \in {Failed("invalid_param"), Failed("idempotency"), Replay}
          /\ pc' = "responding"
          /\ UNCHANGED reservation
    /\ UNCHANGED <<static, session, ctx, outcome, denied, ran, panicking, wire, ending>>

\* A handler may leave any response or none, and may itself record an
\* authorization failure on the request.
HandlerSets ==
    /\ pc = "handling"
    /\ res' \in HandlerResponses
    /\ denied' \in {denied, TRUE}
    /\ ran' = TRUE
    /\ UNCHANGED <<static, session, ctx, outcome, reservation, wire, ending>>

\* Mutant: the answer is written before the reservation is settled.
HandlerReturnsUnsettled ==
    /\ HandlerSets
    /\ pc' = "responding"
    /\ UNCHANGED panicking

HandlerReturns ==
    /\ HandlerSets
    /\ pc' = IF reservation = "held" THEN "settling" ELSE "responding"
    /\ UNCHANGED panicking

HandlerPanics ==
    /\ HandlerSets
    /\ panicking' = TRUE
    /\ pc' = "auditing"

\* Release or Complete is called, whatever the store answers: the key is settled
\* as far as the runtime goes.  A buffered 2xx is encoded
\* first, and its encoder may panic: then see Panics.
Settle ==
    /\ pc = "settling"
    /\ ~(res.success /\ res.body = "panics")
    /\ reservation' = "settled"
    /\ pc' = "responding"
    /\ UNCHANGED <<static, session, ctx, res, outcome, denied, ran, panicking, wire, ending>>

-----------------------------------------------------------------------------
(***************************************************************************)
(* The response.                                                           *)
(***************************************************************************)
\* Mutant: any context that is done counts as a timeout.
RespondTimedOutIfDone ==
    /\ pc = "responding"
    /\ IF res # NoResponse
         THEN /\ pc' = "writing"
              /\ UNCHANGED <<res, outcome>>
         ELSE IF ctx # "live"
         THEN /\ outcome' = "timed_out"
              /\ pc' = "timing_out"
              /\ UNCHANGED res
         ELSE /\ res' = Failed("unexpected")
              /\ pc' = "writing"
              /\ UNCHANGED outcome
    /\ UNCHANGED <<static, session, ctx, denied, reservation, ran, panicking, wire, ending>>

Respond ==
    /\ pc = "responding"
    /\ IF res # NoResponse
         THEN /\ pc' = "writing"
              /\ UNCHANGED <<res, outcome>>
         ELSE IF ctx = "deadline"
         THEN /\ outcome' = "timed_out"
              /\ pc' = "timing_out"
              /\ UNCHANGED res
         ELSE /\ res' = Failed("unexpected")
              /\ pc' = "writing"
              /\ UNCHANGED outcome
    /\ UNCHANGED <<static, session, ctx, denied, reservation, ran, panicking, wire, ending>>

\* handleTimeout: the endpoint's own handler, then the default one if it
\* rendered nothing.
HandleTimeout ==
    /\ pc = "timing_out"
    /\ \/ res' = Failed("timeout")
       \/ /\ endpoint.timeoutHandler
          /\ res' \in HandlerResponses \ {NoResponse}
    /\ pc' = "writing"
    /\ UNCHANGED <<static, session, ctx, outcome, denied, reservation, ran, panicking,
                   wire, ending>>

TimeoutHandlerPanics ==
    /\ pc = "timing_out"
    /\ endpoint.timeoutHandler
    /\ res' \in HandlerResponses
    /\ panicking' = TRUE
    /\ pc' = "auditing"
    /\ UNCHANGED <<static, session, ctx, outcome, denied, reservation, ran, wire, ending>>

\* Mutant: the head is written before the body is encoded.
WriteHeadFirst ==
    /\ pc = "writing"
    /\ res.body # "panics"
    /\ wire' = Append(wire, res)
    /\ pc' = IF res.body = "fails" THEN "rewriting" ELSE "sending"
    /\ UNCHANGED <<static, session, ctx, res, outcome, denied, reservation, ran, panicking,
                   ending>>

\* WriteResponse: a body that does not encode leaves the wire untouched.
WriteHead ==
    /\ pc = "writing"
    /\ res.body # "panics"
    /\ IF res.body = "fails"
         THEN /\ pc' = "rewriting"
              /\ UNCHANGED wire
         ELSE /\ wire' = Append(wire, res)
              /\ pc' = "sending"
    /\ UNCHANGED <<static, session, ctx, res, outcome, denied, reservation, ran, panicking,
                   ending>>

\* Mutant: the second attempt writes the response that did not encode.
RewriteSameResponse ==
    /\ pc = "rewriting"
    /\ pc' = "writing"
    /\ UNCHANGED <<static, session, ctx, res, outcome, denied, reservation, ran, panicking,
                   wire, ending>>

\* Mutant: the error is written and the request keeps its first response.
RewriteUnrecorded ==
    /\ pc = "rewriting"
    /\ wire' = Append(wire, Failed("unexpected"))
    /\ pc' = "sending"
    /\ UNCHANGED <<static, session, ctx, res, outcome, denied, reservation, ran, panicking,
                   ending>>

\* The second WriteResponse of writeRenderedResponse, of an error that encodes.
Rewrite ==
    /\ pc = "rewriting"
    /\ res' = Failed("unexpected")
    /\ wire' = Append(wire, res')
    /\ pc' = "sending"
    /\ UNCHANGED <<static, session, ctx, outcome, denied, reservation, ran, panicking, ending>>

\* The body; a write error is only logged.
Send ==
    /\ pc = "sending"
    /\ pc' = "auditing"
    /\ UNCHANGED <<static, session, ctx, res, outcome, denied, reservation, ran, panicking,
                   wire, ending>>

\* Application code outside the two handlers panics: authenticator, evaluator,
\* scope resolver or store, encoder of a body, reader of a stream.
Panics ==
    /\ \/ pc \in {"authenticating", "evaluating", "idempotency", "settling"}
       \/ pc = "writing" /\ res.body = "panics"
       \/ pc = "sending" /\ res.body = "stream"
    /\ panicking' = TRUE
    /\ pc' = "auditing"
    /\ UNCHANGED <<static, session, ctx, res, outcome, denied, reservation, ran, wire, ending>>

-----------------------------------------------------------------------------
(***************************************************************************)
(* The deferred function.                                                  *)
(***************************************************************************)
Unwound == IF panicking /\ res = NoResponse THEN Failed("unexpected") ELSE res

\* Mutant: a request that panics is not audited.
AuditUnlessPanicking ==
    /\ pc = "auditing"
    /\ res' = Unwound
    /\ audited' = ~panicking
    /\ pc' = "completing"
    /\ UNCHANGED <<static, session, ctx, outcome, denied, reservation, ran, panicking, wire,
                   report, fate>>

\* A sink that returns an error is only logged.
Audit ==
    /\ pc = "auditing"
    /\ res' = Unwound
    /\ audited' = TRUE
    /\ pc' = "completing"
    /\ UNCHANGED <<static, session, ctx, outcome, denied, reservation, ran, panicking, wire,
                   report, fate>>

\* Nothing recovers a panic of the audit sink: it leaves the deferred function
\* before the completion, and the server drops the connection.
AuditSinkPanics ==
    /\ pc = "auditing"
    /\ res' = Unwound
    /\ audited' = TRUE
    /\ fate' = "aborted"
    /\ pc' = "ended"
    /\ UNCHANGED <<static, session, ctx, outcome, denied, reservation, ran, panicking, wire,
                   report>>

\* Mutant: an ordinary completion is given no outcome of its own.
OutcomeAsRecorded == IF panicking THEN "panicked" ELSE outcome

completionOutcome ==
    CASE panicking -> "panicked"
      [] ~panicking /\ outcome # "unset" -> outcome
      [] ~panicking /\ outcome = "unset" /\ denied -> "access_denied"
      [] ~panicking /\ outcome = "unset" /\ ~denied /\ res.from = "invalid_param" -> "parse_failed"
      [] OTHER -> "handled"

\* completeEndpoint recovers a sink that panics; then the panic of the request,
\* if any, goes on to the server, which drops the connection.
Complete ==
    /\ pc = "completing"
    /\ report' = [outcome |-> completionOutcome, res |-> res]
    /\ fate' = IF panicking THEN "aborted" ELSE "returned"
    /\ pc' = "ended"
    /\ UNCHANGED <<static, session, ctx, res, outcome, denied, reservation, ran, panicking,
                   wire, audited>>

-----------------------------------------------------------------------------
(***************************************************************************)
(* The environment.                                                        *)
(***************************************************************************)
SessionExpires ==
    /\ pc # "ended"
    /\ session = "live"
    /\ session' = "expired"
    /\ UNCHANGED <<static, pc, ctx, res, outcome, denied, reservation, ran, panicking, wire,
                   ending>>

\* The deadline passes or the client leaves; the first reason stays.
ContextDone ==
    /\ pc # "ended"
    /\ ctx = "live"
    /\ ctx' \in {"deadline", "canceled"}
    /\ UNCHANGED <<static, pc, session, res, outcome, denied, reservation, ran, panicking,
                   wire, ending>>

-----------------------------------------------------------------------------
Transport == CheckMethod \/ CheckMediaType \/ EnforceLimit \/ ReadBody \/ Authenticate

Access == CheckInternal \/ CheckAuthenticated \/ CheckMode \/ CheckCaller
              \/ CheckControls \/ EvaluateControls

Handle == PrepareMeta \/ Bypass \/ Reserve \/ HandlerReturns \/ HandlerPanics \/ Settle

Answer == Respond \/ HandleTimeout \/ TimeoutHandlerPanics \/ WriteHead \/ Rewrite \/ Send

Finish == Audit \/ AuditSinkPanics \/ Complete

Step == Transport \/ Access \/ Handle \/ Answer \/ Panics \/ Finish

Environment == SessionExpires \/ ContextDone

Next == Step \/ Environment

Spec == Init /\ [][Next]_vars

\* The goroutine of the request keeps running and application code returns.
FairSpec == Spec /\ WF_vars(Step)

-----------------------------------------------------------------------------
(***************************************************************************)
(* Properties.                                                             *)
(***************************************************************************)
\* However often a response is rendered again - a missing one, a timeout, a body
\* that does not encode - one head at most reaches the client (runtime.go:542-570),
\* and a connection that is handed back to the server has had exactly one.
OneHead ==
    /\ Len(wire) <= 1
    /\ fate = "returned" => Len(wire) = 1

\* "The handler MUST NOT run after a failure in an earlier step" (section 10):
\* it only runs for a request without a flaw any step would have caught, whose
\* credential is of the kind that the endpoint and, when it is internal, the
\* internal rule ask for.
Entitled ==
    /\ input.flaws \ {"control"} = {}
    /\ endpoint.controlled => "control" \notin input.flaws
    /\ endpoint.internal => input.credential = "service"
    /\ endpoint.authorization = "any" => input.credential \in {"bearer", "service"}
    /\ endpoint.authorization \in {"bearer", "service"} =>
           input.credential = endpoint.authorization

NoHandlerPastAFailure == ran => Entitled

\* A request is completed with the response its client was sent, also when that
\* response was rendered twice, unless a panic kept the answer back.
ReportMatchesWire ==
    (report # NoReport /\ ~panicking) => wire = <<report.res>>

\* The outcome names what really happened: a rejection left the handler unrun, and
\* so did a denial by the runtime's own access policy; a timeout was a deadline
\* that passed and not a client that left; an ordinary one hides neither a denial
\* nor a panic.  An access_denied that the runtime did not note itself only says
\* that a denial was recorded, which a handler may do: DeniedBeforeTheHandler.
OutcomeIsTheCause ==
    report # NoReport =>
        /\ report.outcome \in Rejections => ~ran
        /\ outcome = "access_denied" => ~ran
        /\ report.outcome = "timed_out" => ctx = "deadline" /\ ran
        /\ report.outcome \in {"handled", "parse_failed"} => ~denied /\ ~panicking
        /\ report.outcome = "access_denied" => denied
        /\ panicking <=> report.outcome = "panicked"

\* A client never holds the answer of a handler while the reservation of its key
\* is still unsettled: a retry sent after the answer meets a settled key
\* (idempotency.go:252-300 runs before runtime.go:513).
SettledBeforeAnswer == wire # <<>> => reservation # "held"

\* What the runtime promises whoever looks from outside.
Lifecycle == INSTANCE RequestLifecycle WITH
    answer <- IF wire = <<>> THEN "none" ELSE "sent",
    completed <- (report # NoReport)

Promise == Lifecycle!Spec

\* Every request is finished: answered or aborted, and audited.
EveryRequestEnds == <>(pc = "ended")

-----------------------------------------------------------------------------
(***************************************************************************)
(* What the documents say and the code does not do.                        *)
(***************************************************************************)
\* "the runtime MUST NOT report a successful response for it" (spec/v0.2.md:644).
NoSuccessReportedForPanic ==
    (report # NoReport /\ panicking) => ~report.res.success

\* "Observability sink failures MUST NOT change the client response"
\* (spec/v0.2.md:642): only a panic of the request itself aborts it.
SinksLeaveTheAnswerAlone == fate = "aborted" => panicking

\* "reports that the request reached the application handler" (completion.go:21).
HandledReachedTheHandler ==
    (report # NoReport /\ report.outcome = "handled") => ran

\* "reports that endpoint access policy rejected the request before the
\* application handler ran" (completion.go:45-46): a handler that records an
\* authorization failure itself is completed as access_denied (completion.go:267).
DeniedBeforeTheHandler ==
    (report # NoReport /\ report.outcome = "access_denied") => ~ran

\* "reserve or replay idempotency when the endpoint is idempotent" (section 10,
\* step 8): a request that had to be authorized does not run unreserved.
AuthorizedRunsAreReserved ==
    (ran /\ endpoint.idempotent /\ endpoint.authorization # "none")
        => reservation \in {"held", "settled"}
=============================================================================
