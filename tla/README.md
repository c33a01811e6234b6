# httpapi: a TLA+ model

This directory models the Go module `httpapi` (the repository's `src/`): typed
HTTP endpoints over `net/http`, with access policy, request metadata,
idempotency, timeouts, audit and completion reporting. The reference is the
code; `spec/v0.2.md`, the comments and the tests are quoted where the code and
they disagree.

## 1. The system

| component | state it keeps | operations | who calls whom |
|---|---|---|---|
| endpoint runtime (`endpoint/runtime*.go`, `completion.go`, `audit.go`) | per request: `req`, `completionState`, `responseSizeBytes` | `httpHandler`, `accessError`, `handleTimeout`, `writeRenderedResponse`, `completeEndpoint` | net/http calls it; it calls request, access, idempotency, handler, response writer, sinks |
| idempotency (`endpoint/idempotency.go`) | the records of an external store | `handleIdempotently`, `parseIdempotencyRequest`, `replayOrRejectIdempotentRequest`, `Reserve`/`Complete`/`Release` | called by the runtime around the handler; shared by all requests, in all processes |
| auth and sessions (`auth`, `request/session.go`) | the session of a request | `Authenticate`, `Authorized`, `SessionSatisfiesAuthorization` | called at construction and again at every access check |
| request (`request`) | body, metadata, projection of one request | `NewReqWithError`, `PrepareMeta`, projection validation | called by the runtime |
| package configuration (`Configure…` in five files) | one mutex-guarded value each | install, read, restore | application start-up and tests write, every request reads |
| mux and groups (`endpoint/mux.go`, `runtime_spec.go`) | `routes`, `mounted`, `groups`, the `ServeMux` | `Mount`, `ResolvedEndpoints` | application start-up |
| callers (`caller`) | none; policies as values | projection, availability sets | request and response projection |
| params and responses (`param`, `response`) | none shared | parsing, rendering, projecting, writing | handlers and runtime |
| cost (`cost`) | usage units of one request, under a mutex | `Recorder`, snapshot at completion | handlers, possibly from several goroutines |
| server (`server`) | middleware chain, CORS policy | `ListenAndServe`, CORS decisions | wraps the mux |
| OpenAPI (`openapi`) | none | transcription of contracts | build time |

Hard behaviour, and the property that makes each part right:

- *Idempotency*: concurrent requests for one key, store calls that fail before
  or after they took effect, dead processes, records that expire under a
  request still at work, contexts that end before `Release`. Right when the
  handler of a key runs for one request at a time, a success is not run again
  before its record expires, replays are faithful, and only faults leave a
  reservation behind.
- *Runtime*: a dozen early exits, a session and a context that are read again
  at each step, panics at any call into application code, a response that is
  rendered up to three times. Right when no gate is passed by a request that
  should fail it, one head is sent, and the audit and the completion are given
  once and say what happened.
- *Configuration*: restore closures run in any order.
- *Authentication*: one request reads the schemes three times and the
  authenticator once, while they may be replaced. Right when a credential that
  was presented is exchanged or the failure recorded, and by the right name.
- *Mux*: a batch is validated and then mounted, and mounting may panic; wrappers
  are copies of policies that setters still change. Right when what is served is
  what was declared and inherited, and the registry and the documents know it.
- *Params*: one definition, one index, all requests of an endpoint; availability
  changes what a rule counts. Right when a request is accepted for its body and
  its caller alone.
- *Responses*: a schema compiled by the first of several requests, callers that
  trusted code changes, resources inside resources. Right when a rendering has
  what its caller sees and selected, and nothing else.
- *Cost*: jobs outlive the request that started them. Right when events agree
  with the recorder and all work rolls up to its request.
- *Server*: CORS headers are decided at the first write, over what handlers set;
  the limit is shared by head and body. Right when a browser reads only what the
  policy grants it, and a handler runs only within the limit.

`PROJECT.json` lists every component and, under `hazards`, each of these at its
line.

## 2. Modules

| module | what it is |
|---|---|
| `Idempotency` | any number of requests through `handleIdempotently` and one external store |
| `EndpointRuntime` | one request through `httpHandler`, from the method check to the deferred function |
| `RequestLifecycle` | what the runtime promises its client and its sinks, as an abstract specification |
| `Callers` | caller sets and projection policies, used by endpoint groups, parameters and responses |
| `EndpointGroups` | definitions of endpoints, and how the defaults of a group reach them |
| `Mux` | an application that configures groups, adds endpoints and mounts them in any order |
| `MuxDocuments` | the OpenAPI 3.1 and the gateway document of what is mounted |
| `PackageConfig` | one `Configure...` setting with its restore closures; instantiated three times |
| `RequestIntake` | how a request gets its session while schemes and authenticator are reconfigured |
| `Accounting` | cost recorders of requests and jobs, flushes, completion and its sink |
| `ParamShapes` | what a parameter definition accepts, as the set of errors a parse may report |
| `ParamContract` | the contract of a definition for one caller, stated without an order |
| `ParamParser` | concurrent parses with one definition, whose index they all rebuild |
| `ParamSchema` | the schemas written from a definition, and what they accept |
| `ResponseShapes` | response shapes, the projection schema derived from them, rendering |
| `RequestMeta` | parsing of `request_meta` and of the projection in it |
| `ResponseProjection` | concurrent requests that share the lazily compiled schema, up to the rendering |
| `HttpFront` | CORS, middleware, the request limit, and the way back through a cache |
| `...Proofs` | the theorems of a module; `ProofFacts` has the facts several of them use |
| `MC...` | constants for TLC |

Composition: `MuxDocuments` extends `Mux` extends `EndpointGroups` extends
`Callers`; `ParamSchema` extends `ParamParser` extends `ParamContract` extends
`ParamShapes`; `ResponseProjection` extends `ResponseShapes` and `RequestMeta`;
`RequestIntake` and `Accounting` instantiate `PackageConfig` for each setting
they read; `EndpointRuntime` is shown to implement `RequestLifecycle`. The
components that are not composed meet in a value: the session that
`RequestIntake` produces is an input of `EndpointRuntime`, the wrapper `Mux`
serves is the policy that an endpoint of `EndpointRuntime` has, and the handler
of `Idempotency` is the one step `EndpointRuntime` takes between `Reserve` and
`Settle`.

### Idempotency

`slot[r]` is the (scope, key) pair of request `r`, `fingerprint[r]` the digest
of its body; both are fixed inputs. `pc[r]` is the place of its goroutine,
`res[r]` is `Req.Res`, reduced to what the code tells apart: nothing, a
buffered 2xx, a 2xx that does not encode, a stream, another status, or one of
the answers of the idempotency layer. A body is identified with the request
whose handler produced it (`origin`), so that "the replayed body is the right
one" is a statement about requests. One action is one stretch of code between
two points where another request, the store or the clock can act: parse,
`Reserve` (granted, failed, or answered with a record), handler, `Release`,
`Complete`, write.

The store is not in the repository. It does what the comments of
`IdempotencyStore` ask: `Reserve` is atomic, `Release` removes an incomplete
record, `Complete` marks a reserved one. `Release` and `Complete` are given a
key and no owner, and so is the model: a late request can end a reservation
that is no longer its own. Under `"store"` in `Faults`, or once the request's
context is done, a call may fail without effect ("refused") or after taking
effect ("lost"). A record may be discarded only after `ExpiresAt`.

`Faults` names what may go wrong in a run: `"panic"` (the handler), `"crash"`
(the process of one request), `"ctx"` (its context ends), `"store"`.

### EndpointRuntime

One request is enough: requests only meet in the idempotency store, which has
its own module, and in package configuration. The endpoint and the request are
chosen in `Init`: the endpoint by the policies that change control flow, the
request by the checks it will fail (`flaws`) and the kind of its credential.
Session and context change by steps of the environment, because the code reads
them again at every check (`Session.Expired` compares with the clock each
time). `res` is a record of who rendered the response, whether it is a 2xx, and
whether its body encodes, fails to, panics, or streams. The empty string of
`completionState.outcome` is written `"unset"`.

`Panics`, `HandlerPanics`, `TimeoutHandlerPanics` and `AuditSinkPanics` are the
places where application code can panic. A panic goes to the deferred function,
which is three actions: the audit call, its panic, and the completion. `wire`
is the history of the heads that reached the client, `ran` of the handler.

`RequestLifecycle` says what an observer may rely on: at most one head, none
after the audit; one audit; one completion, after it; a connection handed back
only if it was answered. `EndpointRuntime` implements it (`Promise`), with
`answer` read off `wire` and `completed` off `report`.

### EndpointGroups, Mux, MuxDocuments

`header[g]` is an `EndpointGroup` without its endpoints, `members[g]` its slice.
An endpoint carries the policy it has now, which of it was inherited, and
`handler`, the policy its HTTP wrapper was built from: `httpHandler` closes over
a copy. The setters write the header, then every member, and rebuild each
wrapper; `ConfigureRouteBackend` writes the header alone. `Add` resolves an
endpoint against the header and appends it, in place or into a new array; the
`Mux` keeps the slice it was mounted with, so a document stays `shared` with the
group until an `Add` has to reallocate (`Detached`). Which of the two happens
depends on the capacity, and is left open.

`Mount` prepares the batch, returns an error with nothing mounted if a key is a
duplicate, registers up to the pattern `ServeMux` panics at, or registers it all.
`MountEndpoints` is a `Mount` of a group without a name. A `Mount` that panics
leaves its registrations and appends no group (`registerPrepared`); their keys are
kept in the history `halted`, so that `DocumentsAreServed` can say in both
directions what the documents have: every registered key outside `halted`, and no
other.
`HandleElsewhere` is the application, or a second `Mux`, on the same `ServeMux`.
`ServeMux` is external: it refuses an equal pattern and one of a given set of
overlapping pairs. One field stands for each of the four ways a default is
inherited (see the head of `EndpointGroups`).

`MuxDocuments` adds no state. It writes both documents from `documents`, route
after route (`Describe`), with the identifiers, the uniqueness check and the
backends, and is checked in every state of `Mux`.

### PackageConfig

All `Configure...` functions have one shape: under a lock, replace the value,
return a closure over what was replaced. `overrides` is every call with what its
closure holds, `nested` the history "each closure ran once, the latest first".
A closure may run twice and out of order; the property is about those that nest.

### RequestIntake

The actions are the steps of `NewReqWithError` between which the configuration
can change: `Arrive`, `Dispatch` (kind of credential), `TakeToken` (the schemes
read again), `Exchange` (the authenticator), `Annotate`, `Audit` (the schemes a
third time). Texts are compared by `Fold`, a function that trims and lowers
them. The name of a scheme is one word, as an `Authorization` value is cut at its
first space. `seen` is the history of the schemes in force during the request.
The authenticator is external: it may give a session of either mode with any of
`Tokens`, none or only spaces among them, give none, or fail with any error,
also one of the errors this package exports, which `authFailureFor` then takes for
its own (`AuthenticatorFailures`).

### Accounting

A `Recorder` is found through a context, so a goroutine of a handler can record
on it and start operations below it at any time. `Complete`, the snapshot and
the delivery are separate steps, because the recorder locks one call at a time;
`Flush` has the same three. `NormalizeOperation` and `ChildOperation` fill in
root, parent, trace and causation. Ids are places in `recorders`; the ones a
client sends are constants outside of these.

### ParamShapes, ParamContract, ParamParser, ParamSchema

As in `ResponseShapes`, definitions and JSON values are constants, `Shapes` and
`Values`, closed under what they are made of and of a depth each. `ParseShape` is
a recursive function over them: the set of errors a parse may report, as the
fields of an object are visited in the order of a Go map. An error is a code and
a set of paths: one, but for the error of a choice rule, whose paths are those of
the names the caller sees, joined (`FailChoice`, `rule.go:116-128`; no builder
sets `rule.param`). Each case of the code has its place in the order of `First` and
`Then`: size, shape, parser, rules, the object's parser. A text has a length in
bytes (`Bytes`), and a number the integers next to it (`around`), those next to the
float64 it is read as (`read`, none when it is too large for one), and whether it
is written without fraction and exponent (`whole`). So 1.0 is an integer that is not
`whole`, and the parser does not take it for an int64. Bounds are taken to be exact
in a float64.

`ParamContract` says a second time what is accepted, without an order and from
the declaration's side (`Satisfies`): hidden parameters may not be sent, the
bounds of a rule are lowered to the names a caller sees. It also says what a body
has at a path (`At`), and what an error of each code says of its paths (`InPlace`). `ParamParser` gives every worker the steps of one parse that
touch the shared index: clear it, insert each name, check the rules, look the
fields up. Nested definitions rebuild an index of their own in the same way; only
that of the outermost one is followed.

`ParamSchema` is the transcriber, and a small validator for what it writes. A
shape is written from what its parts are written as (`Written`), once for each of
the two documents; `Schemas` is the set of all schemas so written, with what they
consist of, closed and of a depth each like `Shapes`, so that the validator is a
recursive function over schemas and values (`Validates`). The property that
relates them to the parser names what it does not claim: `Portable` (JSON Schema
knows no trimming, and the parser no null beside its null policies; the validator
gives JSON Schema's keywords their own meaning, so `minLength` counts `Characters`,
an integer is any number without a fraction, and a minimum is compared exactly,
where the parser counts bytes, wants 64 bits and reads float64s), `SeesAll`
(documents have one schema for all callers), `Describable` and `SwaggerExact`
(what the schemas leave out, section 4), unknown names, and the program's own
parsers.

### ResponseShapes, RequestMeta, ResponseProjection

`RequestMeta` parses the envelope into error codes or a projection. Response
shapes and values are constants, `Shapes` and `Values`, closed under what they
are made of: each has a depth (`ShapeDepth`, `ValueDepth`), which what is inside
has less of, as a Go value built by constructors does. `Typed` is which values
have the Go type of which shape: the compiler sees to that, and a handler picks
among them. What the code computes by recursion (`BuildNode`, `IndexResources`,
`Panics`, `Project`) is a recursive function over these sets. A body without a
typed shape (`untyped`) is written as it is, so no value of it is rendered here.
`DeriveSchema` compiles the resources of all successful typed contracts, each
node with the callers that see it. In `ResponseProjection` the copies of an
endpoint share `index`, with the three states of a `sync.Once`; trusted code
attaches callers and narrows the response caller before or in the handler; a
value is rendered at once (`Render`) or when it is written (`SetResponse`), in
the context it has then. The properties read the body and the shapes directly
and not through the parser or the compiled schema.

### HttpFront

An exchange goes through the CORS layer, the middleware, the limit and the body,
which is read byte by byte. Code behind the CORS writer may set CORS headers of
its own, write a 1xx head, or let the headers go out unseen; `vouched` records
that the writer saw the head. A shared cache and a browser are external: the
cache keeps `GET` responses and honours `Vary: Origin`.

## 3. Runs

| run | question | size |
|---|---|---|
| `idempotency_safety` | mutual exclusion, faithful replays, orphans, no second run, with crashes, store faults and expiry | 3 requests, 1 key, 2 bodies; 2.2 million states (symmetric) |
| `idempotency_liveness` | does every request end and every reservation settle | 3 requests, one of them without scope |
| `runtime` | all properties of one request and the refinement | 8 endpoints, 148 requests; 82,721 states |
| `mux` | do registry, `ServeMux` and documents agree, and is what is served what was declared and inherited | 2 groups of at most 2 endpoints, 5 declarations, 5 calls; 956,532 states |
| `intake` | is every credential judged, and by the right schemes, while they change | 1 request at a time, 2 tokens, 1 override of the schemes, 2 of the authenticator; 915,474 states |
| `accounting` | do completion and flushes agree with the recorder, does all work roll up | 3 recorders, 2 units, 1 request, 1 flush, 1 override; 1.34 million states |
| `param` | does the parser accept the contract of its caller, do errors and schemas say the same | 8 definitions, some 800 bodies, 3 callers; 178,121 states |
| `projection` | who is let in with a selection, and what is rendered | 2 requests, 2 lists of contracts, 1 change of callers; 633,622 states |
| `front` | who can read a response, and what the limit admits | limit 6, bodies and heads around it, 1 cached response; 44,372 states |
| `idempotency_panic` | does a failure release its reservation (not after a panic) | 2 requests |
| `param_race` | are concurrent parses independent (they are not) | 2 workers, 2 bodies |
| `projection_authority` | is the response caller narrower than the caller (not after `AttachCaller`) | as `projection` |

Bounds. Three requests on one key are a holder, a late predecessor, and a
retry that profits from the mistake of either; keys do not interact, so a
second one adds nothing but its own copy. Two fingerprints are a same and a
different body. `MaxClock` = 1 with `Retention` = 0 lets a record expire once
under a request, which is all that `overstayed` distinguishes. In `runtime`, a
request with two flaws is enough to see each gate in front of each other one;
the eight endpoints have every policy on and off, and the pairs that interact
(internal with a weaker authorization, idempotent with and without a scope
resolver, controls with and without authorization).

In `mux`, five calls are: add, mount, reconfigure, add (in place or not), mount
again, which is the longest chain a document can be stale by; two groups let an
endpoint move between them and a batch conflict with an earlier one. In
`intake`, one override of the schemes and its restore change them between any
two of the three reads; the second override of the authenticator makes closures
nest and cross. In `accounting`, three recorders are a request, its job and a
job of that job, or a request served in the context of a job; one flush races
the completion.
In `param`, each field takes one value for every case of its shape and sizes one
below and one above its bounds, with a text of more bytes than characters and
numbers with a fraction, with a point, rounded and too large; longer objects
repeat these. `Shapes` and
`Values` are all the parts that the definitions and the bodies have. In `projection`,
the shapes have a resource in itself, under an array and under a map, visible
and hidden; the second request only has to meet a schema that is being compiled.
In `front`, the limit of 6 lets head and body each be the part that exceeds it.
The proofs remove the bounds for the properties they state.

Deadlock is checked for `param`, `param_race`, `intake` and `front`, which serve
one request after the other. It is not in the others: a behaviour has finitely
many requests or calls, and all end.

Fairness. Only `Idempotency` and `EndpointRuntime` state any. `FairSpec` is weak
fairness of the steps of a request: its goroutine keeps running, and the
application code it calls returns or panics. That is an assumption about
handlers, which the timeouts of the code do not remove: they are cooperative
(`runtime_timeout.go:147` ends a context and interrupts nothing). Nothing is
assumed of the environment: no context has to end, no session to expire, no
record to be discarded.

## 4. What the runs found

- A panic under a reservation leaves it in the store for the whole retention
  (`idempotency_panic`). A handler that timed out calls `Release` with a context
  that is already done, so a store that honours contexts does the same.
- Concurrent parses with one definition interfere (`param_race`): `parseObject`
  normalizes the shared definition again on every request and clears its index
  before it fills it, with no lock.
- A caller attached after `ProjectResponseAs` keeps a response caller that was
  granted to another one (`projection_authority`).

Some statements of the documents are defined in the modules and do not hold;
naming one under INVARIANTS of the run's configuration shows the counterexample:

- `NoSuccessReportedForPanic` (`EndpointRuntime`): a response rendered before a
  panic is reported with its 2xx.
- `SinksLeaveTheAnswerAlone` (`EndpointRuntime`): a panic of the audit sink
  aborts an answered request and skips its completion.
- `HandledReachedTheHandler` (`EndpointRuntime`): requests that the idempotency
  layer answered are completed as `handled`.
- `DeniedBeforeTheHandler` (`EndpointRuntime`): a handler that records an
  authorization failure is completed as `access_denied`, which
  `completion.go:45-46` keeps for requests the access policy rejected before the
  handler ran. `OutcomeIsTheCause` says it of denials by that policy alone.
- `AuthorizedRunsAreReserved` (`EndpointRuntime`): a session that expires after
  the access check makes an idempotent request that had to be authorized run
  unreserved.
- `DocumentedAsServed` (`Mux`): a setter called after `Mount` writes through the
  shared slice and changes what the documents say, not what is served.
- `RollupToRoot` (`Accounting`): a job that is only sent the id of its parent
  has that parent as its root, and a request served in the context of another
  operation is its own root.

Smaller differences, seen while reading and kept in the models as the code has
them: a request without a body is charged for a `Content-Length` line it does not
have (`spec/v0.2.md:630`; `ChargedBytes` in `HttpFront`); a denied origin gets no
`Vary: Origin`; a parameter hidden from its caller may be sent as null where an
unknown one may not; bounds of `any` parameters and a `min` beside `minItems` are
not in the schemas (the proof of the documents asks for `Describable` because of
these two); a union inside of a union is written over the whole object, so that a
map in it has to accept the outer discriminator as one of its values; the
gateway's document writes the properties of all variants of a union into one
object, the first of each name, and so applies them to entries of a map that is
another variant (`SwaggerExact`); a variant that declares the name of its own
discriminator reports it missing though it was sent, because the discriminator
was taken out (`discriminator.go:11` asks variants to leave it out:
`OmitsDiscriminator`). Parser and documents also measure some bodies differently:
the size of a text is one of bytes (`parameter.go:295-297`, as
`spec/v0.2.md:167` has it), written as `minLength` and `maxLength`, which count
characters; an int64 written as 1.0 or beyond 64 bits is refused by the parser and
is an `integer` to a document, as its format is an annotation (`shape.go:262`); a
number is compared with its bounds as the float64 it is rounded to, and is refused
when it is too large for one (`parameter.go:300-303`). `Portable` excludes exactly
these. An authenticator that returns the exported `ErrNoKeyToken` has a well-formed
credential reported as `bearer_token_invalid` or `service_authorization_invalid`
(`auth_audit.go:165-201`), so that `CredentialsAreJudged` takes the failure of a
credential for its own only when no authenticator was asked; and a service session
without a token has nothing to send downstream (`request.go:496-498`).

What holds is the larger part. In particular `NoSecondRun` holds even when
`Complete` fails, because nothing releases a reservation after a success; the
price is a key that answers "in progress" until it expires.

## 5. Proofs

`IdempotencyProofs` proves, for every finite or infinite set of requests, keys
and bodies, every retention and every choice of faults, that `Idempotency` is
type correct and keeps `OneHolder`, `ReplayFaithful`, `OrphansAreFaults` and
`NoSecondRun`. Assumptions: the three on the constants, nothing else.

None of them is inductive. `IInv` adds what they rest on:

- `Progress`: which results a request can carry at which place;
- `RecordDescribes`: a record's owner is a request of that key, with that
  fingerprint and that expiry, and a complete record's owner succeeded;
- `LateIsNoted`: a request at work past its expiry is in `overstayed`;
- `HolderHasRecord`: on a key that nobody overstayed, the holder of the key is
  the owner of its record. Mutual exclusion follows: a record has one owner;
- `SuccessKeepsRecord`: on such a key a success keeps its record, reserved or
  complete, until it expires. `NoSecondRun` follows: `Reserve` needs a free key;
- `Replayed` and `Orphan`: the two remaining properties themselves.

The proof that a step keeps `IInv` has one lemma per part and one step per
action. `IInv` was checked with TLC before it was proved.

`EndpointRuntimeProofs` proves, for every set of endpoint specifications and of
requests, that `EndpointRuntime` is type correct, keeps `NoHandlerPastAFailure`,
`OneHead`, `ReportMatchesWire`, `OutcomeIsTheCause` and `SettledBeforeAnswer`,
and implements `RequestLifecycle` (`Spec => Promise`). Assumptions: the two that
type the constants. Its invariant says what is known at each place of
`httpHandler`:

- `GatesPassed`: what the gates behind a place have established. An expired
  session still says of what kind the credential was, which is why an expiry
  between two gates opens neither;
- `WireFollows`, `WireRendered`: the wire is empty up to the head, and then holds
  the response of the request, which is a rendered one, so that the deferred
  function does not render another in its place;
- `DeferredOnce`: the audit and the completion belong to the deferred function;
- `OutcomeNoted`: where an outcome is noted and with which response;
- `ReservationHeld`: only a handler, its settlement or a panic holds a key.

The refinement follows from the same invariant: the two actions that write a
head (`WriteHead`, `Rewrite`) find the wire empty and the request unaudited, and
`Complete` finds it audited, and answered unless it panicked.

`ProofFacts` has the facts several of the others use: what a sequence is after
a member was appended, replaced or put in front, and when one sequence is a
prefix of another; `Least`, which gives a set of numbers its smallest element
and stands in for induction; the overrides of `PackageConfig`, of which the
invariant (`ConfigInv`) says that each open one holds the value of the open one
below it; and `RecursiveFunction`: a function defined by an equation in which
its values depend on values of lower rank has a solution. A definition
`f[x \in S] == ...` is a `CHOOSE` among solutions, so that without this lemma
nothing is known of `f` beyond its name. `Everywhere` is the principle that goes
with it: what holds where it holds at all lower ranks holds everywhere.

`RequestIntakeProofs` proves all five properties of `RequestIntake`, for any
schemes, aliases, credentials and number of overrides. Assumptions: those of the
module (the names of authenticators are not the markers of the model,
aliases are sequences, a credential without a scheme has no token, the empty text
is blank and the default names are not). `IntakeInv` types the request and the settings, says what
each step already knows of the credential (`Pending`, in terms of the schemes
seen), and what is settled once it was judged (`Settled`, `Audited`).

`AccountingProofs` proves the three properties of `Accounting` for any bounds.
`Lineage` says what an operation has from the recorder it was started under,
which makes `Owner`, a recursive function, well-founded; `WorkIsAttributed`
follows for chains of any length by the least counterexample. `Covered` says
that a snapshot is a prefix of what was recorded, and has what the handler had
recorded when it returned.

`MuxProofs` proves the eight properties of `mux`, for any groups,
declarations, batches, patterns and bounds. Its invariant: every endpoint ever
added keeps its declaration and has a current wrapper (`Ready`); every member
has the defaults of its header (`Applied`); the registry, the mounted list and
the `ServeMux` say the same of each key (`RegistryInv`); every document is a group of
mounted endpoints, shared or detached, and together they have exactly the keys
that stand, those registered and not `halted` (`DocumentsInv`). The last is kept as
a set of keys for each group: an `Add` after the `Mount` leaves the keys of what
was mounted, and a setter changes no declaration. Assumptions:
`SpecsAssumption`, `BatchesAssumption`, `AuthKindsAssumption`,
`TimeoutsAssumption` and `BoundsAssumption`. Sequences of sequences are
flattened by a fold, so the lemmas on `FlattenSeq` rest on its recursive
equation and on `Least`. `PublicDocumentIsExact` needs no more of the state than
that every route leads to a mounted endpoint; its argument is about `Describe`.
`Exact` says of the document after `n` routes that it has failed if and only if
two of the routes it keeps are confused or one has no backend, and that it has an
operation for each of the routes it keeps, and for nothing else, until then.

`EndpointRuntimeProofs` also holds what is proved of `HttpFront`, the layers
around the runtime. `AdmittedWithinLimit` holds for every limit, body and framing
that `net/http` hands on (`RequestsAssumption`): the invariant `LimitInv` says that
nothing is judged before the endpoint, and that a body is read within what the
envelope left of the limit. `GrantsFollowThePolicy` holds for every policy and
every list of origins (`OriginsAssumption`): the invariant `GrantInv` follows a
decision on its way. The headers of a response that the CORS writer wrote hold
the decision for its origin, and `Vary: Origin` unless the decision is the same
for all (`Decided`); an exchange that sent its headers early is not vouched for
(`Vouched`); and a browser has its own response or a cached one that may be its
own (`Honest`).

`ResponseProofs` proves both properties of `projection` for any shapes and
values of any depth, any contracts, bodies, policies and number of requests.
Assumptions: that shapes, values and their pairs are closed as described in
section 2, that shapes are ones the constructors accept, and that the policy is
one `Configure` accepts. Both properties compare something made step by step
with something said of a whole path, so most of the proof is about operators:

- `NodeShows` and `IndexShows`: a path is available in a compiled node if and
  only if every attribute on the way allows the caller (`Visible`), and a
  resource is in the schema for every place of the shape and no other. The
  builder hands intersections of callers down and the validator looks at one
  node after the other, which comes to asking each attribute once;
- `ProjectionIs`: what is left of a body that parses without an error is a
  selection (`IsSelection`): one mode, and paths of names;
- `ValidatesIs`: so `Validate` on the compiled schema is `Shows`, read off the
  contracts;
- `RendersWhatIsKept`: rendering in a set of scopes keeps a path if and only if
  the caller sees it and each of the scopes, and each resource met on the way,
  keeps what is inside of it. The scopes are carried down by `Descend`; the
  property has none. `ProjectIs` is its case without a scope.

`ResponseInv` then says that the schema, once there is one, is that of the
endpoint's contracts, and until then its holder still has them (`IndexOf`); that
a judged selection was granted rightly (`Judged`), as it is never parsed again; that
a stored value keeps the type of its contract (`Stored`); and that what was
rendered is what was selected (`RendersSelected`), with one lemma per action.

`ParamProofs` proves, of definitions and values of any depth and any callers,
that a body parses without an error if and only if it satisfies the contract
(`ParsesByContract`). The two are recursive functions that go down in different
ways: the parser takes the discriminator out of an object before it parses the
variant, and stops at the first error; the contract is one conjunction. The
proof is by depth (`Everywhere`), with one lemma per kind of shape, and under the
one for objects a lemma on the rules and one on what a parameter does to a field.

Of the parser at work, `AloneByContract` and `AloneIsIndependent` prove
`AcceptsTheVisibleContract` and `ParsesAreIndependent` under the hypothesis that
no two parses overlap (`Workers` has one member). The hypothesis is needed:
`param_race` violates the second with two workers. The invariant `Alone` says what
is in the index at each step of the worker (`Filled`), whatever the parse before
it left. `ErrorsStayInPlace` proves `ErrorsAreInPlace` for any number of workers:
a race gives a parse an index that lacks names, and a name that is not in it is
still one the body has. Its lemmas follow an error with all its paths on the way
out of fields and items (`LedInPlace`); for a rule it is the counting that puts one
absent name, or two present ones, among the joined paths (`RuleInPlace`).

Assumptions: those of `ParamShapes`, that shapes and values are closed as
described in section 2, and are what the constructors build.

`AloneAsDocumented` proves `DocumentsDescribeTheParser` for definitions and bodies
of any depth, with parses that do not overlap. A refused body has to be invalid
as well, so the proof goes both ways at once, by depth: for each kind of shape
one lemma says when its schema accepts a value (`ScalarValid`, `EnumValid`,
`ArrayValid`, `MapValid`, `ObjectValid`, `VariantsValid`) and one that this is
when the parser has nothing to say of it but what the property excepts
(`ScalarTold` to `VariantsTold`); `AllDocumented` puts them together. What they
rest on:

- `WrittenIs` and `ValidatesIs`: the transcribers and the validator are what their
  equations say, again by `RecursiveFunction`;
- `RuleDescribed`: the combinations of names a rule is written as accept the
  names that a value has if and only if their number is within the rule, which
  is an argument about subsets of each size, for any number of names;
- `ScalarWritten` and `SizesDescribed`: of a value that both measure alike
  (`Alike`, what `Portable` asks of a text or number), the type and size a document
  finds are those the parser finds;
- `PropertyValid`: a schema with the bounds of its parameter accepts what the
  schema without them accepts and is within them;
- `BranchValid` and `VariantChecks`: exactly one branch of a union accepts an
  object, the one of its discriminator, because the values of the variants
  differ; and the branch accepts the object when the variant's schema accepts it
  without the discriminator, which is what the parser is given.

Its assumptions beside those of the parser are `SchemasAssumption`: `Schemas` has
what the transcribers write, and each of its schemas is deeper than what it
consists of; and `CharactersAssumption`: a text has some number of characters.

Model-checked only: the liveness properties, because fairness and `ENABLED` are
outside the prover. `MCParamParser` builds its constants with `RECURSIVE`
operators; nothing is proved of those.

## 6. Not modelled

- Resolution of idempotency key, scope and fingerprint from the request: inputs
  of `Idempotency`. Normalization of limit, timeout and control specifications,
  beyond the ways they are inherited.
- Streams, beyond "not replayable, and written by the handler".
- Fields of sessions besides token and expiry; accessors of requests and of
  parsed values; the values that custom parsers return.
- Names of response attributes with a "." in them, which the code does not refuse
  and whose paths its comparison of prefixes would confuse (`ResponseShapes` has
  paths as sequences of names); and an object value that lacks a required plain
  attribute, which a getter of Go always returns (`ResponseShapes` would leave it
  out; no run has one).
- Error bodies and `response_meta` of envelopes; the constructors of `erreur`,
  which are constants.
- The arithmetic of cost quantities, and the JSON form of events.
- Response schemas, examples, summaries and tags in the documents.
- Listener, TLS, shutdown and the header timeouts of `server`: `net/http`'s.
- The wording of messages and logs.
