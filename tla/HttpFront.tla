------------------------------- MODULE HttpFront -------------------------------
(***************************************************************************)
(* The way of a request from the listener to an endpoint's handler: the    *)
(* CORS layer, the configured middleware, the endpoint's request limit,    *)
(* and the way of the response's headers back through the CORS writer and  *)
(* through a shared cache to a browser (server/server.go, server/cors.go,  *)
(* endpoint/runtime_limit.go).                                             *)
(*                                                                         *)
(* Names of origins, methods and headers stand for their trimmed and       *)
(* folded spelling, "" for a blank one.  A body is its number of bytes.    *)
(***************************************************************************)
EXTENDS Integers, Sequences, FiniteSets, SequencesExt

CONSTANTS
    Configs,            \* the CORS configurations
    Stacks,             \* the middleware lists: sequences over "middleware" and "nil"
    Requests,           \* what clients send: origin, method, the method and headers a
                        \* preflight asks for, the bytes of line and headers, the
                        \* declared length and whether a header declares it, the body
    Limit,              \* the endpoint's MaxRequestBytes, 0 for none
    ContentLengthLine,  \* the bytes of a Content-Length header line
    Forgeries,          \* the origins a handler may grant by itself
    MaxCached           \* bound on the responses the cache keeps

ASSUME FrontAssumption ==
    /\ Limit \in Nat
    /\ ContentLengthLine \in Nat
    /\ MaxCached \in Nat
    /\ \A c \in Configs : DOMAIN c = {"origins", "methods", "headers", "credentials"}

Wildcard == "*"
None == "none"

\* Origins are texts, never the mark None, and the configured ones are a list.
ASSUME OriginsAssumption ==
    /\ \A c \in Configs :
           /\ DOMAIN c.origins \subseteq Nat
           /\ \A i \in DOMAIN c.origins : c.origins[i] # None
    /\ \A request \in Requests : request.origin # None

Chunked == -1

\* What net/http makes of a request: a body has the length that is declared,
\* unless it is chunked, and the length of a body is declared in a header.
ASSUME RequestsAssumption ==
    \A request \in Requests :
        /\ request.head \in Nat /\ request.body \in Nat /\ request.listed \in BOOLEAN
        /\ request.declared \in {Chunked, request.body}
        /\ request.declared > 0 => request.listed

VARIABLES
    policy,     \* the normalized CORS policy the server was built with
    stack,      \* the middleware list it was built with
    exchange,   \* the exchange being served
    cache,      \* the responses a shared cache keeps
    reading     \* the response the last browser was handed

frontVars == <<policy, stack, exchange, cache, reading>>

(***************************************************************************)
(* The policy.  Building it panics on credentials for every origin.        *)
(***************************************************************************)
\* The entries that are not blank, each at its place.
NormalizeCORSList(values) == Restrict(values, {i \in DOMAIN values : values[i] # ""})

NormalizeCORSConfig(config) ==
    [origins     |-> NormalizeCORSList(config.origins),
     methods     |-> NormalizeCORSList(config.methods),
     headers     |-> NormalizeCORSList(config.headers),
     credentials |-> config.credentials]

Refused(config) == config.credentials /\ Wildcard \in Range(config.origins)

\* The first entry that is the origin or the wildcard decides the answer.
AllowedOrigin(origin) ==
    LET matches == {i \in DOMAIN policy.origins : policy.origins[i] \in {Wildcard, origin}}
    IN  IF origin = "" \/ matches = {} THEN None ELSE policy.origins[Min(matches)]

AllowedMethod(method) ==
    method # "" /\ Range(policy.methods) \cap {Wildcard, method} # {}

AllowedRequestHeaders(headers) ==
    Wildcard \in Range(policy.headers) \/ headers \subseteq Range(policy.headers)

IsCORSPreflight(request) ==
    request.method = "OPTIONS" /\ request.origin # "" /\ request.asks # ""

(***************************************************************************)
(* The response headers the browser's CORS check and a cache look at.      *)
(***************************************************************************)
NoHeader == [grant |-> None, credentials |-> FALSE, vary |-> {}]

ClearCORSHeaders(header) == [header EXCEPT !.grant = None, !.credentials = FALSE]

Granting(header, origin, vary) ==
    [grant |-> origin, credentials |-> policy.credentials, vary |-> header.vary \cup vary]

\* Mutant: what the handler granted stays when the origin is not allowed.
ApplyActualWhenAllowed(header, request) ==
    LET origin == AllowedOrigin(request.origin)
    IN  IF origin = None
        THEN header
        ELSE Granting(header, origin, IF origin = Wildcard THEN {} ELSE {"Origin"})

ApplyActual(header, request) ==
    LET origin == AllowedOrigin(request.origin)
    IN  IF origin = None
        THEN ClearCORSHeaders(header)
        ELSE Granting(header, origin, IF origin = Wildcard THEN {} ELSE {"Origin"})

PreflightAllowed(request) ==
    /\ AllowedOrigin(request.origin) # None
    /\ AllowedMethod(request.asks)
    /\ AllowedRequestHeaders(request.headers)

PreflightHeader(request) ==
    IF PreflightAllowed(request)
    THEN Granting(NoHeader, AllowedOrigin(request.origin),
                  {"Origin", "Access-Control-Request-Method", "Access-Control-Request-Headers"})
    ELSE NoHeader

(***************************************************************************)
(* The request limit: the request line and the headers are charged first,  *)
(* and what is left bounds the body.                                       *)
(***************************************************************************)
EnvelopeBytes(request) ==
    request.head + (IF request.declared # Chunked /\ ~request.listed THEN ContentLengthLine ELSE 0)

\* Mutant: the body alone may use the whole limit.
RemainingWholeLimit(request) == Limit

RemainingBodyBytes(request) == Limit - EnvelopeBytes(request)

OverLimit(request) ==
    /\ Limit # 0
    /\ \/ EnvelopeBytes(request) > Limit
       \/ request.declared > RemainingBodyBytes(request)

(***************************************************************************)
(* An exchange.  `layer` is the number of middleware the request entered,  *)
(* `wrote` the flag of the CORS writer, `sent` what went out.              *)
(***************************************************************************)
NoExchange == [at |-> "idle"]

NewExchange(request) ==
    [at |-> "arrived", request |-> request, layer |-> 0, read |-> 0, header |-> NoHeader,
     wrote |-> FALSE, verdict |-> None, vouched |-> TRUE]

NoReading == [by |-> None]

Layers == SelectSeq(stack, LAMBDA middleware : middleware # "nil")

FrontInit ==
    /\ \E config \in Configs :
           /\ ~Refused(config)
           /\ policy = NormalizeCORSConfig(config)
    /\ stack \in Stacks
    /\ exchange = NoExchange
    /\ cache = {}
    /\ reading = NoReading

At(place) == exchange.at = place

Go(place) == exchange' = [exchange EXCEPT !.at = place]

Arrive ==
    /\ At("idle")
    /\ Cardinality(cache) < MaxCached
    /\ \E request \in Requests : exchange' = NewExchange(request)
    /\ reading' = NoReading
    /\ UNCHANGED <<policy, stack, cache>>

\* The preflight is answered by the CORS layer, whatever is behind it.
HandlePreflight ==
    /\ At("arrived")
    /\ IsCORSPreflight(exchange.request)
    /\ exchange' = [exchange EXCEPT !.at = "sent",
                                    !.header = PreflightHeader(exchange.request),
                                    !.verdict = IF PreflightAllowed(exchange.request)
                                                THEN "preflight" ELSE "forbidden"]
    /\ UNCHANGED <<policy, stack, cache, reading>>

ServeNext ==
    /\ At("arrived")
    /\ ~IsCORSPreflight(exchange.request)
    /\ Go(IF Layers = <<>> THEN "endpoint" ELSE "middleware")
    /\ UNCHANGED <<policy, stack, cache, reading>>

\* A middleware hands the request to the next one, the last one to the mux.
PassOn ==
    /\ At("middleware")
    /\ exchange' = [exchange EXCEPT !.layer = @ + 1,
                                    !.at = IF exchange.layer + 1 < Len(Layers)
                                           THEN "middleware" ELSE "endpoint"]
    /\ UNCHANGED <<policy, stack, cache, reading>>

EnforceEndpointRequestLimit ==
    /\ At("endpoint")
    /\ IF OverLimit(exchange.request)
       THEN exchange' = [exchange EXCEPT !.at = "answering", !.verdict = "too large"]
       ELSE Go("reading")
    /\ UNCHANGED <<policy, stack, cache, reading>>

\* The body is read byte by byte, through MaxBytesReader when there is a limit.
ReadBytes ==
    /\ At("reading")
    /\ exchange' =
           IF exchange.read = exchange.request.body
           THEN [exchange EXCEPT !.at = "answering", !.verdict = "handled"]
           ELSE IF Limit # 0 /\ exchange.read = RemainingBodyBytes(exchange.request)
           THEN [exchange EXCEPT !.at = "answering", !.verdict = "too large"]
           ELSE [exchange EXCEPT !.read = @ + 1]
    /\ UNCHANGED <<policy, stack, cache, reading>>

\* The client goes away, or its deadline passes, before the body ends.
ReadFails ==
    /\ At("reading")
    /\ exchange.read < exchange.request.body
    /\ exchange' = [exchange EXCEPT !.at = "answering", !.verdict = "invalid body"]
    /\ UNCHANGED <<policy, stack, cache, reading>>

\* A middleware answers in place of the endpoint.
AnswerEarly ==
    /\ At("middleware")
    /\ exchange' = [exchange EXCEPT !.at = "answering", !.verdict = "middleware"]
    /\ UNCHANGED <<policy, stack, cache, reading>>

Running == exchange.at \in {"middleware", "answering"}

\* Code behind the CORS layer sets CORS headers of its own.
SetHeader ==
    /\ Running
    /\ exchange.header.grant = None
    /\ \E origin \in Forgeries :
           exchange' = [exchange EXCEPT !.header.grant = origin, !.header.credentials = TRUE]
    /\ UNCHANGED <<policy, stack, cache, reading>>

\* A 1xx status takes the one chance of the CORS writer to set its headers.
WriteInformational ==
    /\ Running
    /\ ~exchange.wrote
    /\ exchange' = [exchange EXCEPT !.header = ApplyActual(@, exchange.request),
                                    !.wrote = TRUE, !.vouched = FALSE]
    /\ UNCHANGED <<policy, stack, cache, reading>>

\* WriteHeader, or the first Write: the header map goes out as it is then.
WriteHeader ==
    /\ At("answering")
    /\ exchange' = [exchange EXCEPT !.header = IF exchange.wrote THEN @
                                               ELSE ApplyActual(@, exchange.request),
                                    !.wrote = TRUE, !.at = "sent"]
    /\ UNCHANGED <<policy, stack, cache, reading>>

\* The handler returns without a write, or flushes the unwrapped writer first:
\* net/http sends the header map, which the CORS writer never saw.
SendUnseen ==
    /\ At("answering")
    /\ exchange.verdict \in {"middleware", "handled"}
    /\ exchange' = [exchange EXCEPT !.at = "sent", !.vouched = FALSE]
    /\ UNCHANGED <<policy, stack, cache, reading>>

Response == [request |-> exchange.request, header |-> exchange.header,
             verdict |-> exchange.verdict, vouched |-> exchange.vouched]

\* The response reaches the browser; a cache on the way may keep it.
Deliver ==
    /\ At("sent")
    /\ reading' = [by |-> exchange.request, fresh |-> TRUE, response |-> Response]
    /\ \/ exchange.request.method = "GET" /\ cache' = cache \cup {Response}
       \/ UNCHANGED cache
    /\ exchange' = NoExchange
    /\ UNCHANGED <<policy, stack>>

\* A cached response is reused for another origin unless Vary names Origin.
FromCache ==
    /\ At("idle")
    /\ \E request \in Requests, response \in cache :
           /\ request.method = "GET"
           /\ "Origin" \in response.header.vary => request.origin = response.request.origin
           /\ reading' = [by |-> request, fresh |-> FALSE, response |-> response]
    /\ UNCHANGED <<policy, stack, exchange, cache>>

FrontNext ==
    \/ Arrive \/ HandlePreflight \/ ServeNext \/ PassOn \/ AnswerEarly
    \/ EnforceEndpointRequestLimit \/ ReadBytes \/ ReadFails
    \/ SetHeader \/ WriteInformational \/ WriteHeader \/ SendUnseen
    \/ Deliver \/ FromCache

FrontSpec == FrontInit /\ [][FrontNext]_frontVars
-----------------------------------------------------------------------------
(***************************************************************************)
(* Properties.                                                             *)
(***************************************************************************)

\* What the configuration says, without the order of its list.
ConfiguredFor(origin) == origin # "" /\ Range(policy.origins) \cap {Wildcard, origin} # {}

\* The browser's check, for a request without and with credentials.
Readable(header, origin) == header.grant \in {Wildcard, origin}
ReadableWithCredentials(header, origin) == header.grant = origin /\ header.credentials

\* A browser can read a response that the CORS writer wrote exactly when the
\* policy names its origin, whatever headers middleware and handler set before
\* (server/cors_test.go, StrictPolicyOverridesDownstreamCORSHeaders); a response
\* reused by a cache is never readable by an origin the policy leaves out, and
\* never carries the grant of another origin than its reader's.
GrantsFollowThePolicy ==
    (/\ reading # NoReading
     /\ reading.by.origin # ""
     /\ reading.response.vouched
     /\ reading.response.verdict \notin {"preflight", "forbidden"}) =>
        LET header == reading.response.header
            origin == reading.by.origin
        IN  /\ reading.fresh => (Readable(header, origin) <=> ConfiguredFor(origin))
            /\ Readable(header, origin) => ConfiguredFor(origin)
            /\ ReadableWithCredentials(header, origin) => origin \in Range(policy.origins)
            /\ header.grant \in {None, Wildcard, origin}

\* The bytes of the request on the wire, and what the endpoint charges for it:
\* a request without a body is charged for a Content-Length line it has not.
WireBytes(request) == request.head + request.body
ChargedBytes(request) ==
    WireBytes(request)
      + (IF request.declared = 0 /\ ~request.listed THEN ContentLengthLine ELSE 0)

\* However the body is framed, a handler runs on a request only within the limit
\* over the request line, headers, separator and body (spec/v0.2.md:630), and a
\* request is refused as too large only when what is charged exceeds it.
AdmittedWithinLimit ==
    At("answering") /\ Limit # 0 =>
        /\ exchange.verdict = "handled" => WireBytes(exchange.request) <= Limit
        /\ exchange.verdict = "too large" => ChargedBytes(exchange.request) > Limit
=============================================================================
