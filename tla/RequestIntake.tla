----------------------------- MODULE RequestIntake -----------------------------
(***************************************************************************)
(* How a request gets its session (request.NewReqWithError and what it     *)
(* calls), while the application configures authorization schemes and the  *)
(* authenticator.  Both settings are read where the code reads them: the   *)
(* schemes when the kind of credential is told, again when its token is    *)
(* taken, and again for the audit record.                                  *)
(*                                                                         *)
(* An Authorization value is a record [scheme, token] of two texts; texts  *)
(* are compared by Fold, without their outer spaces and in lower case.     *)
(* The name of a scheme is one word: an Authorization value is cut at its  *)
(* first space, so that one of two words is never presented.               *)
(***************************************************************************)
EXTENDS Integers, Sequences, FiniteSets

CONSTANTS
    Fold,           \* each text, trimmed and in lower case
    SchemeChoices,  \* what an application configures: [bearer, service, aliases]
    Authenticators, \* the authenticators it installs
    NoAuthenticator,
    Credentials,    \* the Authorization values that arrive
    Forwarded,      \* the X-Forwarded-Authorization values that arrive
    Tokens,         \* the tokens of sessions; a session need not have one
    MaxSchemeOverrides, MaxAuthenticatorOverrides   \* how often each is configured

ASSUME AuthenticatorsAssumption == Authenticators \cap {NoAuthenticator, "none", "context"} = {}
ASSUME AliasesAssumption == \A choice \in SchemeChoices : choice.aliases \in Seq(DOMAIN Fold)
ASSUME CredentialsAssumption ==
    \A credential \in Credentials \cup Forwarded : Fold[credential.scheme] = "" => Fold[credential.token] = ""

VARIABLES
    schemes, schemeOverrides, schemesNested,
    authenticator, authenticatorOverrides, authenticatorsNested,
    req,            \* the request
    seen            \* history: the schemes in force since the request arrived

config == <<schemes, schemeOverrides, schemesNested,
            authenticator, authenticatorOverrides, authenticatorsNested>>
vars == <<config, req, seen>>

Blank(text) == Fold[text] = ""
ASSUME BlankAssumption == Blank("")
ASSUME NamesAssumption == ~ Blank("Bearer") /\ ~ Blank("Service")

NoCredential == [scheme |-> "", token |-> ""]
NoSession == [from |-> "none"]
NoFailure == "none"

-----------------------------------------------------------------------------
(***************************************************************************)
(* The schemes (auth/schemes.go).                                          *)
(***************************************************************************)
DefaultSchemes == [bearer |-> "Bearer", service |-> "Service", aliases |-> <<>>]

\* Aliases that are not blank, each the first of its kind.
NormalizeAliases(aliases) ==
    LET kept == {i \in DOMAIN aliases :
                    /\ ~ Blank(aliases[i])
                    /\ \A j \in 1 .. i - 1 : Fold[aliases[j]] # Fold[aliases[i]]}
    IN {aliases[i] : i \in kept}

\* Mutant: the scheme of services has no default.
NormalizeBearerOnly(choice) ==
    [bearer |-> IF Blank(choice.bearer) THEN DefaultSchemes.bearer ELSE choice.bearer,
     service |-> choice.service,
     aliases |-> choice.aliases]

NormalizeAuthorizationSchemes(choice) ==
    [bearer |-> IF Blank(choice.bearer) THEN DefaultSchemes.bearer ELSE choice.bearer,
     service |-> IF Blank(choice.service) THEN DefaultSchemes.service ELSE choice.service,
     aliases |-> choice.aliases]

IsBearer(choice, scheme) == Fold[scheme] = Fold[choice.bearer]

\* Mutant: the aliases are left out.
IsServiceByName(choice, scheme) == Fold[scheme] = Fold[choice.service]

\* serviceAuthorizationSchemeCase: the scheme of services, or an alias of it.
IsService(choice, scheme) ==
    \E name \in {choice.service} \cup NormalizeAliases(choice.aliases) :
        Fold[scheme] = Fold[name]

NormalizedChoices == {NormalizeAuthorizationSchemes(choice) : choice \in SchemeChoices}

Schemes == INSTANCE PackageConfig WITH
    Values <- NormalizedChoices, Default <- DefaultSchemes, current <- schemes,
    overrides <- schemeOverrides, nested <- schemesNested
Authentication == INSTANCE PackageConfig WITH
    Values <- Authenticators, Default <- NoAuthenticator, current <- authenticator,
    overrides <- authenticatorOverrides, nested <- authenticatorsNested

-----------------------------------------------------------------------------
\* What a proxy forwards comes first, unless it is blank.
Authorization(request) ==
    IF Blank(request.forwarded.scheme) THEN request.authorization ELSE request.forwarded

AuthType(choice, credential) ==
    IF Blank(credential.scheme) THEN "none"
    ELSE IF IsBearer(choice, credential.scheme) THEN "bearer"
    ELSE IF IsService(choice, credential.scheme) THEN "service"
    ELSE "unknown"

\* authorizationToken and serviceAuthorizationValue: the scheme once more, and
\* something after it.
TakesToken(choice, type, credential) ==
    /\ ~ Blank(credential.token)
    /\ CASE type = "bearer" -> IsBearer(choice, credential.scheme)
         [] type = "service" -> IsService(choice, credential.scheme)

ServiceSession(request) == request.session # NoSession /\ request.session.mode = "service"

\* authAuditType: a service session is one whatever the request says.
AuthAuditType(choice, request) ==
    IF ServiceSession(request) THEN "service"
    ELSE AuthType(choice, Authorization(request))

\* Mutant: the bearer scheme is the package's, not the configured one.
DownstreamBearer(choice, request) ==
    IF ServiceSession(request)
    THEN IF Blank(request.session.token) THEN NoCredential
         ELSE [scheme |-> DefaultSchemes.bearer, token |-> request.session.token]
    ELSE Authorization(request)

\* DownstreamAuthorization: a service acts with the token of its session, or
\* with no credential when the session has none.
DownstreamAuthorization(choice, request) ==
    IF ServiceSession(request)
    THEN IF Blank(request.session.token) THEN NoCredential
         ELSE [scheme |-> choice.bearer, token |-> request.session.token]
    ELSE Authorization(request)

-----------------------------------------------------------------------------
NewRequest == [step |-> "new", forwarded |-> NoCredential, authorization |-> NoCredential,
               type |-> "none", asked |-> {}, session |-> NoSession, failure |-> NoFailure,
               audit |-> "none"]

Init ==
    /\ Schemes!ConfigInit
    /\ Authentication!ConfigInit
    /\ req = NewRequest
    /\ seen = {}

Step(from, to) == req.step = from /\ req' = [req EXCEPT !.step = to]

Session(from, mode, live, token) ==
    [from |-> from, mode |-> mode, live |-> live, token |-> token]

\* The body is read, or the request is refused; a session that middleware put
\* into the context is taken over, live or not, and nothing is authenticated.
Arrive ==
    /\ req.step = "new"
    /\ seen' = {schemes}
    /\ UNCHANGED config
    /\ \E forwarded \in Forwarded, authorization \in Credentials :
          \/ req' = [req EXCEPT !.step = "unread"]
          \/ req' = [req EXCEPT !.step = "dispatch", !.forwarded = forwarded,
                                !.authorization = authorization]
          \/ \E mode \in {"bearer", "service"}, live \in BOOLEAN, token \in Tokens :
                req' = [req EXCEPT !.step = "annotate", !.forwarded = forwarded,
                                   !.authorization = authorization,
                                   !.session = Session("context", mode, live, token)]

\* The switch of NewReqWithError.
Dispatch ==
    LET type == AuthType(schemes, Authorization(req))
    IN /\ req.step = "dispatch"
       /\ req' = [req EXCEPT
             !.step = IF type \in {"bearer", "service"} THEN "token" ELSE "annotate",
             !.type = type,
             !.failure = IF type = "unknown" THEN "authorization_scheme_unsupported" ELSE @]
       /\ UNCHANGED <<config, seen>>

\* authenticate reads the schemes again.
TakeToken ==
    LET taken == TakesToken(schemes, req.type, Authorization(req))
    IN /\ req.step = "token"
       /\ req' = [req EXCEPT !.step = IF taken THEN "exchange" ELSE "annotate",
                             !.failure = IF taken THEN @ ELSE "authorization_invalid"]
       /\ UNCHANGED <<config, seen>>

\* Mutant: the session that comes with an error is attached all the same.
ExchangeAnything ==
    /\ req.step = "exchange"
    /\ UNCHANGED <<config, seen>>
    /\ IF authenticator = NoAuthenticator
       THEN req' = [req EXCEPT !.step = "annotate", !.failure = "authenticator_not_configured"]
       ELSE \E token \in Tokens :
               req' = [req EXCEPT !.step = "annotate", !.asked = {authenticator},
                                  !.failure = "session_failed",
                                  !.session = Session(authenticator, req.type, FALSE, token)]

\* What authFailureFor records for an error of the authenticator: the failure
\* it names itself, or by the kind of error.  ErrNoKeyToken and
\* ErrAuthenticatorNotConfigured are exported, and an authenticator that
\* returns one of them is recorded like a credential without a token, or like
\* no authenticator at all.
AuthenticatorFailures ==
    {"provided", "session_failed", "authorization_invalid", "authenticator_not_configured"}

\* The authenticator in force is asked: it answers with an error, with a
\* session, with one that is over, or with none.
Exchange ==
    /\ req.step = "exchange"
    /\ UNCHANGED <<config, seen>>
    /\ IF authenticator = NoAuthenticator
       THEN req' = [req EXCEPT !.step = "annotate", !.failure = "authenticator_not_configured"]
       ELSE \/ \E failure \in AuthenticatorFailures :
                  req' = [req EXCEPT !.step = "annotate", !.asked = {authenticator},
                                     !.failure = failure]
            \/ req' = [req EXCEPT !.step = "annotate", !.asked = {authenticator}]
            \/ \E mode \in {"bearer", "service"}, live \in BOOLEAN, token \in Tokens :
                  req' = [req EXCEPT !.step = "annotate", !.asked = {authenticator},
                                     !.session = Session(authenticator, mode, live, token)]

\* annotateContext: the annotator may give the request another context.
Annotate == Step("annotate", "handled") /\ UNCHANGED <<config, seen>>

\* authAudit, once the request is over.
Audit ==
    /\ req.step = "handled"
    /\ req' = [req EXCEPT !.step = "audited", !.audit = AuthAuditType(schemes, req)]
    /\ UNCHANGED <<config, seen>>

\* The next request.
Forget == req.step \in {"audited", "unread"} /\ req' = NewRequest /\ seen' = {} /\ UNCHANGED config

ConfigureAuthorizationSchemes ==
    /\ Schemes!Reconfigure
    /\ Len(schemeOverrides') <= MaxSchemeOverrides
    /\ seen' = IF req.step = "new" THEN {} ELSE seen \cup {schemes'}
    /\ UNCHANGED <<authenticator, authenticatorOverrides, authenticatorsNested, req>>

ConfigureAuthenticator ==
    /\ Authentication!Reconfigure
    /\ Len(authenticatorOverrides') <= MaxAuthenticatorOverrides
    /\ UNCHANGED <<schemes, schemeOverrides, schemesNested, req, seen>>

Next ==
    \/ Arrive
    \/ Dispatch
    \/ TakeToken
    \/ Exchange
    \/ Annotate
    \/ Audit
    \/ Forget
    \/ ConfigureAuthorizationSchemes
    \/ ConfigureAuthenticator

Spec == Init /\ [][Next]_vars

-----------------------------------------------------------------------------
TypeOK ==
    /\ Schemes!ConfigTypeOK
    /\ Authentication!ConfigTypeOK
    /\ ~ Blank(schemes.bearer) /\ ~ Blank(schemes.service)
    /\ req.type \in {"none", "bearer", "service", "unknown"}
    /\ req.audit \in {"none", "bearer", "service", "unknown"}
    /\ req.asked \subseteq Authenticators
    /\ seen \subseteq NormalizedChoices \cup {DefaultSchemes}

Judged == req.step \in {"handled", "audited"}
Presented == ~ Blank(Authorization(req).scheme)

\* What a credential is for, by the names alone.
IsFor(choice, credential) ==
    LET services == {choice.service} \cup {choice.aliases[i] : i \in DOMAIN choice.aliases}
    IN IF Fold[credential.scheme] = Fold[choice.bearer] THEN "bearer"
       ELSE IF Fold[credential.scheme] \in {Fold[name] : name \in services} THEN "service"
       ELSE "unknown"

\* What becomes of a credential of a kind, with a token or without one: who
\* cannot tell it or finds no token asks nobody, and else an authenticator is
\* asked, if there is one.
JudgedAs(type, token) ==
    IF type = "unknown"
    THEN req.asked = {} /\ req.failure = "authorization_scheme_unsupported"
    ELSE IF ~ token THEN req.asked = {} /\ req.failure = "authorization_invalid"
    ELSE req.asked # {} \/ req.failure = "authenticator_not_configured"

\* A request that presents a credential is told about it: unless a session
\* was there already, its credential was exchanged by an authenticator, or the
\* reason why not was recorded.  While the schemes stay as they are it is
\* exchanged exactly when it is of a known kind and has a token (and there is
\* an authenticator), the failure of one that was not exchanged is its own,
\* and the audit record names its kind; only a change in between makes a
\* well-formed credential an invalid one that nobody was asked about
\* (request.go:839 and session.go:177 both read the schemes).  The failure of
\* one that was exchanged is the authenticator's, which may be any.
CredentialsAreJudged ==
    Judged /\ req.session.from # "context" /\ Presented =>
        /\ req.asked # {} \/ req.failure # NoFailure
        /\ Cardinality(seen) = 1 =>
             \A choice \in seen :
                LET type == IsFor(choice, Authorization(req))
                IN /\ JudgedAs(type, ~ Blank(Authorization(req).token))
                   /\ req.step = "audited" =>
                         req.audit = IF ServiceSession(req) THEN "service" ELSE type

\* A session is never there together with the failure to get one, and no
\* session but one of the context's comes without an attempt.
FailuresHaveNoSession ==
    Judged => /\ req.failure # NoFailure => req.session = NoSession /\ Presented
              /\ req.session.from \in Authenticators => req.asked = {req.session.from}

\* What is sent on can be read by another service with these schemes.  A
\* service session acts as a bearer: the next service tells a bearer
\* credential and takes the token of the session out of it, and of the
\* service's own credential nothing is sent, not even when the session has no
\* token.  Any other session an authenticator gave sends on the credential it
\* was given for: while the schemes stay as they are, the next service tells
\* the kind it was exchanged as and takes its token.
DownstreamIsUnderstood ==
    Judged /\ req.session # NoSession =>
        LET sent == DownstreamAuthorization(schemes, req)
            Understood(type) == AuthType(schemes, sent) = type /\ TakesToken(schemes, type, sent)
        IN IF ServiceSession(req)
           THEN IF Blank(req.session.token) THEN Blank(sent.scheme) /\ Blank(sent.token)
                ELSE Understood("bearer") /\ sent.token = req.session.token
           ELSE req.session.from # "context" /\ Cardinality(seen) = 1 => Understood(req.type)

\* Overrides that end in the order they nest leave no trace.
OverridesEnd == Schemes!NestedOverridesEnd /\ Authentication!NestedOverridesEnd
=============================================================================
