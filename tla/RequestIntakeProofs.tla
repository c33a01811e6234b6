-------------------------- MODULE RequestIntakeProofs --------------------------
(***************************************************************************)
(* What RequestIntake promises holds for every set of schemes, credentials *)
(* and authenticators, and however often they are configured.              *)
(***************************************************************************)
EXTENDS RequestIntake, FiniteSetTheorems, ProofFacts, TLAPS

InForce == NormalizedChoices \cup {DefaultSchemes}
Installed == Authenticators \cup {NoAuthenticator}
Arriving == Credentials \cup Forwarded \cup {NoCredential}
Types == {"none", "bearer", "service", "unknown"}
Failures == {NoFailure, "authorization_scheme_unsupported", "authorization_invalid",
             "authenticator_not_configured", "session_failed", "provided"}
Sessions == {NoSession} \cup
    [from : Authenticators \cup {"context"}, mode : {"bearer", "service"},
     live : BOOLEAN, token : Tokens]
Requests ==
    [step : {"new", "unread", "dispatch", "token", "exchange", "annotate", "handled", "audited"},
     forwarded : Arriving, authorization : Arriving, type : Types,
     asked : SUBSET Authenticators, session : Sessions, failure : Failures, audit : Types]

-----------------------------------------------------------------------------
(***************************************************************************)
(* The invariant.                                                          *)
(***************************************************************************)
SchemesNest ==
    ConfigInv(InForce, DefaultSchemes, schemes, schemeOverrides, schemesNested)
AuthenticatorsNest ==
    ConfigInv(Installed, NoAuthenticator, authenticator, authenticatorOverrides,
              authenticatorsNested)

Settings ==
    /\ SchemesNest
    /\ AuthenticatorsNest
    /\ seen \subseteq InForce /\ IsFiniteSet(seen)
    /\ req.step # "new" => schemes \in seen

\* The schemes are the ones they were when the request arrived.
Steady == seen = {schemes}
Kind == IsFor(schemes, Authorization(req))
HasToken == ~ Blank(Authorization(req).token)

\* Before a request is judged nothing was asked; on the way to an
\* authenticator its credential is of a kind, and then has a token.
Pending ==
    /\ req.step \notin {"annotate", "handled", "audited"} =>
          req.session = NoSession /\ req.failure = NoFailure /\ req.asked = {}
    /\ req.step \in {"token", "exchange"} =>
          /\ Presented
          /\ req.type \in {"bearer", "service"}
          /\ Steady => req.type = Kind
    /\ req.step = "exchange" /\ Steady => HasToken

\* From then on its failure says why it has no session.
Settled ==
    req.step \in {"annotate", "handled", "audited"} =>
        /\ req.failure # NoFailure => req.session = NoSession /\ Presented
        /\ req.session.from \in Authenticators => req.asked = {req.session.from}
        /\ req.session.from # "context" /\ Presented =>
              /\ req.asked # {} \/ req.failure # NoFailure
              /\ Steady => JudgedAs(Kind, HasToken)
        /\ req.session.from \in Authenticators =>
              /\ Presented
              /\ Steady => req.type = Kind /\ Kind # "unknown" /\ HasToken

Audited ==
    req.step = "audited" /\ req.session.from # "context" /\ Presented /\ Steady =>
        req.audit = IF ServiceSession(req) THEN "service" ELSE Kind

IntakeInv == req \in Requests /\ Settings /\ Pending /\ Settled /\ Audited

-----------------------------------------------------------------------------
(***************************************************************************)
(* The schemes.                                                            *)
(***************************************************************************)
\* Leaving out blank aliases and repetitions loses no name (auth/schemes.go).
LEMMA AliasesKeepNames ==
    ASSUME NEW aliases \in Seq(DOMAIN Fold), NEW scheme, ~ Blank(scheme)
    PROVE  (\E name \in NormalizeAliases(aliases) : Fold[scheme] = Fold[name])
              <=> \E i \in DOMAIN aliases : Fold[scheme] = Fold[aliases[i]]
  <1> DEFINE same == {i \in DOMAIN aliases : Fold[scheme] = Fold[aliases[i]]}
  <1>1. DOMAIN aliases = 1 .. Len(aliases) /\ Len(aliases) \in Nat
    OBVIOUS
  <1>2. ASSUME NEW i \in DOMAIN aliases, Fold[scheme] = Fold[aliases[i]]
        PROVE  \E name \in NormalizeAliases(aliases) : Fold[scheme] = Fold[name]
    <2>1. same \subseteq Nat /\ same # {}
      BY <1>1, <1>2
    <2>2. PICK first \in same : \A j \in same : first <= j
      BY <2>1, Least
    <2>3. \A j \in 1 .. first - 1 : j \in DOMAIN aliases /\ ~ (first <= j)
      BY <1>1, <2>2
    <2>4. \A j \in 1 .. first - 1 : Fold[aliases[j]] # Fold[aliases[first]]
      BY <2>2, <2>3
    <2>5. ~ Blank(aliases[first])
      BY <2>2, Zenon DEF Blank
    <2>6. aliases[first] \in NormalizeAliases(aliases)
      BY <2>2, <2>4, <2>5, Zenon DEF NormalizeAliases
    <2> QED
      BY <2>2, <2>6, Zenon
  <1>3. \A name \in NormalizeAliases(aliases) : \E i \in DOMAIN aliases : name = aliases[i]
    BY Zenon DEF NormalizeAliases
  <1> QED
    BY <1>2, <1>3, Zenon

\* Schemes in force have names, and a credential's kind is told by them
\* alone (authType).
LEMMA SchemesInForce ==
    ASSUME NEW choice \in InForce
    PROVE  /\ ~ Blank(choice.bearer) /\ ~ Blank(choice.service)
           /\ choice.aliases \in Seq(DOMAIN Fold)
  <1>1. ~ Blank(DefaultSchemes.bearer) /\ ~ Blank(DefaultSchemes.service)
    BY NamesAssumption DEF DefaultSchemes
  <1>2. DefaultSchemes.aliases \in Seq(DOMAIN Fold)
    BY DEF DefaultSchemes
  <1>3. ASSUME NEW given \in SchemeChoices
        PROVE  LET made == NormalizeAuthorizationSchemes(given)
               IN /\ ~ Blank(made.bearer) /\ ~ Blank(made.service)
                  /\ made.aliases \in Seq(DOMAIN Fold)
    BY <1>1, AliasesAssumption DEF NormalizeAuthorizationSchemes
  <1> QED
    BY <1>1, <1>2, <1>3, Zenon DEF InForce, NormalizedChoices

LEMMA KindsAreTold ==
    ASSUME NEW choice \in InForce, NEW credential, ~ Blank(credential.scheme)
    PROVE  AuthType(choice, credential) = IsFor(choice, credential)
  <1> DEFINE scheme == credential.scheme
             aliases == choice.aliases
  <1>1. (\E name \in NormalizeAliases(aliases) : Fold[scheme] = Fold[name])
            <=> \E i \in DOMAIN aliases : Fold[scheme] = Fold[aliases[i]]
    BY SchemesInForce, AliasesKeepNames
  <1>2. IsService(choice, scheme) <=>
            Fold[scheme] = Fold[choice.service]
            \/ \E name \in NormalizeAliases(aliases) : Fold[scheme] = Fold[name]
    BY Zenon DEF IsService
  <1>3. (Fold[scheme] \in {Fold[name] : name \in {choice.service} \cup
                                             {aliases[i] : i \in DOMAIN aliases}})
            <=> \/ Fold[scheme] = Fold[choice.service]
                \/ \E i \in DOMAIN aliases : Fold[scheme] = Fold[aliases[i]]
    BY Zenon
  <1>4. IsService(choice, scheme) <=>
            Fold[scheme] \in {Fold[name] : name \in {choice.service} \cup
                                              {aliases[i] : i \in DOMAIN aliases}}
    BY <1>1, <1>2, <1>3, Zenon
  <1> QED
    BY <1>4, Zenon DEF AuthType, IsFor, IsBearer

LEMMA KindsAreTypes ==
    ASSUME NEW choice, NEW credential
    PROVE  /\ AuthType(choice, credential) \in Types
           /\ AuthType(choice, credential) = "none" <=> Blank(credential.scheme)
           /\ IsFor(choice, credential) \in {"bearer", "service", "unknown"}
  BY DEF AuthType, IsFor, Types

\* The scheme that told a kind of credential is found again in front of its
\* token, unless it was changed (authorizationToken).
LEMMA TokensAreTaken ==
    ASSUME NEW choice, NEW credential,
           AuthType(choice, credential) \in {"bearer", "service"}
    PROVE  TakesToken(choice, AuthType(choice, credential), credential)
              <=> ~ Blank(credential.token)
  <1>1. AuthType(choice, credential) = "bearer" => IsBearer(choice, credential.scheme)
    BY DEF AuthType
  <1>2. AuthType(choice, credential) = "service" => IsService(choice, credential.scheme)
    BY DEF AuthType
  <1> QED
    BY <1>1, <1>2 DEF TakesToken

-----------------------------------------------------------------------------
LEMMA InitInv == Init => IntakeInv
  <1> SUFFICES ASSUME Init PROVE IntakeInv
    OBVIOUS
  <1>1. SchemesNest /\ AuthenticatorsNest
    BY ConfigBegins DEF Init, Schemes!ConfigInit, Authentication!ConfigInit,
       SchemesNest, AuthenticatorsNest, InForce, Installed
  <1>2. req = NewRequest /\ seen = {}
    BY DEF Init
  <1>3. NewRequest \in Requests
    BY DEF NewRequest, Requests, Arriving, Types, Failures, Sessions
  <1>4. Pending /\ Settled /\ Audited
    BY <1>2 DEF NewRequest, Pending, Settled, JudgedAs, Audited
  <1>5. Settings
    BY <1>1, <1>2, FS_EmptySet DEF NewRequest, Settings
  <1> QED
    BY <1>2, <1>3, <1>4, <1>5 DEF IntakeInv

\* What configuring keeps, and what leaving the configuration alone keeps.
LEMMA Untouched ==
    ASSUME Settings, UNCHANGED config
    PROVE  SchemesNest' /\ AuthenticatorsNest' /\ UNCHANGED schemes
  BY DEF config, Settings, SchemesNest, AuthenticatorsNest

LEMMA SettingsKept ==
    ASSUME Settings, UNCHANGED <<config, seen>>, req'.step # "new", req.step # "new"
    PROVE  Settings'
  <1>1. UNCHANGED config /\ UNCHANGED seen
    OBVIOUS
  <1>2. SchemesNest' /\ AuthenticatorsNest' /\ UNCHANGED schemes
    BY <1>1, Untouched
  <1> QED
    BY <1>1, <1>2 DEF Settings

LEMMA SchemesAreInForce ==
    ASSUME SchemesNest
    PROVE  schemes \in InForce
  BY DEF SchemesNest, ConfigInv

\* What the invariant says of a request does not depend on the schemes once
\* they have changed.
LEMMA ReconfiguredInv ==
    ASSUME IntakeInv, UNCHANGED req, Settings',
           \/ UNCHANGED <<schemes, seen>>
           \/ req.step = "new"
           \/ seen' = seen \cup {schemes'}
    PROVE  IntakeInv'
  <1>1. req.step # "new" /\ Steady' => Steady /\ UNCHANGED schemes
    BY DEF Steady, IntakeInv, Settings
  <1>2. CASE req.step = "new"
    BY <1>2 DEF IntakeInv, Pending, Settled, JudgedAs, Audited
  <1>3. CASE req.step # "new"
    <2>1. Steady' => Kind' = Kind /\ Steady
      BY <1>1, <1>3 DEF Kind
    <2>2. HasToken' = HasToken /\ Presented' = Presented
      BY DEF HasToken, Presented
    <2> QED
      BY <1>3, <2>1, <2>2 DEF IntakeInv, Pending, Settled, JudgedAs, Audited
  <1> QED
    BY <1>2, <1>3

LEMMA ConfigureAuthorizationSchemesInv ==
    IntakeInv /\ ConfigureAuthorizationSchemes => IntakeInv'
  <1> SUFFICES ASSUME IntakeInv, ConfigureAuthorizationSchemes PROVE IntakeInv'
    OBVIOUS
  <1>1. SchemesNest'
    <2>1. SchemesNest /\ Schemes!Reconfigure
      BY DEF ConfigureAuthorizationSchemes, IntakeInv, Settings
    <2>2. ASSUME NEW value \in InForce, Schemes!Configure(value)
          PROVE  SchemesNest'
      BY <2>1, <2>2, Configured DEF SchemesNest, Schemes!Configure
    <2>3. ASSUME NEW i \in DOMAIN schemeOverrides, Schemes!Restore(i)
          PROVE  SchemesNest'
      <3>1. /\ schemesNested' \in BOOLEAN
            /\ schemesNested' => schemesNested /\ InnermostIn(schemeOverrides, i)
        BY <2>3 DEF Schemes!Restore, Schemes!Innermost, Schemes!Open, InnermostIn, OpenIn
      <3> QED
        BY <2>1, <2>3, <3>1, Restored DEF SchemesNest, Schemes!Restore
    <2> QED
      BY <2>1, <2>2, <2>3, Zenon DEF Schemes!Reconfigure, InForce
  <1>2. AuthenticatorsNest'
    BY DEF ConfigureAuthorizationSchemes, IntakeInv, Settings, AuthenticatorsNest
  <1>3. schemes' \in InForce
    BY <1>1 DEF SchemesNest, ConfigInv
  <1>4. /\ req' = req
        /\ IF req.step = "new" THEN seen' = {} ELSE seen' = seen \cup {schemes'}
    BY DEF ConfigureAuthorizationSchemes
  <1>5. IsFiniteSet(seen')
    <2>1. IsFiniteSet(seen)
      BY DEF IntakeInv, Settings
    <2>2. IsFiniteSet({}) /\ IsFiniteSet(seen \cup {schemes'})
      BY <2>1, FS_EmptySet, FS_AddElement, Zenon
    <2> QED
      BY <1>4, <2>2, Zenon
  <1>6. Settings'
    BY <1>1, <1>2, <1>3, <1>4, <1>5 DEF IntakeInv, Settings
  <1> QED
    BY <1>4, <1>6, ReconfiguredInv

LEMMA ConfigureAuthenticatorInv ==
    IntakeInv /\ ConfigureAuthenticator => IntakeInv'
  <1> SUFFICES ASSUME IntakeInv, ConfigureAuthenticator PROVE IntakeInv'
    OBVIOUS
  <1>1. AuthenticatorsNest'
    <2>1. AuthenticatorsNest /\ Authentication!Reconfigure
      BY DEF ConfigureAuthenticator, IntakeInv, Settings
    <2>2. ASSUME NEW value \in Installed, Authentication!Configure(value)
          PROVE  AuthenticatorsNest'
      BY <2>1, <2>2, Configured DEF AuthenticatorsNest, Authentication!Configure
    <2>3. ASSUME NEW i \in DOMAIN authenticatorOverrides, Authentication!Restore(i)
          PROVE  AuthenticatorsNest'
      <3>1. /\ authenticatorsNested' \in BOOLEAN
            /\ authenticatorsNested' => authenticatorsNested /\ InnermostIn(authenticatorOverrides, i)
        BY <2>3 DEF Authentication!Restore, Authentication!Innermost, Authentication!Open, InnermostIn, OpenIn
      <3> QED
        BY <2>1, <2>3, <3>1, Restored DEF AuthenticatorsNest, Authentication!Restore
    <2> QED
      BY <2>1, <2>2, <2>3, Zenon DEF Authentication!Reconfigure, Installed
  <1>2. SchemesNest'
    BY DEF ConfigureAuthenticator, IntakeInv, Settings, SchemesNest
  <1>3. UNCHANGED schemes /\ UNCHANGED seen /\ UNCHANGED req
    BY DEF ConfigureAuthenticator
  <1>4. Settings'
    BY <1>1, <1>2, <1>3 DEF IntakeInv, Settings
  <1> QED
    BY <1>3, <1>4, ReconfiguredInv

\* A step of the request keeps the configuration, and what has to be said of
\* the schemes before and after it is the same.
LEMMA RequestStep ==
    ASSUME IntakeInv, UNCHANGED <<config, seen>>, req.step # "new",
           req' \in Requests, req'.step # "new",
           req'.forwarded = req.forwarded, req'.authorization = req.authorization
    PROVE  /\ Settings'
           /\ Kind' = Kind /\ HasToken' = HasToken /\ Presented' = Presented
           /\ Steady' = Steady
  <1>1. Settings'
    BY SettingsKept DEF IntakeInv
  <1>2. UNCHANGED schemes /\ UNCHANGED seen
    BY DEF config
  <1>3. Authorization(req)' = Authorization(req)
    BY DEF Authorization
  <1> QED
    BY <1>1, <1>2, <1>3 DEF Kind, HasToken, Presented, Steady

LEMMA ArriveInv == IntakeInv /\ Arrive => IntakeInv'
  <1> SUFFICES ASSUME IntakeInv, Arrive PROVE IntakeInv'
    OBVIOUS
  <1>1. Settings'
    <2>1. SchemesNest' /\ AuthenticatorsNest' /\ UNCHANGED schemes
      BY Untouched DEF IntakeInv, Arrive
    <2>2. schemes' \in InForce /\ seen' = {schemes'}
      BY <2>1, SchemesAreInForce DEF IntakeInv, Settings, Arrive
    <2>3. IsFiniteSet(seen')
      BY <2>2, FS_Singleton, Zenon
    <2> QED
      BY <2>1, <2>2, <2>3 DEF Settings
  <1>2. PICK forwarded \in Forwarded, authorization \in Credentials :
          \/ req' = [req EXCEPT !.step = "unread"]
          \/ req' = [req EXCEPT !.step = "dispatch", !.forwarded = forwarded,
                                !.authorization = authorization]
          \/ \E mode \in {"bearer", "service"}, live \in BOOLEAN, token \in Tokens :
                req' = [req EXCEPT !.step = "annotate", !.forwarded = forwarded,
                                   !.authorization = authorization,
                                   !.session = Session("context", mode, live, token)]
    BY DEF Arrive
  <1>3. /\ req.step = "new" /\ req \in Requests
        /\ req.session = NoSession /\ req.failure = NoFailure /\ req.asked = {}
    BY DEF Arrive, IntakeInv, Pending
  <1>4. \A mode \in {"bearer", "service"}, live \in BOOLEAN, token \in Tokens :
            /\ Session("context", mode, live, token) \in Sessions
            /\ Session("context", mode, live, token).from = "context"
    BY DEF Session, Sessions
  <1>5. forwarded \in Arriving /\ authorization \in Arriving
    BY DEF Arriving
  <1>6. CASE req' = [req EXCEPT !.step = "unread"]
    <2>1. req' \in Requests
      BY <1>3, <1>6 DEF Requests
    <2> QED
      BY <1>1, <1>3, <1>6, <2>1 DEF Requests, IntakeInv, Pending, Settled, JudgedAs, Audited
  <1>7. CASE req' = [req EXCEPT !.step = "dispatch", !.forwarded = forwarded,
                                !.authorization = authorization]
    <2>1. req' \in Requests
      BY <1>3, <1>5, <1>7 DEF Requests
    <2> QED
      BY <1>1, <1>3, <1>7, <2>1 DEF Requests, IntakeInv, Pending, Settled, JudgedAs, Audited
  <1>8. ASSUME NEW mode \in {"bearer", "service"}, NEW live \in BOOLEAN, NEW token \in Tokens,
               req' = [req EXCEPT !.step = "annotate", !.forwarded = forwarded,
                                  !.authorization = authorization,
                                  !.session = Session("context", mode, live, token)]
        PROVE  IntakeInv'
    <2> DEFINE session == Session("context", mode, live, token)
    <2>1. session \in Sessions /\ session.from = "context"
      BY <1>4
    <2>2. req' = [req EXCEPT !.step = "annotate", !.forwarded = forwarded,
                             !.authorization = authorization, !.session = session]
      BY <1>8
    <2> HIDE DEF session
    <2>3. req' \in Requests
      BY <1>3, <1>5, <2>1, <2>2 DEF Requests
    <2>4. /\ req'.step = "annotate" /\ req'.failure = NoFailure
          /\ req'.session.from = "context"
      BY <1>3, <2>1, <2>2 DEF Requests
    <2> QED
      BY <1>1, <2>3, <2>4, AuthenticatorsAssumption
         DEF IntakeInv, Pending, Settled, JudgedAs, Audited
  <1> QED
    BY <1>2, <1>6, <1>7, <1>8

LEMMA DispatchInv == IntakeInv /\ Dispatch => IntakeInv'
  <1> SUFFICES ASSUME IntakeInv, Dispatch PROVE IntakeInv'
    OBVIOUS
  <1> DEFINE type == AuthType(schemes, Authorization(req))
  <1>1. /\ req.step = "dispatch" /\ req \in Requests
        /\ req.session = NoSession /\ req.failure = NoFailure /\ req.asked = {}
    BY DEF Dispatch, IntakeInv, Pending
  <1>2. /\ type \in Types
        /\ type = "none" <=> ~ Presented
        /\ Kind \in {"bearer", "service", "unknown"}
        /\ Presented => type = Kind
    BY <1>1, KindsAreTypes, KindsAreTold, SchemesAreInForce
       DEF IntakeInv, Settings, Presented, Kind
  <1>3. /\ req' = [req EXCEPT
             !.step = IF type \in {"bearer", "service"} THEN "token" ELSE "annotate",
             !.type = type,
             !.failure = IF type = "unknown" THEN "authorization_scheme_unsupported" ELSE @]
        /\ UNCHANGED <<config, seen>>
    BY DEF Dispatch
  <1> HIDE DEF type
  <1>4. /\ req' \in Requests
        /\ req'.step = IF type \in {"bearer", "service"} THEN "token" ELSE "annotate"
        /\ req'.type = type
        /\ req'.failure = IF type = "unknown" THEN "authorization_scheme_unsupported" ELSE NoFailure
        /\ req'.session = NoSession /\ req'.asked = {}
        /\ req'.forwarded = req.forwarded /\ req'.authorization = req.authorization
    BY <1>1, <1>2, <1>3 DEF Requests, Failures
  <1>5. /\ Settings'
        /\ Kind' = Kind /\ HasToken' = HasToken /\ Presented' = Presented
        /\ Steady' = Steady
    BY <1>1, <1>3, <1>4, RequestStep
  <1>6. Pending' /\ Settled' /\ Audited'
    BY <1>2, <1>4, <1>5, AuthenticatorsAssumption
       DEF Pending, Settled, JudgedAs, Audited, NoFailure, NoSession
  <1> QED
    BY <1>4, <1>5, <1>6 DEF IntakeInv

LEMMA TakeTokenInv == IntakeInv /\ TakeToken => IntakeInv'
  <1> SUFFICES ASSUME IntakeInv, TakeToken PROVE IntakeInv'
    OBVIOUS
  <1> DEFINE taken == TakesToken(schemes, req.type, Authorization(req))
  <1>1. /\ req.step = "token" /\ req \in Requests
        /\ req.session = NoSession /\ req.failure = NoFailure /\ req.asked = {}
        /\ Presented /\ req.type \in {"bearer", "service"}
        /\ Steady => req.type = Kind
    BY DEF TakeToken, IntakeInv, Pending
  <1>2. /\ taken => HasToken
        /\ Steady => (taken <=> HasToken)
    <2>1. taken => HasToken
      BY Zenon DEF TakesToken, HasToken
    <2>2. AuthType(schemes, Authorization(req)) = Kind
      BY <1>1, KindsAreTold, SchemesAreInForce DEF IntakeInv, Settings, Presented, Kind
    <2>3. Steady => (taken <=> HasToken)
      BY <1>1, <2>2, TokensAreTaken DEF HasToken
    <2> QED
      BY <2>1, <2>3
  <1>3. /\ req' = [req EXCEPT !.step = IF taken THEN "exchange" ELSE "annotate",
                              !.failure = IF taken THEN @ ELSE "authorization_invalid"]
        /\ UNCHANGED <<config, seen>>
    BY DEF TakeToken
  <1> HIDE DEF taken
  <1>4. /\ req' \in Requests
        /\ req'.step = IF taken THEN "exchange" ELSE "annotate"
        /\ req'.type = req.type
        /\ req'.failure = IF taken THEN NoFailure ELSE "authorization_invalid"
        /\ req'.session = NoSession /\ req'.asked = {}
        /\ req'.forwarded = req.forwarded /\ req'.authorization = req.authorization
    BY <1>1, <1>3 DEF Requests, Failures
  <1>5. /\ Settings'
        /\ Kind' = Kind /\ HasToken' = HasToken /\ Presented' = Presented
        /\ Steady' = Steady
    BY <1>1, <1>3, <1>4, RequestStep
  <1>6. Pending' /\ Settled' /\ Audited'
    BY <1>1, <1>2, <1>4, <1>5, AuthenticatorsAssumption
       DEF Pending, Settled, JudgedAs, Audited, NoFailure, NoSession
  <1> QED
    BY <1>4, <1>5, <1>6 DEF IntakeInv

LEMMA ExchangeInv == IntakeInv /\ Exchange => IntakeInv'
  <1> SUFFICES ASSUME IntakeInv, Exchange PROVE IntakeInv'
    OBVIOUS
  <1>1. /\ req.step = "exchange" /\ req \in Requests
        /\ req.session = NoSession /\ req.failure = NoFailure /\ req.asked = {}
        /\ Presented
        /\ Steady => req.type = Kind /\ Kind # "unknown" /\ HasToken
    BY DEF Exchange, IntakeInv, Pending
  <1>2. UNCHANGED <<config, seen>>
    BY DEF Exchange
  <1>3. PICK asked \in SUBSET Authenticators, session \in Sessions, failure \in Failures :
          /\ req' = [req EXCEPT !.step = "annotate", !.asked = asked, !.failure = failure,
                                !.session = session]
          /\ asked # {} \/ failure = "authenticator_not_configured"
          /\ failure # NoFailure => session = NoSession
          /\ session.from \in Authenticators => asked = {session.from}
    <2>1. CASE authenticator = NoAuthenticator
      <3>1. req' = [req EXCEPT !.step = "annotate", !.failure = "authenticator_not_configured"]
        BY <2>1 DEF Exchange
      <3>2. req' = [req EXCEPT !.step = "annotate", !.asked = {},
                               !.failure = "authenticator_not_configured", !.session = NoSession]
        BY <1>1, <3>1 DEF Requests
      <3> QED
        BY <3>2, AuthenticatorsAssumption DEF Failures, NoFailure, Sessions, NoSession
    <2>2. CASE authenticator # NoAuthenticator
      <3>0. authenticator \in Authenticators
        BY <2>2 DEF IntakeInv, Settings, AuthenticatorsNest, ConfigInv, Installed
      <3>1. ASSUME NEW failure \in AuthenticatorFailures,
                   req' = [req EXCEPT !.step = "annotate", !.asked = {authenticator},
                                      !.failure = failure]
            PROVE  req' = [req EXCEPT !.step = "annotate", !.asked = {authenticator},
                                      !.failure = failure, !.session = NoSession]
        BY <1>1, <3>1 DEF Requests
      <3>2. ASSUME req' = [req EXCEPT !.step = "annotate", !.asked = {authenticator}]
            PROVE  req' = [req EXCEPT !.step = "annotate", !.asked = {authenticator},
                                      !.failure = NoFailure, !.session = NoSession]
        BY <1>1, <3>2 DEF Requests
      <3>3. ASSUME NEW mode \in {"bearer", "service"}, NEW live \in BOOLEAN, NEW token \in Tokens,
                   req' = [req EXCEPT !.step = "annotate", !.asked = {authenticator},
                                      !.session = Session(authenticator, mode, live, token)]
            PROVE  /\ req' = [req EXCEPT !.step = "annotate", !.asked = {authenticator},
                                         !.failure = NoFailure,
                                         !.session = Session(authenticator, mode, live, token)]
                   /\ Session(authenticator, mode, live, token) \in Sessions
                   /\ Session(authenticator, mode, live, token).from = authenticator
        <4> DEFINE session == Session(authenticator, mode, live, token)
        <4>1. session \in Sessions /\ session.from = authenticator
          BY <3>0 DEF Session, Sessions
        <4>2. req' = [req EXCEPT !.step = "annotate", !.asked = {authenticator},
                                 !.session = session]
          BY <3>3
        <4> HIDE DEF session
        <4>3. req' = [req EXCEPT !.step = "annotate", !.asked = {authenticator},
                                 !.failure = NoFailure, !.session = session]
          BY <1>1, <4>2 DEF Requests
        <4> QED
          BY <4>1, <4>3 DEF session
      <3>4. \/ \E failure \in AuthenticatorFailures :
                  req' = [req EXCEPT !.step = "annotate", !.asked = {authenticator},
                                     !.failure = failure]
            \/ req' = [req EXCEPT !.step = "annotate", !.asked = {authenticator}]
            \/ \E mode \in {"bearer", "service"}, live \in BOOLEAN, token \in Tokens :
                  req' = [req EXCEPT !.step = "annotate", !.asked = {authenticator},
                                     !.session = Session(authenticator, mode, live, token)]
        BY <2>2 DEF Exchange
      <3>5. /\ {authenticator} \in SUBSET Authenticators /\ {authenticator} # {}
            /\ NoSession \in Sessions /\ NoSession.from \notin Authenticators
            /\ NoFailure \in Failures /\ AuthenticatorFailures \subseteq Failures
        BY <3>0, AuthenticatorsAssumption
           DEF Sessions, NoSession, Failures, NoFailure, AuthenticatorFailures
      <3> QED
        BY <3>1, <3>2, <3>3, <3>4, <3>5, Zenon
    <2> QED
      BY <2>1, <2>2
  <1>4. /\ req' \in Requests
        /\ req'.step = "annotate" /\ req'.type = req.type
        /\ req'.failure = failure /\ req'.session = session /\ req'.asked = asked
        /\ req'.forwarded = req.forwarded /\ req'.authorization = req.authorization
    BY <1>1, <1>3 DEF Requests
  <1>5. /\ Settings'
        /\ Kind' = Kind /\ HasToken' = HasToken /\ Presented' = Presented
        /\ Steady' = Steady
    BY <1>1, <1>2, <1>4, RequestStep
  <1>6. Pending' /\ Settled' /\ Audited'
    BY <1>1, <1>3, <1>4, <1>5 DEF Pending, Settled, JudgedAs, Audited, NoFailure
  <1> QED
    BY <1>4, <1>5, <1>6 DEF IntakeInv

LEMMA AnnotateInv == IntakeInv /\ Annotate => IntakeInv'
  <1> SUFFICES ASSUME IntakeInv, Annotate PROVE IntakeInv'
    OBVIOUS
  <1>1. /\ req.step = "annotate" /\ req \in Requests
        /\ req' = [req EXCEPT !.step = "handled"]
        /\ UNCHANGED <<config, seen>>
    BY DEF Annotate, Step, IntakeInv
  <1>2. /\ req' \in Requests
        /\ req'.step = "handled"
        /\ req'.failure = req.failure /\ req'.session = req.session /\ req'.asked = req.asked
        /\ req'.forwarded = req.forwarded /\ req'.authorization = req.authorization
    BY <1>1 DEF Requests
  <1>3. /\ Settings'
        /\ Kind' = Kind /\ HasToken' = HasToken /\ Presented' = Presented
        /\ Steady' = Steady
    BY <1>1, <1>2, RequestStep
  <1>4. Pending' /\ Settled' /\ Audited'
    BY <1>1, <1>2, <1>3 DEF IntakeInv, Pending, Settled, JudgedAs, Audited
  <1> QED
    BY <1>2, <1>3, <1>4 DEF IntakeInv

LEMMA AuditInv == IntakeInv /\ Audit => IntakeInv'
  <1> SUFFICES ASSUME IntakeInv, Audit PROVE IntakeInv'
    OBVIOUS
  <1> DEFINE audit == AuthAuditType(schemes, req)
  <1>1. /\ req.step = "handled" /\ req \in Requests
        /\ req' = [req EXCEPT !.step = "audited", !.audit = audit]
        /\ UNCHANGED <<config, seen>>
    BY DEF Audit, IntakeInv
  <1>2. /\ audit \in Types
        /\ Presented => audit = IF ServiceSession(req) THEN "service" ELSE Kind
    BY <1>1, KindsAreTypes, KindsAreTold, SchemesAreInForce
       DEF AuthAuditType, IntakeInv, Settings, Presented, Kind, Types
  <1> HIDE DEF audit
  <1>3. /\ req' \in Requests
        /\ req'.step = "audited" /\ req'.audit = audit
        /\ req'.failure = req.failure /\ req'.session = req.session /\ req'.asked = req.asked
        /\ req'.forwarded = req.forwarded /\ req'.authorization = req.authorization
    BY <1>1, <1>2 DEF Requests
  <1>4. /\ Settings'
        /\ Kind' = Kind /\ HasToken' = HasToken /\ Presented' = Presented
        /\ Steady' = Steady
    BY <1>1, <1>3, RequestStep
  <1>5. Pending' /\ Settled'
    BY <1>1, <1>3, <1>4 DEF IntakeInv, Pending, Settled, JudgedAs
  <1>6. Audited'
    BY <1>2, <1>3, <1>4 DEF Audited, ServiceSession
  <1> QED
    BY <1>3, <1>4, <1>5, <1>6 DEF IntakeInv

LEMMA ForgetInv == IntakeInv /\ Forget => IntakeInv'
  <1> SUFFICES ASSUME IntakeInv, Forget PROVE IntakeInv'
    OBVIOUS
  <1>1. req' = NewRequest /\ seen' = {} /\ UNCHANGED config
    BY DEF Forget
  <1>2. NewRequest \in Requests
    BY DEF NewRequest, Requests, Arriving, Types, Failures, Sessions
  <1>3. SchemesNest' /\ AuthenticatorsNest'
    BY <1>1, Untouched DEF IntakeInv
  <1>4. Settings'
    BY <1>1, <1>3, FS_EmptySet DEF NewRequest, Settings
  <1>5. Pending' /\ Settled' /\ Audited'
    BY <1>1 DEF NewRequest, Pending, Settled, JudgedAs, Audited
  <1> QED
    BY <1>1, <1>2, <1>4, <1>5 DEF IntakeInv

LEMMA StutterInv == IntakeInv /\ UNCHANGED vars => IntakeInv'
  <1> SUFFICES ASSUME IntakeInv, UNCHANGED vars PROVE IntakeInv'
    OBVIOUS
  <1>1. UNCHANGED config /\ UNCHANGED req /\ UNCHANGED seen
    BY DEF vars
  <1>2. SchemesNest' /\ AuthenticatorsNest' /\ UNCHANGED schemes
    BY <1>1, Untouched DEF IntakeInv
  <1>3. Settings'
    BY <1>1, <1>2 DEF IntakeInv, Settings
  <1> QED
    BY <1>1, <1>2, <1>3, ReconfiguredInv

\* The invariant of the request's intake.
THEOREM IntakeInvariant == Spec => []IntakeInv
  <1>1. IntakeInv /\ [Next]_vars => IntakeInv'
    BY ArriveInv, DispatchInv, TakeTokenInv, ExchangeInv, AnnotateInv, AuditInv, ForgetInv,
       ConfigureAuthorizationSchemesInv, ConfigureAuthenticatorInv, StutterInv DEF Next
  <1> QED
    BY <1>1, InitInv, PTL DEF Spec

\* Both settings and the request keep their types, and the schemes in force
\* always have their two names (NormalizeAuthorizationSchemes).
THEOREM TypeCorrect == Spec => []TypeOK
  <1>1. IntakeInv => TypeOK
    <2> SUFFICES ASSUME IntakeInv PROVE TypeOK
      OBVIOUS
    <2>1. Schemes!ConfigTypeOK
      BY DEF IntakeInv, Settings, SchemesNest, ConfigInv, OverridesOf, InForce,
         Schemes!ConfigTypeOK
    <2>2. Authentication!ConfigTypeOK
      BY DEF IntakeInv, Settings, AuthenticatorsNest, ConfigInv, OverridesOf, Installed,
         Authentication!ConfigTypeOK
    <2>3. ~ Blank(schemes.bearer) /\ ~ Blank(schemes.service)
      BY SchemesAreInForce, SchemesInForce DEF IntakeInv, Settings
    <2>4. /\ req.type \in Types /\ req.audit \in Types
          /\ req.asked \subseteq Authenticators
          /\ seen \subseteq InForce
      BY DEF IntakeInv, Settings, Requests
    <2> QED
      BY <2>1, <2>2, <2>3, <2>4 DEF TypeOK, Types, InForce
  <1> QED
    BY <1>1, IntakeInvariant, PTL

\* When no other schemes were seen since a request arrived they are the ones in
\* force.
LEMMA UnchangedSchemes ==
    ASSUME IntakeInv, Judged, Cardinality(seen) = 1
    PROVE  Steady
  <1>1. IsFiniteSet(seen) /\ schemes \in seen
    BY DEF IntakeInv, Judged, Settings
  <1>2. \E x : seen = {x}
    BY <1>1, FS_Singleton, Zenon
  <1> QED
    BY <1>1, <1>2 DEF Steady

\* While the schemes stay as they are a presented credential is exchanged
\* exactly when it can be, and else its own failure is recorded; in any case
\* one of the two happens (NewReqWithError, authenticate, authAuditType).
THEOREM EveryCredentialIsJudged == Spec => []CredentialsAreJudged
  <1>1. IntakeInv => CredentialsAreJudged
    <2> SUFFICES ASSUME IntakeInv, Judged, req.session.from # "context", Presented
                 PROVE  /\ req.asked # {} \/ req.failure # NoFailure
                        /\ Cardinality(seen) = 1 =>
                             \A choice \in seen :
                                LET type == IsFor(choice, Authorization(req))
                                IN /\ JudgedAs(type, ~ Blank(Authorization(req).token))
                                   /\ req.step = "audited" =>
                                         req.audit = IF ServiceSession(req) THEN "service"
                                                     ELSE type
      BY DEF CredentialsAreJudged
    <2>1. Cardinality(seen) = 1 => Steady
      BY UnchangedSchemes
    <2>2. \A choice \in seen : Steady => choice = schemes
      BY DEF Steady
    <2> QED
      BY <2>1, <2>2 DEF IntakeInv, Judged, Settled, Audited, Kind, HasToken
  <1> QED
    BY <1>1, IntakeInvariant, PTL

\* A session and the failure to get one exclude each other (SessionResult).
THEOREM NoSessionAfterAFailure == Spec => []FailuresHaveNoSession
  <1>1. IntakeInv => FailuresHaveNoSession
    BY DEF IntakeInv, Settled, Judged, FailuresHaveNoSession
  <1> QED
    BY <1>1, IntakeInvariant, PTL

\* A credential of a kind that has a token is understood by who has the same
\* schemes (authAuditType, authorizationToken).
LEMMA Understanding ==
    ASSUME NEW choice, NEW credential, ~ Blank(credential.token),
           AuthType(choice, credential) \in {"bearer", "service"}
    PROVE  TakesToken(choice, AuthType(choice, credential), credential)
  BY TokensAreTaken

\* What DownstreamAuthorization makes of a session can be read with the same
\* schemes: the token of a service session, or else the credential the session
\* was given for.
THEOREM ServicesAreUnderstood == Spec => []DownstreamIsUnderstood
  <1> DEFINE sent == DownstreamAuthorization(schemes, req)
             Understood(type) == AuthType(schemes, sent) = type /\ TakesToken(schemes, type, sent)
  <1>1. IntakeInv /\ ServiceSession(req) /\ Blank(req.session.token) =>
            Blank(sent.scheme) /\ Blank(sent.token)
    BY BlankAssumption DEF DownstreamAuthorization, NoCredential
  <1>2. IntakeInv /\ ServiceSession(req) /\ ~ Blank(req.session.token) =>
            Understood("bearer") /\ sent.token = req.session.token
    <2> SUFFICES ASSUME IntakeInv, ServiceSession(req), ~ Blank(req.session.token)
                 PROVE  Understood("bearer") /\ sent.token = req.session.token
      OBVIOUS
    <2>1. ~ Blank(schemes.bearer)
      BY SchemesAreInForce, SchemesInForce DEF IntakeInv, Settings
    <2>2. sent.scheme = schemes.bearer /\ sent.token = req.session.token
      BY DEF DownstreamAuthorization
    <2> HIDE DEF sent
    <2>3. IsBearer(schemes, sent.scheme) /\ ~ Blank(sent.scheme) /\ ~ Blank(sent.token)
      BY <2>1, <2>2 DEF IsBearer
    <2>4. AuthType(schemes, sent) = "bearer"
      BY <2>3 DEF AuthType
    <2> QED
      BY <2>2, <2>3, <2>4, Understanding
  <1>3. IntakeInv /\ Judged /\ req.session # NoSession /\ ~ ServiceSession(req)
            /\ req.session.from # "context" /\ Cardinality(seen) = 1 => Understood(req.type)
    <2> SUFFICES ASSUME IntakeInv, Judged, req.session # NoSession, ~ ServiceSession(req),
                        req.session.from # "context", Cardinality(seen) = 1
                 PROVE  Understood(req.type)
      OBVIOUS
    <2>1. req.session.from \in Authenticators
      BY DEF IntakeInv, Requests, Sessions
    <2>2. Presented /\ req.type = Kind /\ Kind # "unknown" /\ HasToken
      BY <2>1, UnchangedSchemes DEF IntakeInv, Judged, Settled
    <2>3. sent = Authorization(req)
      BY DEF DownstreamAuthorization
    <2> HIDE DEF sent
    <2>4. schemes \in InForce
      BY SchemesAreInForce DEF IntakeInv, Settings
    <2>5. AuthType(schemes, sent) = req.type
      BY <2>2, <2>3, <2>4, KindsAreTold DEF Presented, Kind
    <2>6. req.type \in {"bearer", "service"}
      BY <2>2, KindsAreTypes DEF Kind
    <2> QED
      BY <2>2, <2>3, <2>5, <2>6, Understanding DEF HasToken
  <1> HIDE DEF sent, Understood
  <1>4. IntakeInv => DownstreamIsUnderstood
    BY <1>1, <1>2, <1>3 DEF DownstreamIsUnderstood, sent, Understood
  <1> QED
    BY <1>4, IntakeInvariant, PTL

\* Overrides that end in the order they nest leave no trace, however many
\* there are (ConfigureAuthorizationSchemes, ConfigureAuthenticator).
THEOREM OverridesLeaveNoTrace == Spec => []OverridesEnd
  <1>1. IntakeInv => OverridesEnd
    BY DEF IntakeInv, Settings, SchemesNest, AuthenticatorsNest, ConfigInv, InOrder, OpenIn,
       InnermostIn, OverridesEnd, Schemes!NestedOverridesEnd, Schemes!Open, Schemes!Innermost,
       Authentication!NestedOverridesEnd, Authentication!Open, Authentication!Innermost
  <1> QED
    BY <1>1, IntakeInvariant, PTL
=============================================================================
