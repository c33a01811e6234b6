SPECIFICATION Spec
CONSTANTS
    Fold <- MCFold
    SchemeChoices <- MCSchemeChoices
    Authenticators = {"a"}
    NoAuthenticator = "noop"
    Credentials <- MCCredentials
    Forwarded <- MCForwarded
    Tokens = {"t", " "}
    MaxSchemeOverrides = 1
    MaxAuthenticatorOverrides = 2
INVARIANTS
    TypeOK
    CredentialsAreJudged
    FailuresHaveNoSession
    DownstreamIsUnderstood
    OverridesEnd
