SPECIFICATION FrontSpec
CONSTANTS
    Configs <- MCConfigs
    Stacks <- MCStacks
    Requests <- MCRequests
    Limit = 6
    ContentLengthLine = 2
    Forgeries = {"*", "b"}
    MaxCached = 1
INVARIANTS
    GrantsFollowThePolicy
    AdmittedWithinLimit
