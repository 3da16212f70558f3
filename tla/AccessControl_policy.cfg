CONSTANTS
    a = a
    upper = upper
    b = b
    n = n
    stem = stem
    dot = dot
    v1 = v1
    v2 = v2
    key1 = key1
    login = login
    c1 = c1
    c2 = c2
    Component <- MCComponent
    Fold <- MCFold
    Vault <- OneVault
    Identity <- OneKey
    ApiKeys <- OneKey
    Call <- OneCall
    NoVault = NoVault
    NoIdentity = NoIdentity
    NoToken = NoToken
    Configs <- PolicyPairs
    Files <- MCFiles
    LinkTargets <- MCLinkTargets
    Aliases <- MCAliases
    Base <- MCBase
    Depths <- MCDepths
    Targets <- MCTargets
    Dotted <- MCDotted
    Approved <- MCApproved
    Ttls <- OneTtl
    MaxTtl = 2
    MaxTime = 0
    MaxTokens = 0
    MaxStarts = 1
SPECIFICATION Spec
INVARIANT OverridesOnlyRestrict
INVARIANT DenyCoversAliases
INVARIANT QueryShowsWhatCanBeRead
INVARIANT GraphStaysInSight
INVARIANT FolderOperationsAreAuthorized
INVARIANT ListingComplete
CHECK_DEADLOCK FALSE
