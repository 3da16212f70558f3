CONSTANTS
    a = a
    upper = upper
    b = b
    n = n
    stem = stem
    dot = dot
    v1 = v1
    v2 = v2
    key1 = key1
    login = login
    c1 = c1
    c2 = c2
    Component <- MCComponent
    Fold <- MCFold
    Vault <- TwoVaults
    Identity <- KeysAndLogin
    ApiKeys <- OneKey
    Call <- TwoCalls
    NoVault = NoVault
    NoIdentity = NoIdentity
    NoToken = NoToken
    Configs <- Restarts
    Files <- FewFiles
    LinkTargets <- MCLinkTargets
    Aliases <- MCAliases
    Base <- MCBase
    Depths <- NoDepths
    Targets <- FewTargets
    Dotted <- MCDotted
    Approved <- MCApproved
    Ttls <- MCTtls
    MaxTtl = 1
    MaxTime = 2
    MaxTokens = 1
    MaxStarts = 2
SPECIFICATION Spec
SYMMETRY Symmetry
INVARIANT TypeOK
INVARIANT OverridesOnlyRestrict
INVARIANT TokenIsBound
INVARIANT RequestKeepsItsVault
CHECK_DEADLOCK FALSE
