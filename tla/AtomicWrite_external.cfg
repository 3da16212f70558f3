CONSTANTS
    c1 = c1
    c2 = c2
    body = body
    fm = fm
    Clients <- MCClients
    Edits <- MCEdits
    Frontmatter <- MCFrontmatter
    Absent = Absent
    NoPin = NoPin
    NoClient = NoClient
    NoReq = NoReq
    Unread = Unread
    Torn = Torn
    Strict = TRUE
    Requests <- ToolCalls
    MaxExternal = 1
    MaxCrashes = 0
SPECIFICATION Spec
SYMMETRY Symmetry
INVARIANT TypeOK
PROPERTIES LossOnlyInCommitWindow CreateNeverOverwrites StrictOverwritesArePinned
