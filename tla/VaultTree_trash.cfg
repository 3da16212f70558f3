CONSTANTS
    a = a
    b = b
    F = F
    G = G
    d1 = d1
    d2 = d2
    u1 = u1
    n1 = n1
    n2 = n2
    n3 = n3
    x = x
    y = y
    Call = {x, y}
    NoCall = NoCall
    Top = Top
    Trash = Trash
    Folders = {d1, d2}
    NoteName = {a, b}
    FolderName = {F, G}
    Unique = {u1}
    Note = {n1, n2, n3}
    Nothing = Nothing
    Workloads <- Deletions
    Trees <- MCTrees
    MaxEdits = 0
SPECIFICATION Spec
CHECK_DEADLOCK FALSE
INVARIANT TrashedIsRecoverable
