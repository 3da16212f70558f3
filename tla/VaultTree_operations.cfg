CONSTANTS
    a = a
    b = b
    F = F
    G = G
    d1 = d1
    d2 = d2
    u1 = u1
    n1 = n1
    n2 = n2
    n3 = n3
    x = x
    y = y
    Call = {x, y}
    NoCall = NoCall
    Top = Top
    Trash = Trash
    Folders = {d1, d2}
    NoteName = {a, b}
    FolderName = {F, G}
    Unique = {u1}
    Note = {n1, n2, n3}
    Nothing = Nothing
    Workloads <- Pairs
    Trees <- MCTrees
    MaxEdits = 1
SPECIFICATION FairSpec
CHECK_DEADLOCK FALSE
INVARIANT TypeOK
INVARIANT LockDiscipline
INVARIANT AnswerTellsEffect
PROPERTY NothingVanishes
PROPERTY LossOnlyBeforeLock
PROPERTY EveryCallReturns
