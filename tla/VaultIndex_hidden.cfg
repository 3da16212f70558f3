CONSTANTS
    n1 = n1
    n2 = n2
    plain = plain
    linked = linked
    locked = locked
    stem = stem
    other = other
    tag = tag
    u1 = u1
    u2 = u2
    Notes <- MCNotes
    Hidden <- MCHidden
    Contents <- MCContents
    Unreadable <- MCUnreadable
    Nothing = Nothing
    Names <- MCNames
    Tags <- MCTags
    StemOf <- MCStemOf
    LinksOf <- MCLinksOf
    TagsOf <- MCTagsOf
    AliasesOf <- MCAliasesOf
    Updaters <- OneUpdater
    Boot = Boot
    Sweeper = Sweeper
    Free = Free
    MaxEdits = 2
SPECIFICATION FairSpec
INVARIANT NothingHiddenIsIndexed
PROPERTY ReadyMeansComplete
PROPERTY Converges
CHECK_DEADLOCK FALSE
