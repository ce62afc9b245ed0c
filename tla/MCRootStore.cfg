CONSTANTS
    c1 = c1
    c2 = c2
    h1 = h1
    h2 = h2
    d1 = d1
    d2 = d2
    Absent = Absent
    Nobody = Nobody
    NoFile = NoFile
    Empty = Empty
    MaxCommits = 3
    MaxFaults = 2
    Capacity = 2
    Client <- MCClient
    Hash <- MCHash
    Doc = {d1, d2}
    Tree <- MCTree
    PartialLine <- MCPartial
    ShortLine <- MCShort
    MaxSize <- MCMaxSize
SPECIFICATION DocSpec
CONSTRAINT ToTheFirstTear
SYMMETRY Symmetry
INVARIANTS TypeOK NoLostUpdate CurrentViewIsRight EventsAddUp FollowersKnow
PROPERTY ImplementsRegister
