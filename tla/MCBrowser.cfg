SPECIFICATION Spec
CONSTANTS
    a = a
    b = b
    d = d
    e = e
    Page = {p1}
    Folder = {a, b}
    Doc = {d, e}
    Root = Root
    Trash = Trash
    Absent = Absent
    Trees <- MCTrees
    Selections <- MCSelections
    Edits <- MCEdits
    Dest = {a, b}
    Batches <- MCBatches
    MaxJobs = 2
    MaxLoads = 3
    MaxMounts = 1
    MaxEdits = 1
    MaxFaults = 1
INVARIANTS
    TreeIsWhole
    NoOrphans
    ShowsOwnWork
    LossIsTold
CHECK_DEADLOCK FALSE
PROPERTIES
    PagesGetFree
