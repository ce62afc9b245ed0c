SPECIFICATION Spec
CONSTANTS
    a = a
    b = b
    d = d
    e = e
    Page = {p1}
    Folder = {a, b}
    Doc = {d, e}
    Root = Root
    Trash = Trash
    Absent = Absent
    Trees <- MCTrees
    Selections <- MCSelections
    Edits <- MCEdits
    Dest = {a, b}
    Batches <- MCBatches
    MaxJobs = 1
    MaxLoads = 3
    MaxMounts = 0
    MaxEdits = 0
    MaxFaults = 1
CHECK_DEADLOCK FALSE
PROPERTIES
    ChildrenGoFirst
