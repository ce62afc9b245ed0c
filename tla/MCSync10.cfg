SPECIFICATION Spec
CONSTANTS
    d = d
    Doc = {d}
    None = None
    MaxOps = 4
    MaxFaults = 1
INVARIANTS
    ArchiveSurvives
    OneDeletionPerArchive
    MetaAndArchive
CHECK_DEADLOCK FALSE
