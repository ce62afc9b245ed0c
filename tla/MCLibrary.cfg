CONSTANTS
    alice = alice
    bob = bob
    d1 = d1
    d2 = d2
    None = None
    User = {alice, bob}
    Sync15 = {alice}
    Doc = {d1}
    Asked = {}
    Slots = 1
    Retain <- MCRetain
    MaxEdits = 2
    MaxRuns = 3
    MaxFaults = 1
SPECIFICATION Spec
CONSTRAINTS OneUserWorks FewChanges
INVARIANTS SnapshotIsItsVersion NoLitter IndexIsFresh
    SkippedIsBackedUp JobsAreAccounted
PROPERTIES TrimsOnlyTheOldest
