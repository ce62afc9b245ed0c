CONSTANTS
    alice = alice
    bob = bob
    d1 = d1
    d2 = d2
    None = None
    User = {alice}
    Sync15 = {}
    Doc = {d1, d2}
    Asked = {d1}
    Slots = 1
    Retain <- MCRetain
    MaxEdits = 0
    MaxRuns = 2
    MaxFaults = 0
SPECIFICATION Spec
PROPERTY IndexSurvives
