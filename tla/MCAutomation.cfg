CONSTANTS
    i1 = i1
    alice = alice
    bob = bob
    e1 = e1
    e2 = e2
    None = None
    Capacity = 1
    Retries = 1
    HistorySize = 1
    MaxSubs = 2
    MaxRestarts = 1
    Id <- MCId
    User <- MCUser
    Event <- MCEvent
    EventUser <- MCEventUser
SPECIFICATION Spec
CHECK_DEADLOCK FALSE
INVARIANTS DiskLoads OneDeliveryPerEvent SubscribedOnce
PROPERTIES QueuedIsHandled
