CONSTANTS
    a1 = a1
    b1 = b1
    devA = devA
    devB = devB
    alice = alice
    bob = bob
    n1 = n1
    n2 = n2
    n3 = n3
    NoDevice = NoDevice
    QueueSize = 1
    Conn <- MCConn
    UserOf <- MCUserOf
    DeviceOf <- MCDeviceOf
    Note <- MCNote
    NoteUser <- MCNoteUser
    NoteFrom <- MCNoteFrom
SPECIFICATION HubSpec
CHECK_DEADLOCK FALSE
INVARIANTS NoSendOnClosed DeliveredInOrder MissedOnlyByClosing
PROPERTIES QueuedIsDispatched
