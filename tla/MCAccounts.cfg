SPECIFICATION Spec
CONSTANTS
    alice = alice
    bob = bob
    ftp = ftp
    dropbox = dropbox
    User = {alice, bob}
    Nobody = Nobody
    Code = {c1, c2}
    Integration = {ftp, dropbox}
    Absent = Absent
    Blank = Blank
    Broken = Broken
    Befores <- MCBefores
    Limits <- MCLimits
INVARIANTS
    NotLockedOut
    LostForAReason
    CodesAgree
    ApprovedByUser
CHECK_DEADLOCK FALSE
PROPERTIES
    CodeEndsForAReason
