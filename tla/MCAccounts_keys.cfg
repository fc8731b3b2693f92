SPECIFICATION FairSpec
CONSTANTS
    Requests = {r1, r2, r3, r4}
    Emails = {e1, e2}
    BadKeys = {}
    Limit = 1
    MaxWindows = 2
    DiesAt = {"creating_key", "refreshing", "issuing", "answering"}
    None = None
CHECK_DEADLOCK FALSE
INVARIANTS
    TypeOK
    EmailsStayUnique
    ActiveKeyRemains
    RotatedAwayIsDead
    AtMostLimitPerWindow
PROPERTIES
    KeysChangeByTheirOwner
    EveryRequestEnds
