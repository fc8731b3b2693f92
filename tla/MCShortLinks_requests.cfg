\* Four requests, two codes, so that codes are taken, and two destinations.
SPECIFICATION Spec
SYMMETRY Symmetry
CONSTANTS
    Requests = {r1, r2, r3, r4}
    Codes = {c1, c2}
    Dests = {d1, d2}
    MaxAttempts = 2
    None = None
INVARIANTS TypeOK CodesStayUnique ClicksAreRecorded
PROPERTIES DeletedStaysDeleted OnlyUpdatesRedirect
