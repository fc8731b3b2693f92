\* One request creates a link, another follows it.
SPECIFICATION Spec
SYMMETRY Symmetry
CONSTANTS
    Requests = {r1, r2}
    Codes = {c1}
    Dests = {d1}
    MaxAttempts = 2
    None = None
INVARIANT RedirectSurvivesAnalytics
