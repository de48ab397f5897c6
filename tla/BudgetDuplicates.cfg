SPECIFICATION Spec
CONSTANTS
    p1 = p1
    p2 = p2
    j1 = j1
    j2 = j2
    Requests = {p1, p2}
    Jobs = {j1, j2}
    NoOne = NoOne
    NoJob = NoJob
    ClaimAttempts = 3
    Regimes = {{"outage"}}
SYMMETRY Symmetry
INVARIANTS OneBatch
