SPECIFICATION Spec
CONSTANTS
    q1 = q1
    q2 = q2
    q3 = q3
    Requests = {q1, q2, q3}
    s1 = s1
    s2 = s2
    Sims = {s1, s2}
    r1 = r1
    r2 = r2
    Calls <- MCCalls
    Population <- MCPopulation
    Stored <- MCStored
    FirstNewId = 4
    Outputs <- MCOutputs
    NoOne = NoOne
    NoRun = NoRun
    NoOutput = NoOutput
    Legacy = Legacy
    Uncertified = Uncertified
INVARIANTS RunMirrorsRecord WaitsAreOrdered
PROPERTIES FinishedReportsAreKept
