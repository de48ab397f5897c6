SPECIFICATION Spec
CONSTANTS
    Posts = {q1}
    Natives = {n1}
    Savers = {s1, s2}
    PolicyIds = {p1}
    s2 = s2
    Documents = {d1}
    EmptyLabel = empty
    NoLabel = null
    Labels = {null, a}
    PolicyLabels = {null}
    r1 = r1
    r2 = r2
    Releases = {r1, r2}
    c1 = c1
    c2 = c2
    Contents = {c1, c2}
    Translate <- MCTranslate
    NoPolicy = NoPolicy
    NoId = NoId
    NoContent = NoContent
    Release <- MCRelease
    Certified = {r1}
    Faults = {"error", "lost", "v1lost"}
    SavedIds = {u1}
    Users = {x}
    MaxRevision = 2
    NoSaved = NoSaved
    NoCopy = NoCopy
    NoOne = NoOne
INVARIANTS ProcessedIsCopied NameIsOfItsRevision NothingLeftBehind NoConflict NoWaitCycle
PROPERTIES CopyAdvances
CHECK_DEADLOCK FALSE
