SPECIFICATION FairSpec
CONSTANTS
    d1 = d1
    d2 = d2
    c1 = c1
    Posts = {p1}
    Operators = {o1, o2}
    Natives = {n1}
    Houses = {h1}
    Documents = {d1, d2}
    Contents = {c1}
    Translate <- MCTranslate
    Rows = {r1, r2}
    NoOne = NoOne
    NoHouse = NoHouse
    NoDocument = NoDocument
    NoContent = NoContent
    NoRow = NoRow
    Faults = {"error", "lost", "v1lost"}
INVARIANTS TypeOK ProcessedIsCopied OneRowPerContent NoOrphanRow
PROPERTIES CopiesAreFinal CopiesEnd
CHECK_DEADLOCK FALSE
