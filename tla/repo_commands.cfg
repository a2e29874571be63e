CONSTANTS
    i1 = i1
    i2 = i2
    n1 = n1
    e1 = e1
    e2 = e2
    e3 = e3
    p1 = p1
    p2 = p2
    w = w
    Ids = {i1, i2, Blank}
    Names = {n1}
    Emails = {e1, e2, e3}
    Phones = {p1, p2}
    Notes = {w}
    Times = {1, 2}
    Blank = Blank
    NoFile = NoFile
    Valid = {n1, e1, e2, p1, p2}
    MaxContacts = 2
    FileCap = 2
    Mask <- MCMask
    Additions <- MCAdditions
    Edits <- MCEdits
    Files <- MCFiles

SPECIFICATION Spec
INVARIANTS TypeOK UniqueKeys IndexTruthful BookExact
PROPERTIES MergeKeepsExisting
CONSTRAINT StillClean
CHECK_DEADLOCK FALSE
