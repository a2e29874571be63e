CONSTANTS
    pa = pa
    pb = pb
    i1 = i1
    i2 = i2
    i3 = i3
    n1 = n1
    bad = bad
    e1 = e1
    e2 = e2
    p1 = p1
    p2 = p2
    Procs = {pa, pb}
    Nobody = Nobody
    Ids = {i1, i2, i3}
    Names = {n1, bad}
    Emails = {e1, e2}
    Phones = {p1, p2}
    Blank = Blank
    Unread = Unread
    Valid = {n1, e1, e2, p1, p2}
    Additions <- MCAdditions
    Changes <- MCChanges
    Files <- MCFiles

SPECIFICATION Spec
SYMMETRY Alike
INVARIANTS TypeOK KeySearchIsScan HistoryComplete
PROPERTIES ImportAllOrNothing SqlRefinesStore RocksRefinesStore
