CONSTANTS
    pa = pa
    pb = pb
    i1 = i1
    i2 = i2
    n1 = n1
    e1 = e1
    e2 = e2
    p1 = p1
    p2 = p2
    Procs = {pa, pb}
    Kinds = {"list", "add", "edit", "delete", "import", "merge"}
    Ids = {i1, i2}
    Names = {n1}
    Emails = {e1, e2}
    Phones = {p1, p2}
    Notes = {}
    Times = {1, 2}
    Today = 1
    Files <- MCFiles
    Merges = {"prefer-newer"}
    Blank = Blank
    NoFile = NoFile
    Nobody = Nobody
    Stale = Stale
    Valid = {n1, e1, e2, p1, p2}
    MaxContacts = 2
    Additions <- MCAdditions
    Edits <- MCEdits

SPECIFICATION Spec
SYMMETRY Alike
CONSTRAINT Undamaged
INVARIANTS TypeOK UniqueKeys IndexTruthful LockExcludes
