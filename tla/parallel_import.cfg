CONSTANTS
    i1 = i1
    n1 = n1
    e1 = e1
    e2 = e2
    e3 = e3
    p1 = p1
    p2 = p2
    p3 = p3
    Ids = {i1}
    Names = {n1}
    Emails = {e1, e2, e3}
    Phones = {p1, p2, p3}
    Notes = {}
    Times = {1}
    Blank = Blank
    Valid = {n1, e1, e2, p1, p2, p3}
    MaxContacts = 4
    Workers = {t1, t2, t3}
    Inputs <- MCInputs
    Books <- MCBooks

SPECIFICATION Spec
INVARIANTS TypeOK ResultAcceptable NoClashInside
PROPERTIES Terminates
CHECK_DEADLOCK FALSE
