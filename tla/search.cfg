CONSTANTS
    Savers = {s1}
    Searchers = {r1}
    None = None
    Versions <- MCVersions
    Queries <- MCQueries

SPECIFICATION Spec
CONSTRAINT Unexposed
INVARIANTS TypeOK IndexHonest AnswerRight
