CONSTANTS
    v1 = v1
    v2 = v2
    Writers = {w1}
    Readers = {r1}
    Values = {v1, v2}
    Blocks = 2
    Inodes = {1, 2, 3}
    Faults = {"kill", "rename", "full", "power"}
    None = None
    Zero = Zero

SYMMETRY SameValues
VIEW InUse
CONSTRAINT OneFault
SPECIFICATION Spec
INVARIANTS TypeOK ReadsOneValue
PROPERTIES SuccessMeansStored RefinesAtomicFile
