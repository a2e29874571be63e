CONSTANTS
    v1 = v1
    v2 = v2
    Writers = {w1, w2}
    Readers = {r1}
    Values = {v1, v2}
    Blocks = 2
    Inodes = {1, 2, 3, 4, 5}
    Faults = {}
    None = None
    Zero = Zero

SPECIFICATION Spec
INVARIANTS FileIsWhole
