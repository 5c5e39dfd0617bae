SPECIFICATION Spec
CONSTANTS
    Ids = {i1, i2}
    MaxLines = 4
INVARIANTS TypeOK FinalChunkIsLast ValidatedWhole ShownOnce CallbackFirst
SYMMETRY Symmetry
