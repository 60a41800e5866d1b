SPECIFICATION Spec
CONSTANTS
    Writers = {w1, w2}
    MaxVersion = 3
    MaxCount = 2
    MaxSequence = 3
    MaxRevision = 6
SYMMETRY Processes
INVARIANTS
    TypeOK
    LinearLog
PROPERTIES
    SavesAreInformed
    DeletionStartsAtSeal
    ImplementsLog
