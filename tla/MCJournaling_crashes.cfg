CONSTANTS
    a = a
    b = b
    Absent = Absent
    Keys = {1, 2, 3, 4, 5}
    Values = {a, b}
    Batches <- MCBatches
    KeyLen = 2
    ValueLen <- MCValueLen
    MAX_BATCH_SIZE = 4
    MAX_BATCH_TOTAL_SIZE = 40
    MAX_VALUE_SIZE = 24
    Writers = {1}
    MaxBlocks = 5
    is_root_context = TRUE
    TransientErrors = {"opening", "writing"}
SPECIFICATION Spec
INVARIANTS
    TypeOK
    JournalIsComplete
    WritesFitTheStore
PROPERTIES
    WritesAreAtomic
    JournalIsResolved
