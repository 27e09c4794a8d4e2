CONSTANTS
    Keys <- MCKeys
    KeyPrefixes <- MCPrefixes
    Values = {1}
    Absent = Absent
    U8MAX = 1
    MaxOperations = 3
SPECIFICATION Spec
INVARIANTS
    BatchesAreEquivalent
    EachKeyOnce
