CONSTANTS
    Readers = {r1, r2}
    Entries <- MCEntriesShort
    Methods = {"float", "integer"}
    FileLen = 10
    MaxCloses = 0
    MaxRenames = 0

SPECIFICATION Spec

INVARIANT NoPanic
