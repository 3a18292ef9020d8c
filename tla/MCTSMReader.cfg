CONSTANTS
    Readers = {r1, r2}
    Entries <- MCEntries
    Methods = {"float", "integer"}
    FileLen = 10
    MaxCloses = 2
    MaxRenames = 1

SPECIFICATION Spec

INVARIANT TypeOK
INVARIANT NoReadOfUnmapped
PROPERTY ContractSpec
PROPERTY CloseCompletes
