CONSTANTS
    MaxBlocks = 6
    MaxEdits = 2
    InitialDocs <- MCInitialDocs
SPECIFICATION Spec
CHECK_DEADLOCK FALSE
INVARIANTS
    TypeOK
    SavesAreAccepted
    NestingIsSaved
    OneEditIsSavedInOrder
    NestingIsRestored
PROPERTY KeysKeepTheText
