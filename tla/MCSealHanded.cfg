SPECIFICATION Spec
CONSTANTS
    Splits <- OneSplit
    Junk <- NoJunk
    MaxGen = 2
    MaxRecords = 4
INVARIANT HoldersKeepAccess
