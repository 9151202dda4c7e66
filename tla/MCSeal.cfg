SPECIFICATION FairSpec
CONSTANTS
    Splits <- TwoSplits
    Junk <- OneJunk
    MaxGen = 3
    MaxRecords = 4
INVARIANTS OneHierarchy KeyMatchesFile RetiredStaysRetired
PROPERTIES QuorumOnly UnsealHappens
