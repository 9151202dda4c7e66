SPECIFICATION Spec
CONSTANTS
    Keys = {k1, k2}
    Payloads = {a}
    MaxItems = 3
    MaxRewrites = 1
    EntryFlushed = TRUE
INVARIANTS TypeOK Replayable PromisedKept CountIsPosition
PROPERTIES AckedSurvive CompactionAtomic ImplementsDurableLog
