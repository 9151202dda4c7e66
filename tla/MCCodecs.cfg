CONSTANTS
    Reduction <- Fields
    Splits <- SmallSplits
    MaxDepth = 2
    MaxPlaintext = 1
    Alphabet <- Pieces
    Longest <- Lengths
    Continues <- Undecided
    Anchors <- Starts
SPECIFICATION Spec
INVARIANTS
    ThresholdDecides
    TimesAreExact
    SpelledOnce
    NamesNeedNoEscape
    ExportImports
    RecordsReadBack
    OpensInItsSlotOnly
    ReadsTheGrammar
CHECK_DEADLOCK FALSE
