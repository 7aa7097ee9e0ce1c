SPECIFICATION Spec
CONSTANTS
    SectionSize = 8
    RamLast = 4095
    LedStart = 12288
    LcdStart = 8192
    FbWidth = 2
    FbHeight = 2
    Stores <- MCStores
    Knobs <- MCKnobs
    RowCount = 16
    Places <- MCPlaces
    CellCounts = {1, 2}
    Typed <- MCTyped
    Lines <- AllLines
    Files <- MCFiles
    Images <- MCImages
    Xlen = 32
    StartAddress = 512
    MaxLength = 3
INVARIANTS
    ImageMatchesSource
    SymbolsMatch
    WordsAreFlat
    DevicesShown
    TextReadsBack
    ViewsCurrent
    AddressesFound
CHECK_DEADLOCK
    FALSE
