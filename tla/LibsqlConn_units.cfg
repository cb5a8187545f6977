CONSTANTS
    Units <- MCUnits
    Programs <- MCPrograms
    Kind <- MCKind
    Ops <- MCOps
    Fatal <- MCFatal
    MaxAttempts = 4
    MaxRedo = 3
    NumRows = 2
    FetchAttempts = 4
    MaxLosses = 3
SPECIFICATION MCSpec
CHECK_DEADLOCK FALSE
INVARIANT TypeOK
INVARIANT NoTornUnit
INVARIANT AppendOnce
INVARIANT FlagOnlyInsideBlock
INVARIANT RowsAreAPrefix
INVARIANT WriteRunsOnce
INVARIANT BlockStaysOnItsStream
PROPERTY EveryUnitEnds
PROPERTY ImplementsAtomicStore
