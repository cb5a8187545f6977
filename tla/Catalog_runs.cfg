CONSTANTS
    Parts <- MCParts
    SourceOf <- MCSourceOf
    SourceSets <- MCSourceSets
    Harvests <- MCHarvests
    Pasts <- MCPasts
    MaxRuns = 3
    MaxDays = 2
    MaxCrashes = 1
SPECIFICATION Spec
INVARIANT TypeOK
PROPERTY DelistedWasMissed
INVARIANT SoloRunSettles
INVARIANT NoStrayDate
