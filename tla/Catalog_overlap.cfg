CONSTANTS
    Parts <- MCParts
    SourceOf <- MCSourceOf
    SourceSets <- MCSourceSets
    Harvests <- MCHarvests
    Pasts <- MCPasts
    MaxRuns = 3
    MaxDays = 2
    MaxCrashes = 0
SPECIFICATION Spec
INVARIANT LastScrapeDecides
