SPECIFICATION FairReplaceSpec
CONSTANTS
    FILES <- MCFILES
    STAGED <- MCSTAGED
    Absent = Absent
    MaxGeneration = 2
    MaxStops = 3
INVARIANTS ReplaceTypeOK OpensOneGeneration NeverRefused
PROPERTIES RefinesVaultSwap Reopens
CHECK_DEADLOCK FALSE
