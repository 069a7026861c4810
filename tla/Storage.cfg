SPECIFICATION FairSpec
CONSTANTS
    NumChains = 2
    OwnGenesis <- MCOwnGenesis
    Nets <- MCNets
    RawMaxes <- MCRawMaxes
    Lengths <- MCLengths
    Missing = Missing
    Lost = Lost
    MaxBlocks = 5
    MaxCrashes = 2
INVARIANTS TypeOK RunningIsWhole SizeMatchesFile
PROPERTIES StoresBlocks RawFilesForGood Restartable
CHECK_DEADLOCK FALSE
