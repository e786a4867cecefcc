CONSTANTS
    a = a
    b = b
    m = m
    h1 = h1
    h2 = h2
    Files <- ThreeFiles
    Names <- ThreeFiles
    Base <- Basename
    MissingFiles <- Gone
    Silent = Silent
    NoFile = NoFile
    Handlers <- OneHandler
    Batches <- LBatches
    Configs <- LoopOrNot
    PlaylistDirs <- SomeDir
    MaxOps = 3
    MaxCrashes = 1
SPECIFICATION FairSpec
PROPERTY EveryTrackReturns
CHECK_DEADLOCK FALSE
