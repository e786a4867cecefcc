CONSTANTS
    a = a
    b = b
    m = m
    h1 = h1
    h2 = h2
    Files <- TwoFiles
    Names <- TwoFiles
    Base <- Basename
    MissingFiles <- NoneGone
    Silent = Silent
    NoFile = NoFile
    Handlers <- TwoHandlers
    Batches <- ABatches
    Configs <- AllConfigs
    PlaylistDirs <- NoDir
    MaxOps = 3
    MaxCrashes = 1
SPECIFICATION Spec
INVARIANTS TypeOK  NoRepeatInPass 
PROPERTIES RestartReplaysInOrder ClearedStaysSilent
CHECK_DEADLOCK FALSE
