CONSTANTS
    a = a
    b = b
    c1 = c1
    c2 = c2
    c3 = c3
    Files <- TwoFiles
    NoFile = NoFile
    Calls <- ThreeCalls
    NoCall = NoCall
SPECIFICATION FairSpec
INVARIANTS TypeOK OneDeckFeeder 
 
