\* Two connections are up, and one of them breaks.
SPECIFICATION FairSpec
CONSTANTS
    ann = ann
    ben = ben
    t1 = t1
    t2 = t2
    t3 = t3
    t4 = t4
    Nodes = {ann, ben}
    Texts = {t1}
    Sender <- AnnWrites
    Conns = {c1, c2}
    NoConn = NoConn
    NoText = NoText
    StreamLimit = 2
    MaxFaults = 1
    DropFrames = FALSE
    LoseOne = TRUE
    BreakEarly = FALSE
PROPERTY
    Relinked
CHECK_DEADLOCK FALSE
