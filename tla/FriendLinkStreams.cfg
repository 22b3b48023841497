\* Both friends have texts waiting, more than the transport lets a side send
\* before the other reads.
SPECIFICATION FairSpec
CONSTANTS
    ann = ann
    ben = ben
    t1 = t1
    t2 = t2
    t3 = t3
    t4 = t4
    Nodes = {ann, ben}
    Texts = {t1, t2, t3, t4}
    Sender <- BothWrite
    Conns = {c1}
    NoConn = NoConn
    NoText = NoText
    StreamLimit = 1
    MaxFaults = 0
    DropFrames = FALSE
    LoseOne = FALSE
    BreakEarly = FALSE
PROPERTY
    TextsDelivered
CHECK_DEADLOCK FALSE
