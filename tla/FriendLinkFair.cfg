\* Two friends, two connections at once, one text; once, the path breaks, a dial
\* fails or a process dies.
SPECIFICATION FairSpec
CONSTANTS
    ann = ann
    ben = ben
    t1 = t1
    t2 = t2
    t3 = t3
    t4 = t4
    Nodes = {ann, ben}
    Texts = {t1}
    Sender <- AnnWrites
    Conns = {c1, c2}
    NoConn = NoConn
    NoText = NoText
    StreamLimit = 2
    MaxFaults = 1
    DropFrames = FALSE
    LoseOne = FALSE
    BreakEarly = FALSE
INVARIANT
    NoTextForgotten
PROPERTIES
    TextsDelivered
    Relinked
CHECK_DEADLOCK FALSE
