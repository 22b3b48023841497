\* Two friends, two connections at once, one text, and any one thing that can go
\* wrong: a path, a single connection, a dial, a dropped frame, a process.
SPECIFICATION Spec
CONSTANTS
    ann = ann
    ben = ben
    t1 = t1
    t2 = t2
    t3 = t3
    t4 = t4
    Nodes = {ann, ben}
    Texts = {t1}
    Sender <- AnnWrites
    Conns = {c1, c2}
    NoConn = NoConn
    NoText = NoText
    StreamLimit = 1
    MaxFaults = 2
    DropFrames = TRUE
    LoseOne = TRUE
    BreakEarly = TRUE
INVARIANT
    TypeOK

    
CHECK_DEADLOCK FALSE
