\* One peer, one invite, three commands waiting, one restart.
SPECIFICATION Spec
CONSTANTS
    Peers = {p1}
    Secrets = {s1}
    NoSecret = NoSecret
    NoPeer = NoPeer
    MaxQueue = 3
    MaxRestarts = 1
INVARIANTS
    TypeOK
    TablesFollow
    InviteSingleUse
PROPERTY
    BlockedStayOut
