\* An invite is presented before its row is written, and again after a restart.
SPECIFICATION Spec
CONSTANTS
    Peers = {p1}
    Secrets = {s1}
    NoSecret = NoSecret
    NoPeer = NoPeer
    MaxQueue = 2
    MaxRestarts = 1
INVARIANT
    EveryInviteSingleUse
