\* A peer is blocked while it presents an invite; nothing else goes wrong.
SPECIFICATION Spec
CONSTANTS
    Peers = {p1}
    Secrets = {s1}
    NoSecret = NoSecret
    NoPeer = NoPeer
    MaxQueue = 2
    MaxRestarts = 0
INVARIANT
    BlockedNotFriends
