\* Announcements: two signing processes, two numbers, two members, one of them joined by another program.
\* Files: two files of one peer, one permit and one place, two destinations, one lost event.
SPECIFICATION NodeSpec
CONSTANTS
    a1 = a1
    a2 = a2
    b1 = b1
    b2 = b2
    p1 = p1
    Signers = {a1, a2}
    NoSigner = NoSigner
    MaxSeq = 2
    Members = {b1, b2}
    Joiners = {j1}
    Program = Program
    Strangers = {x}
    Reoffered = 1
    Blobs = {a1, a2}
    Senders = {p1}
    SenderOf <- OneSender
    Slots = 1
    PeerCapacity = 2
    MaxPaths = 2
    MaxLosses = 1
INVARIANTS
    NodeTypeOK
    AnnouncementsTrue
    TransfersEnd
    ForgottenSignalled
    OffersTrue
SYMMETRY Alike
CHECK_DEADLOCK FALSE
