\* Events: two channels, two authors, a bound of two records, so that every queue fills up,
\* and blocking an author empties some queues and leaves others.
\* Rooms: two handles of one channel, two keys, one neighbour, one change of presence, a queue of one command.
\* Connections: two of them, dialled or accepted, a runner's queue of two commands.
\* Letters: a support message and a reply, two changes of the friend lists, two mishaps.
SPECIFICATION DeliverySpec
CONSTANTS
    alice = alice
    bob = bob
    x1 = x1
    x2 = x2
    x3 = x3
    l1 = l1
    l2 = l2
    Rooms = {r1, r2}
    Peers <- MCPeers
    Records <- MCRecords
    AuthorOf <- MCAuthorOf
    Cleared = Cleared
    Publishers = {p1}
    MaxRecords = 2
    Capacity = 1
    MaxPoll = 1
    RoomHandles = {r1, r2}
    Topics = {t1}
    RoomKeys = {x1, x2}
    Plain = Plain
    Neighbors = {n1}
    MaxPresence = 1
    MaxRoomQueue = 1
    MaxReports = 1
    Conns = {r1, r2}
    Remotes = {e1}
    MaxConnQueue = 2
    MaxTold = 2
    Letters = {l1, l2}
    Replies = {l2}
    MaxSwitches = 2
    MaxMishaps = 2
INVARIANTS
    DeliveryTypeOK
    QueuesAgree
    NothingUnwanted
    SealingKept
    TablesFollowRooms
    
    
    LettersTrue
PROPERTY
    LosesOldestOnly
SYMMETRY Alike
CHECK_DEADLOCK FALSE
