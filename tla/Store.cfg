\* Snapshots: two handles, a member's line and one of ours, room for one of them, one snapshot in the cache, two moves of the revision.
\* Devices: two devices, two users, two seconds, three publications.
\* Schema: two nodes open a database of two versions, up to four lives, one failing statement, one damaged key.
\* Invites: two of one inviter, of which the plugin remembers one; two accepts; two nodes; a channel for one event.
SPECIFICATION StoreSpec
CONSTANTS
    p1 = p1
    r1 = r1
    r2 = r2
    Peers = {p1}
    Self = Self
    Records = {r1, r2}
    AuthorOf <- Authors
    MaxRecords = 1
    Handles = {h1, h2}
    Writers = {w1}
    NoRecord = NoRecord
    MaxSnapshots = 1
    MaxRevision = 2
    Devices = {h1, h2}
    Users = {u1, u2}
    NoUser = NoUser
    MaxTime = 1
    MaxPublish = 3
    Openers = {h1, h2}
    Creates <- TwoBatches
    NoKey = NoKey
    BadKey = BadKey
    MaxLives = 4
    MaxFailures = 1
    MaxDamage = 1
    Invites = {h1, h2}
    Inviters = {p1}
    InviterOf <- OneInviter
    InboxCapacity = 2
    SenderCapacity = 2
    IgnoreCapacity = 1
    WindowLimit = 1
    SenderWindowLimit = 1
    MaxAccepts = 2
    MaxWaiting = 1
    MaxNodes = 2
INVARIANTS
    StoreTypeOK
    CacheCurrent
    ListsTrue
    InboxTrue
    StoreSound
SYMMETRY Alike
CHECK_DEADLOCK FALSE
