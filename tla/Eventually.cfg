\* Events: one record, no bound on how often it is emitted again: one channel,
\* or the bounded channel, can always have something to deliver.
\* Presence: two visible states, three changes, a broken link, two frames dropped by the limiter.
\* Plugin: four starts and stops, two name-card jobs.
\* Limiter: two peers share one tracked bucket of two tokens, two concurrent callers, a clock of three ticks.
\* Sharing: one channel, sealed or not, and a friend; two files with the same bytes, two sessions,
\* one outcome of a forgotten download against two that the service keeps.
\* Calls: two friends, one call, two connections, two answers or hang-ups.
\* Binding: three events polled into two slots, a text that changes twice, two threads that dispose.
SPECIFICATION EventuallySpec
CONSTANTS
    alice = alice
    x1 = x1
    Rooms = {r1, r2}
    Peers = {alice}
    Records = {x1}
    AuthorOf <- OneAuthorOf
    Cleared = Cleared
    Publishers = {p1}
    MaxRecords = 1
    Capacity = 1
    MaxPoll = 2
    Visible = {online_, away}
    Invisible = invisible
    Silence = 3
    MaxChanges = 3
    MaxBreaks = 1
    MaxDrops = 2
    MaxFlight = 2
    MaxGeneration = 4
    Jobs = {1, 2}
    LimitedPeers = {a1, a2}
    Callers = {b1, b2}
    NoCall = NoCall
    Token = 2
    Rate = 1
    Burst = 2
    MaxTracked = 1
    NoticeEvery = 2
    MaxDelay = 1
    MaxClock = 3
    MaxFrames = 1
    Channels = {r1}
    Pal = pal_
    Bytes = {x1}
    FileLimit = 2
    EarlyLimit = 2
    MaxShares = 2
    MaxStrays = 1
    MaxSession = 2
    CallNodes = {a1, a2}
    CallIds = {1}
    MaxPaths = 2
    MaxUses = 2
    Emittable <- MCEmittable
    MaxEmitted = 3
    SlotCount = 2
    FirstRoom = 2
    MaxLength = 3
    MaxEdits = 2
    Disposers = {b1, b2}
INVARIANTS
    EventuallyTypeOK
    WorkersHeeded
    WaitsForReason
    SharesTrue
    
    BindingTrue
    FloodBounded
PROPERTIES
    EventsServed
    
CHECK_DEADLOCK FALSE
