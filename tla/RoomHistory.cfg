\* Two handles, one fetch, a line of a member and one of ours, room for one in the store.
SPECIFICATION Spec
CONSTANTS
    p1 = p1
    r1 = r1
    r2 = r2
    Handles = {h1, h2}
    Peers = {p1}
    Self = Self
    Records = {r1, r2}
    AuthorOf <- Authors
    Fetches = {f1}
    NoHandle = NoHandle
    NoRequest = NoRequest
    AnyRequest = AnyRequest
    MaxRecords = 1
    MaxProviders = 1
    MaxAsked = 3
    MaxWrites = 2
INVARIANTS
    TypeOK
    StoredShown
PROPERTY
    CancelledStoreNothing
SYMMETRY Alike
CHECK_DEADLOCK FALSE
