SPECIFICATION Spec
CONSTANTS
    p1 = p1
    p2 = p2
    c1 = c1
    c2 = c2
    c3 = c3
    u1 = u1
    u2 = u2
    NoConn = NoConn
    Stopped = Stopped
    NoUpdate = NoUpdate
    Peers = {p1, p2}
    Conns = {c1, c2, c3}
    PeerOf <- PeerOfTwo
    Updates = {u1, u2}
    Author <- AuthorChain
    Deps <- DepsChain
    ChanCap = 2
    MaxPeers = 2
    SnapshotEvery = 2
    Receipts = TRUE
    Stalls = {}
    Env = {"append", "maint", "crash", "close"}
INVARIANTS TypeOK WelcomeFirst NoUpdateMissed RelayedIsDurable ConfirmedIsDurable
PROPERTY AuthorityKept
CHECK_DEADLOCK FALSE
