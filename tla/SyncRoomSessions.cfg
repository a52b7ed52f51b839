SPECIFICATION Spec
CONSTANTS
    p1 = p1
    p2 = p2
    c1 = c1
    c2 = c2
    c3 = c3
    u1 = u1
    u2 = u2
    NoConn = NoConn
    Stopped = Stopped
    NoUpdate = NoUpdate
    Peers = {p1, p2}
    Conns = {c1, c2, c3}
    PeerOf <- PeerOfTwo
    Updates = {u1}
    Author <- AuthorOne
    Deps <- DepsOne
    ChanCap = 2
    MaxPeers = 1
    SnapshotEvery = 9
    Receipts = TRUE
    Stalls = {}
    Env = {"close", "expire", "timeout", "presence", "heartbeat", "flood"}
INVARIANTS SessionCap LiveOrSignalled
CHECK_DEADLOCK FALSE
