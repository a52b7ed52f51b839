SPECIFICATION RecoverySpec
CONSTANTS
    w1 = w1
    w2 = w2
    w3 = w3
    w4 = w4
    q1 = q1
    q2 = q2
    Writers = {w1, w2, w3}
    Puts = {q1, q2}
    Size <- SizeThree
    MaxUpdate = 2
    Misread = 1
    Env = {"short", "sync", "crash", "close"}
    NoWriter = NoWriter
INVARIANTS ReadExact RecoveryComplete
SYMMETRY MCSymmetry
CHECK_DEADLOCK FALSE
