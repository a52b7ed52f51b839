SPECIFICATION Spec
CONSTANTS
    w1 = w1
    w2 = w2
    w3 = w3
    w4 = w4
    Writers = {w1, w2}
    Size <- SizeThree
    MaxUpdate = 2
    Misread = 1
    Env = {"crash"}
    NoWriter = NoWriter
INVARIANT AckedKept
CHECK_DEADLOCK FALSE
