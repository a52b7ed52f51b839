SPECIFICATION Spec
CONSTANTS
    Writers = {w1, w2, w3, w4}
    Env = {"error", "close", "crash"}
    NoNumber = NoNumber
    NoWriter = NoWriter
INVARIANTS NoGap ReadComplete
PROPERTY ImplementsOpLog
CHECK_DEADLOCK FALSE
