SPECIFICATION RegistrySpec
CONSTANTS
    Docs = {d1, d2, d3}
    Tasks = {t1, t2}
    Updates = {u1}
    MaxRooms = 1
    MaxOpens = 4
    Env = {"idle", "error"}
    NoDoc = NoDoc
INVARIANTS RoomsBounded RoomCurrent
CHECK_DEADLOCK FALSE
