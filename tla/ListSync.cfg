SPECIFICATION SyncSpec
CONSTANTS
    Client = {tab}
    Message = {"item", "list"}
    BroadcastCap = 1
    SendCap = 2
    WireCap = 1
    Item = {i1}
    Call = {q1}
INVARIANTS
    SyncSound
    SteadySeesAll
CHECK_DEADLOCK FALSE
