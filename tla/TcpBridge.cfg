SPECIFICATION BridgeSpec
CONSTANTS
    Servers = {"ptpip", "fuji"}
    Operations = {"plain", "read", "write", "refused", "chunked", "unsent"}
    MaxRequests = 3
    MaxConns = 2
INVARIANTS
    BridgeSound
    RepliesInOrder
PROPERTIES
    ServerResponds
CHECK_DEADLOCK FALSE
