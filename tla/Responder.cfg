SPECIFICATION Spec
CONSTANTS
    rw = rw
    hidden = hidden
    Props <- MCProps
    InvisibleProps <- MCInvisible
    UnknownProp = unknown
    Values = {v1, v2}
    Empty = Empty
    NoData = NoData
    NoReq = NoReq
    MaxTid = 3
    Careless = FALSE
INVARIANTS
    PipelineSound
PROPERTIES
    TransactionCompletes
    ImplementsServer
