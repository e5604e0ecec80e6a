SPECIFICATION Spec
CONSTANTS
    Kinds = {"plain", "remote", "gfx"}
    FrameFile = {TRUE, FALSE}
    Cards <- SmallCards
    MaxDates = 2
    EventBytes = 164
    MaxConns = 2
    MaxNotices = 2
    MaxOpens = 2
    MaxChanges = 1
INVARIANTS
    ImportGated
    ImportExact
    RemoteSafe
PROPERTIES
    StreamStarts
CHECK_DEADLOCK FALSE
