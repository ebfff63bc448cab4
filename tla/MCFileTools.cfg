SPECIFICATION FileSpec
CONSTANTS
    Ops = {w, e1, e2}
    Writes = {w}
    Keys = {real, link}
    RealName = real
    None = None
    Original = Original
    Missing = Missing
    StartsMissing = FALSE
INVARIANTS
    NoStaleEntry
    FileExclusion
    NoLostEdit
PROPERTY ImplementsMutex
CHECK_DEADLOCK FALSE
