SPECIFICATION Spec
CONSTANTS
    UserMsgs = {u1, u2}
    ToolExecution = "parallel"
    QueueMode = "all"
    Api = {"abort", "continue", "clear", "reset"}
    MaxTurns = 1
    MaxCalls = 2
    ListenersFail = TRUE
    StreamFails = TRUE
    None = None
INVARIANT IdleIsClean
PROPERTY RunSettles
CHECK_DEADLOCK FALSE
