SPECIFICATION Spec
CONSTANTS
    UserMsgs = {u1, u2, u3}
    ToolExecution = "sequential"
    QueueMode = "one-at-a-time"
    Api = {"steer", "followUp", "abort", "continue"}
    MaxTurns = 1
    MaxCalls = 2
    ListenersFail = FALSE
    StreamFails = FALSE
    None = None
INVARIANTS
    ResultsInSourceOrder
    QueuedOnceInOrder
CHECK_DEADLOCK FALSE
