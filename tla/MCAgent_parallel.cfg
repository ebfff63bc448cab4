SPECIFICATION Spec
CONSTANTS
    UserMsgs = {u1, u2}
    ToolExecution = "parallel"
    QueueMode = "one-at-a-time"
    Api = {"steer", "followUp", "abort", "continue"}
    MaxTurns = 2
    MaxCalls = 2
    ListenersFail = FALSE
    StreamFails = TRUE
    None = None
INVARIANTS
    TypeOK
    TranscriptsAgree
    EveryCallAnswered
    PendingCallsAccurate
PROPERTY FollowsContract
CHECK_DEADLOCK FALSE
