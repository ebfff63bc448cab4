SPECIFICATION Spec
CONSTANTS
    Texts = {t1, t2, t3}
    Prompted = {t1}
    Bashes = {b1}
    Callers = {c1}
    Api = {"steer", "followUp", "clear"}
    Outcomes = {"stop", "toolUse", "retryable", "fatal"}
    MaxResponses = 3
    MaxCompactions = 1
    MaxRetries = 2
    RetryEnabled = TRUE
    CompactionEnabled = FALSE
    StreamFails = TRUE
    None = None
INVARIANT MirrorAgreement
PROPERTY RetryAwaited
PROPERTY OnlyFailuresDropped
PROPERTY FollowsContract
CHECK_DEADLOCK FALSE
