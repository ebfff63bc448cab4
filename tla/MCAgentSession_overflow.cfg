SPECIFICATION Spec
CONSTANTS
    Texts = {t1, t2}
    Prompted = {t1, t2}
    Bashes = {}
    Callers = {c1}
    Api = {"compact"}
    Outcomes = {"overflow", "retryable", "fatal"}
    MaxResponses = 7
    MaxCompactions = 1
    MaxRetries = 1
    RetryEnabled = TRUE
    CompactionEnabled = TRUE
    StreamFails = FALSE
    None = None
INVARIANTS RequestsBounded
CHECK_DEADLOCK FALSE
