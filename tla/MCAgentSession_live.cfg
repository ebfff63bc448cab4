SPECIFICATION Spec
CONSTANTS
    Texts = {t1, t2}
    Prompted = {t1}
    Bashes = {}
    Callers = {c1}
    Api = {"abort", "steer", "followUp"}
    Outcomes = {"stop", "toolUse", "retryable", "overflow"}
    MaxResponses = 3
    MaxCompactions = 1
    MaxRetries = 1
    RetryEnabled = TRUE
    CompactionEnabled = TRUE
    StreamFails = FALSE
    None = None
INVARIANTS PersistedOnceInOrder QuietAgreement
PROPERTY PromptReturns
CHECK_DEADLOCK FALSE
