SPECIFICATION Spec
CONSTANTS
    Processes = {p1, p2}
    MaxCredentials = 3
    LockFaults = {"interrupted"}
    u1 = u1
    u2 = u2
    theme = theme
    retry = retry
    model = model
    Fields = {theme, retry, model}
    Users = {u1, u2}
    Owner <- TwoAndOne
    MaxSets = 3
    LockFails = TRUE
    NoFile = NoFile
    TogetherAtFirst = FALSE
    Consumers = {c1, c2, c3}
    MaxEvents = 3
    Tasks = 3
    Graphs <- Definitions
    OnFailure = {"stop", "continue"}
    ConfigRetries = 2
    Prompts = {q1}
    Queries = {q2}
    IdleWaiters = {w1}
    NoPrompt = NoPrompt
    MaxMessages = 6
    MaxAnswerCalls = 2
    Resumed = FALSE
    Units <- Keys
    MaxUnits = 3
    Hasty = FALSE
    ServerFaults = {"crash", "retry"}
INVARIANTS
    RefreshesSound
    SettingsKept
    EventsDelivered
    WorkflowSound
    NothingLeaks
    RequestsComplete
    SequencesWhole
PROPERTIES
    IterationEnds
    ExecutionEnds
    EverythingSettles
CHECK_DEADLOCK FALSE
