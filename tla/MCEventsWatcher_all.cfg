SPECIFICATION WatcherSpec
CONSTANTS
    MaxPosts = 2
    MaxQueue = 1
    MaxRestarts = 1
    MaxHistory = 1
    Files = {f1}
    Kinds = {"immediate", "one-shot", "periodic", "bad", "bad periodic"}
    MaxWrites = 2
    MaxInputs = 2
    MaxFirings = 2
    NoEvent = NoEvent
INVARIANTS OneAtATime MessagesKept EventsOnSchedule
 
CHECK_DEADLOCK FALSE
