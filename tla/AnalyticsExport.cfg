CONSTANTS
    Replicas = {r1, r2}
    NumEvents = 2
    Batches = {{1, 2}, {2}}
    Limit = 1
    MaxIds = 2
    MaxChoices = 2
    MaxFaults = 1
    None = None
SPECIFICATION FairSpec
CHECK_DEADLOCK FALSE
INVARIANT AcceptedIsKept
INVARIANT CursorPassesSent
PROPERTY EveryRowLeaves
PROPERTY OptOutDeletes
