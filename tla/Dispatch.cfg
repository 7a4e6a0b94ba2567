SPECIFICATION LiveSpec
CONSTANTS
    r1 = r1
    r2 = r2
    Workers <- MCWorkers
    Comms <- MCComms
    BatchSize = 2
CHECK_DEADLOCK FALSE
INVARIANTS
    IInv
    PostedIsNotDraft
    ActiveMeansHanded
    OnlyRacesSendTwice
    ExecutedIsApproved
PROPERTIES
    WalksForward
    RequestsEnd
