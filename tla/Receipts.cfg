SPECIFICATION LiveSpec
CONSTANTS
    c1 = c1
    c2 = c2
    c3 = c3
    c4 = c4
    stranger = stranger
    u1 = u1
    u2 = u2
    w1 = w1
    w2 = w2
    Ids <- MCIds
    Comms <- MCComms
    Customers <- MCCustomers
    CustomerOf <- MCCustomerOf
    EventTypes = {"sent", "delivered", "converted"}
    MaxTime = 2
    Batches <- MCBatches
    Workers = {w1, w2}
INVARIANTS
    OneEventPerKey
    StatusIsMaxOfLog
    LastEventCoversStatus
    ConversionsAreOrders
    AggregatesMatchOrders
    AnsweredIsLogged
    AcceptedOnce
    IInv
PROPERTIES
    NeverDowngraded
    RefinesLog
    RequestsFinish
