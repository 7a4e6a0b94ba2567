SPECIFICATION LiveSpec
CONSTANTS
    m1 = m1
    m2 = m2
    Messages <- MCMessages
    Plans <- MCPlans
    Tasks = {1, 2}
    Attempts = 2
    MaxStops = 1
CHECK_DEADLOCK FALSE
PROPERTIES
    DeliveriesSurviveRestarts
