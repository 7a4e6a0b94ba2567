SPECIFICATION Spec
CONSTANTS
    a = a
    b = b
    o1 = o1
    o2 = o2
    w1 = w1
    w2 = w2
    Customers = {a, b}
    OrderIds = {o1, o2}
    MaxTime = 2
    Requests <- MCRequests
    Workers = {w1, w2}
INVARIANTS
    IInv
    CountersSinceFigures
    AnswersAddUp
