SPECIFICATION Spec
CONSTANTS
    alice = alice
    bob = bob
    Clients <- MCClients
    Max = 2
    Window = 3
    MaxNow = 9
SYMMETRY Symmetry
CHECK_DEADLOCK FALSE
INVARIANTS
    WindowBound
    IInv
PROPERTIES
    OnlyOverQuotaRefused
