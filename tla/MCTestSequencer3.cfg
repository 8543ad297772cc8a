CONSTANTS
    c1 = c1
    c2 = c2
    c3 = c3
    Clients <- MCClients3
    NumNodes = 2
    MaxTests = 1
    None = None
SYMMETRY MCSymmetry
SPECIFICATION Spec
INVARIANT TypeOK
INVARIANT MutualExclusion
INVARIANT IdleAfterTraffic
PROPERTY ImplementsSlot
