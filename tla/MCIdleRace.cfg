CONSTANTS
    c1 = c1
    c2 = c2
    c3 = c3
    Clients <- MCClients2
    NumNodes = 2
    MaxTests = 1
    None = None
SPECIFICATION Spec
INVARIANT IdleMeansNoTraffic
