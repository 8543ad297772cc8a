CONSTANTS
    r1 = r1
    r2 = r2
    r3 = r3
    r4 = r4
    Registrations <- MCRegistrations
SPECIFICATION Spec
INVARIANT RInv
