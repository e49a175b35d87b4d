SPECIFICATION Spec
CONSTANTS
    ip = ip
    None = None
    Attempts = {r1, r2, r3, r4, r5, r6}
    Addresses = {ip}
    AddressOf <- MCAddressOf
    Limit = 2
    Window = 2
    MaxTime = 3
SYMMETRY MCSymmetry
INVARIANTS
    TypeOK
    AttemptsBound
    RefusalsEarned
CHECK_DEADLOCK FALSE
