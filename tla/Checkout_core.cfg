SPECIFICATION FairSpec
CHECK_DEADLOCK FALSE
CONSTANTS
    o1 = o1
    o2 = o2
    o3 = o3
    A = A
    B = B
    alice = alice
    bob = bob
    w1 = w1
    w2 = w2
    Orders = {o1, o2, o3}
    Codes = {A, B}
    Cart <- ThreeCarts
    CouponCap = 2
    CodeCap = 1
    OncePerCustomer = TRUE
    Customers = {alice, bob}
    Workers = {w1, w2}
    Payers = {o2}
    Retries = 2
    FaultKinds = {"database", "engine", "process"}
    MaxCalls = 1
    MaxFaults = 1
INVARIANTS
    TypeOK
    CapacityHeld
    OrderSettledOnce
    OneTimeIsDiscounted
PROPERTIES
    QueuedRunCompletes
