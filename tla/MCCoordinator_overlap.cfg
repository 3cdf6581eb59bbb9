\* Two overlapping calls of HandleClaim on one device.
CONSTANTS
    d1 = d1  r1 = r1  r2 = r2  h1 = h1  h2 = h2
    None = None
    Node = {1, 2}
    Device = {d1}
    Request = {r1, r2}
    RequesterOf <- RequesterOfPair
    DeviceOf <- DeviceOfPair
    Handler = {h1, h2}
    DeadPeerAfter = 1
    NewClaimMinimum = 1
    ReleaseStartWait = 1
    MaxBudget = 2
SPECIFICATION Spec
SYMMETRY HandlerSymmetry
INVARIANTS TypeOK ReleaseExclusive LockBacksProtection
PROPERTIES ImplementsLease NoPeerOnlyForCause
