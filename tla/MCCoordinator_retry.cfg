\* One claim and its retry.
CONSTANTS
    d1 = d1  r1 = r1  r2 = r2  h1 = h1  h2 = h2
    None = None
    Node = {1, 2}
    Device = {d1}
    Request = {r1}
    RequesterOf <- RequesterOfAlone
    DeviceOf <- DeviceOfAlone
    Handler = {h1}
    DeadPeerAfter = 0
    NewClaimMinimum = 1
    ReleaseStartWait = 1
    MaxBudget = 2
SPECIFICATION Spec
PROPERTIES RetryNotRefusedByOwnLock
