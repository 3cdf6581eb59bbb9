\* Two overlapping calls of HandleClaim on one device: liveness.
CONSTANTS
    d1 = d1  r1 = r1  r2 = r2  h1 = h1  h2 = h2
    None = None
    Node = {1, 2}
    Device = {d1}
    Request = {r1, r2}
    RequesterOf <- RequesterOfPair
    DeviceOf <- DeviceOfPair
    Handler = {h1, h2}
    DeadPeerAfter = 0
    NewClaimMinimum = 1
    ReleaseStartWait = 0
    MaxBudget = 1
SPECIFICATION FairSpec
PROPERTIES EveryClaimAnswered BusyJustified
