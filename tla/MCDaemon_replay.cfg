\* One connection; one release is for a device that is not configured.
CONSTANTS
    c1 = c1  q1 = q1  x1 = x1  x2 = x2  d1 = d1  d2 = d2
    None = None
    Conn = {c1}
    ClientRequest = {q1}
    Device = {d1, d2}
    Configured = {d1}
    Release = {x1, x2}
    ReleasedDevice <- OtherDevice
    MaxBudget = 2
    ReplayTime = 3
    ReleaseTTL = 2
SPECIFICATION FairSpec
INVARIANTS TypeOK LockAccounted SuccessIsLogged
PROPERTIES NoSecondUnpair GuardMissedOnlyByRace
    EveryConnAnswered EveryReleaseAnswered DeviceLockFreed
