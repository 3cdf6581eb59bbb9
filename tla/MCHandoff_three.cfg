\* Two Macs connected and a third that may come; both claim; a retry and a
\* late answer, a failed subscription, a death or a coordinator restart.
CONSTANTS
    Nodes = {m1, m2, m3}
    Online = {m1, m2}
    Claimants = {m1, m2}
    None = none
    MaxClaims = 2
    MaxRetries = 1
    MaxTroubles = 1
SPECIFICATION Spec
SYMMETRY OnlineSymmetry
CHECK_DEADLOCK FALSE
INVARIANTS TypeOK OneAcquirer
PROPERTIES ReleaseHasLock
