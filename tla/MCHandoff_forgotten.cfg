\* Two Macs and two claims; one answer is late.
CONSTANTS
    Nodes = {m1, m2}
    Online = {}
    Claimants = {m1, m2}
    None = none
    MaxClaims = 2
    MaxRetries = 0
    MaxTroubles = 1
SPECIFICATION Spec
CHECK_DEADLOCK FALSE
PROPERTIES HolderIsAsked
