\* Three upgrades, one after the other or at once.
CONSTANTS
    Upgraders = {u1, u2, u3}
    Versions = {"v1", "v2"}
    Installed = "v1"
    Shipped = shipped
    None = none
    MaxFaults = 2
SPECIFICATION Spec
SYMMETRY Symmetry
CHECK_DEADLOCK FALSE
INVARIANTS TypeOK ExeIsWhole BackupCoversGap NothingUnverified
PROPERTIES AllOrNothing
