\* A second daemon is started while the first is serving.
CONSTANTS
    Proc = {p1, p2}
    Request = {r1, r2}
    NoProc = NoProc
    TornWrites = FALSE
SPECIFICATION Spec
INVARIANTS OneFinal
