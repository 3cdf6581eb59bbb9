\* Two daemons start, serve and die in any order; writes may be cut short.
CONSTANTS
    Proc = {p1, p2}
    Request = {r1, r2, r3}
    NoProc = NoProc
    TornWrites = TRUE
SPECIFICATION Spec
SYMMETRY RequestSymmetry
INVARIANTS TypeOK OpenClaimsAreOwn OneFinalIfAlone FinalFollowsAccepted
