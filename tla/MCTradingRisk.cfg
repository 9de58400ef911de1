SPECIFICATION Spec
CONSTANTS
    Callers = {c1, c2}
    NativeLib = TRUE
    Equities <- MCEquities
    Start = 960
    SmallAccount = 2000
INVARIANTS
    GateSound
    RestrictionHolds
SYMMETRY CallerSymmetry
