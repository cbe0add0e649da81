SPECIFICATION Spec
CONSTANTS
    Threads = {t1, t2, t3}
    CanFail = {"DRIVERS", "KEY_SLOTS", "RNG"}
SYMMETRY Symmetry
INVARIANTS ReadyIfNoneFailed GuardHolds NoHalfInitAtRest
PROPERTIES SourcesFixed
