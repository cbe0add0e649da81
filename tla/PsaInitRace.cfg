SPECIFICATION Spec
CONSTANTS
    Threads = {t1, t2}
    CanFail = {"RNG"}
INVARIANTS ReadyAfterInit
