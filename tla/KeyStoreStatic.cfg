SPECIFICATION Spec
CONSTANTS
    Threads = {t1, t2, t3}
    UserIds = {k1}
    BuiltinIds = {}
    Materials = {m1, m2}
    BuiltinKey = b
    NoKey = NoKey
    NoId = NoId
    CacheCount = 2
    VolatileCount = 0
SYMMETRY Symmetry
INVARIANTS KeyStoreInv
PROPERTIES ReadsAreStable DestroyIsFinal VolatileKeysStay
