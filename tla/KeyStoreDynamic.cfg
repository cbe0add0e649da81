SPECIFICATION FairSpec
CONSTANTS
    Threads = {t1, t2}
    UserIds = {k1}
    BuiltinIds = {p1}
    Materials = {m1, m2}
    BuiltinKey = b
    NoKey = NoKey
    NoId = NoId
    CacheCount = 1
    VolatileCount = 1
PROPERTIES Linearizable DeletionCompletes CallsReturn
