SPECIFICATION FaultySpec
CONSTANTS
    Threads = {t1}
    UserIds = {k1}
    BuiltinIds = {}
    Materials = {m1}
    BuiltinKey = b
    NoKey = NoKey
    NoId = NoId
    CacheCount = 1
    VolatileCount = 0
PROPERTIES DestroyIsFinal
