SPECIFICATION StorageSpec
CONSTANTS
    Uids = {u1}
    Contents <- MCContents
    Absent = Absent
    Foreign = {}
    CanFail = {"fopen_rb"}
    UInt32Range = 64
    Attributes <- MCAttributes
    KeyDatas <- MCKeyDatas
    MaxStorageSize = 2
INVARIANTS DestroyErases
