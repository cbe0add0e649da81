SPECIFICATION StorageSpec
CONSTANTS
    Uids = {u1, u2}
    Contents <- MCContents
    Absent = Absent
    Foreign <- MCForeign
    CanFail = {"fopen_wb", "fread", "fwrite", "fclose", "rename", "remove", "calloc"}
    UInt32Range = 64
    Attributes <- MCAttributes
    KeyDatas <- MCKeyDatas
    MaxStorageSize = 2
SYMMETRY Symmetry
INVARIANTS FilesWhole LoadExact SaveCommits DestroyErases
PROPERTIES KeysCommitted
