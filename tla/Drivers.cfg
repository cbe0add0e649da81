SPECIFICATION DriversSpec
CONSTANTS
    BlockSize = 3
    KeystreamSize = 6
    CounterRange = 4
    GcmAdLimit = 7
    GcmBodyLimit = 6
    CcmAdLimit = 7
    LengthRange <- MCLengthRange
    NonceLengths = {0, 7, 12, 13}
    AdLengths = {0, 4, 7}
    BodyLengths = {0, 5, 6, 7}
    MaxAd = 7
    MaxBody = 26
    TagLength = 2
    CanFail = {"setup", "calloc", "entropy"}
    MdSize <- MCMdSize
    MdOid <- MCMdOid
    MaxKeyBits = 264
    MinModulusBits = 3
    GenKeyMinBits = 8
    Primes1 = {5, 7, 11}
    Primes2 = {3, 5}
    BlockBits = {128, 136, 132}
    RoomBits = {200, 256, 272}
    SliceCount = 2
    SliceLength <- MCSliceLength
    MaxReaders = 2
INVARIANTS
    FreeListInv
    KeystreamInOrder
    TagCoversMessage
    LengthsHonoured
    LayersAgree
    RsaCorrect
