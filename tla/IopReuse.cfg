SPECIFICATION OperationsSpec
CONSTANTS
    HashLength = 2
    LastBlock = 3
    LastCount = 3
    InputCost = 3
    SizeMax = 7
    MasterSecret = 3
    MaxDraw = 3
    MaxRepeats = 2
    MaxTries = 2
    CipherBlock = 3
    MaxMessage = 10
    HashBlock = 4
    HashSize = 3
    HashWord = 8
    ByteBits = 2
    Rate = 4
    Lane = 2
    MaxHashed = 9
    MaxAbsorbed = 9
    MaxSqueezed = 9
    CmacBlock = 4
    MinMac = 2
    KeyLengths = {0, 4, 5}
    MaxMacced = 9
    OpsChk = 1
    OpsDbl = 2
    OpsAdd = 3
    OpsInv = 5
    Window = 2
    Digits = 3
    Scales = {1, 2}
    MaxOps = {0, 6, 20, 1000}
    GroupOrder = 101
    JpakeBuffer = 13
    Ephemeral <- EphemeralNumbers
    Passwords <- PasswordPairs
    Routes <- DeliveryRoutes
    TreeHeight = 2
    DigitMax = 2
    HashDigits = 2
    MaxKeys = 2
    HeaderSize = 3
    AlignMultiple = 2
    SizeModulus = 64
    BufferLengths = {5, 22, 27}
    CallocArgs <- ElementCounts
    ReseedInterval = 2
    MaxRequest = 2
    EntropyBlock = 3
    EntropyMaxLoop = 1
    Gathers = {2}
    RequestSizes = {1, 5}
    Pids = {1, 2}
    MaxForks = 2
    MaxSteps = 2
    LimbBits = 8
    LimbBytes = 2
    MPI_WINDOW_SIZE = 3
    WindowFrom = 8
    RandomTries = 3
    SmallTries = 4
    SmallBytes = 2
    SmallPrimes <- ThreePrimes
    MillerRabinTries = 3
    SearchSteps = 5
    Magnitudes = {0, 1, 128, 255, 256, 65535, 65537, 262147, 8388607}
    Operands <- MixedOperands
    Moduli = {2, 9, 255, 4096, 32749}
    Exponents = {0, 1, 300}
    Shifts = {0, 1, 7, 8, 9, 16}
    Radices = {1, 2, 4, 10, 16}
    Odds = {0, 1, 2, 3, 9, 25, 49, 121, 143, 11, 13, 97, 257, 2047, 32749}
    Bases <- RandomDraws
    TagLengths = {0, 4, 8, 16, 32}
    KeySizes = {0, 8, 128, 192, 255, 256, 448, 512, 521, 528, 1024, 1027, 2048, 4096, 8192, 65528}
    DataLengths = {0, 1, 16, 24, 32, 33, 56, 57, 64, 65, 66, 67, 128, 133, 256, 1024, 8191, 8192}
    Kinds = {"iop"}
INVARIANT
    IopReusable
