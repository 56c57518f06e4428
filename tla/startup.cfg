CONSTANTS
    i1 = i1
    i2 = i2
    Instances = {i1, i2}
    MaxStarts = 2
    DriverFile <- OurDriver
    ChecksPass <- CheckPasses
    DriverSignerSubject = "us"
    Machines <- SmallMachines
    Vulnerable = {"a"}
    MaxRounds = 3
    BitXor <- XorOfBits
    BitOr <- OrOfBits
    BufferLen = 4
    ReceiveBuffer = 40
    CookieSize = 3
    WordSize = 256
    XorKey = 21
    StackSize = 3
SPECIFICATION Spec
INVARIANTS CiphersAreUndone MachineComputes SecondIsRefused DriverIsLoaded OnlyOwnGame
PROPERTIES UnsignedIsListed
CHECK_DEADLOCK FALSE
