CONSTANTS
    Conns = {c1, c2, c3}
    ServerThreads = {}
    IPs = {i1}
    Ports = {login}
    g1 = g1
    g2 = g2
    GameCodes <- OneCode
    AccountIPs = {i1}
    SessionLists <- OneList
    MaxFailedAttempts = 2
    MaxAuthTries = 1
    MaxOutages = 0
    MaxUnbans = 0
    NoIp = NoIp
    NoPort = NoPort
    NoBag = NoBag
    NoList = NoList
    NoCode = NoCode
SPECIFICATION Spec
SYMMETRY ConnSymmetry
INVARIANTS OneForwardedPerKey
