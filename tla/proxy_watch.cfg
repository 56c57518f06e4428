CONSTANTS
    Conns = {c1}
    ServerThreads = {s1}
    IPs = {i1}
    Ports = {login, game}
    g1 = g1
    g2 = g2
    GameCodes <- TwoCodes
    AccountIPs = {i1}
    SessionLists <- FewLists
    MaxFailedAttempts = 2
    MaxAuthTries = 2
    MaxOutages = 1
    MaxUnbans = 1
    NoIp = NoIp
    NoPort = NoPort
    NoBag = NoBag
    NoList = NoList
    NoCode = NoCode
SPECIFICATION FairSpec
PROPERTIES BannedEventuallyClosed
INVARIANTS BannedIpDisconnected
