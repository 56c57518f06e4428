CONSTANTS
    Conns = {c1}
    IPs = {i1}
    MaxSessions = 2
    Packets = {"hello", "bad", "hash", "badHash", "info", "flag", "goodbye"}
    Endings = {"closed", "reset"}
    NoIp = NoIp
    NoList = NoList
    NoConn = NoConn
    NoPacket = NoPacket
SPECIFICATION FairSpec
PROPERTIES  DoneLeavesList
