CONSTANTS
    Conns = {c1, c2}
    IPs = {i1}
    MaxSessions = 1
    Packets = {"hello", "bad", "flag"}
    Endings = {"closed"}
    NoIp = NoIp
    NoList = NoList
    NoConn = NoConn
    NoPacket = NoPacket
SPECIFICATION Spec
SYMMETRY ConnSymmetry
INVARIANTS TypeOK 
