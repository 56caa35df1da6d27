SPECIFICATION Spec
CHECK_DEADLOCK FALSE
CONSTANTS
    i1 = i1
    i2 = i2
    NoIp = NoIp
    Ips = {i1, i2}
    Keys = {k1}
    Subnet <- MCSubnet
    Seeds <- OneSeed
    MaxPeers = 10
    MaxPerSubnet = 2
    InvLimit = 1
    BanTime = 2
    CacheTime = 2
    MaxTime = 3
    MaxErrors = 3
    MaxInv = 2
    Penalty = 50
INVARIANTS
    TableBounded
    BansHold
PROPERTIES
    CacheExpires
