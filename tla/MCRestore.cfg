CONSTANTS
    update = update
    openvpn = openvpn
    v2ray = v2ray
    profile = profile
    Updates <- MCUpdates
    Loops <- MCLoops
    Scans <- MCLoops
    Saves <- MCSaves
    Broadcasts = {}
    Parts = 2
    Keep = 1
    MaxRestores = 2
    MaxFaults = 2
    MaxLate = 1
SPECIFICATION FairSpec
INVARIANTS RestoreTypeOK NothingLost UnderOneDatabase SettledTogether
PROPERTY GateOpens
CHECK_DEADLOCK FALSE
