SPECIFICATION Spec
CONSTANTS
    Orders = {o1}
    Handlers = {h1}
    Services = {"openvpn", "v2ray"}
    Methods = {"wallet"}
    MaxFaults = 2
    NoHandler = NoHandler
    NoOrder = NoOrder
INVARIANT PreparedMeansUnwritten
CHECK_DEADLOCK FALSE
