SPECIFICATION Spec
CONSTANTS
    Orders = {o1}
    Handlers = {h1, h2}
    Services = {"openvpn", "v2ray"}
    Methods = {"gateway"}
    MaxFaults = 2
    NoHandler = NoHandler
    NoOrder = NoOrder
INVARIANT AuthorizedNeverDropped
CHECK_DEADLOCK FALSE
