SPECIFICATION CardFairSpec
CONSTANTS
    Orders = {o1}
    Handlers = {h1, h2}
    Services = {"openvpn", "v2ray"}
    Methods = {"card_transfer"}
    MaxFaults = 2
    NoHandler = NoHandler
    NoOrder = NoOrder
INVARIANT RequestMatchesRow
INVARIANT NothingWithoutApproval
INVARIANT ApprovedMeansServed
PROPERTY DecisionsAreFinal
PROPERTY ClaimedGetsApproved
CHECK_DEADLOCK FALSE
