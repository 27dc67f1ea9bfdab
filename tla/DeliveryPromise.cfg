SPECIFICATION ShopSpec
CONSTANTS
    Orders = {o1}
    Handlers = {h1, h2}
    Services = {"openvpn", "v2ray"}
    Methods = {"wallet", "owner", "reseller_debt", "gateway", "card_transfer"}
    MaxFaults = 2
    NoHandler = NoHandler
    NoOrder = NoOrder
PROPERTY KeepsThePromise
PROPERTY EveryOrderSettles
CHECK_DEADLOCK FALSE
