SPECIFICATION Spec
CONSTANTS
    Orders = {o1}
    Handlers = {h1, h2, h3}
    Services = {"openvpn", "v2ray"}
    Methods = {"wallet", "owner", "reseller_debt", "gateway"}
    MaxFaults = 2
    NoHandler = NoHandler
    NoOrder = NoOrder
SYMMETRY Permuted
INVARIANT TypeOK
INVARIANT AppliedAtMostOnce
INVARIANT PaidBeforeService
INVARIANT BooksFollowService
INVARIANT NoLocalOrderLost
PROPERTY RefundOnlyBeforeWrite
PROPERTY JournalForward
CHECK_DEADLOCK FALSE
