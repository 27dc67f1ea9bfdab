CONSTANTS
    MaxOrders = 2
    Prices = {2, 3}
    FirstPrice = 2
    Discount = 1
    FirstBalance = 1
    Step = 1
    MaxBalance = 3
    MaxFaults = 1
    MaxDeadlines = 1
    MaxAdmin = 1
SPECIFICATION Spec
INVARIANTS CheckoutTypeOK WalletAddsUp ReservationsCovered ServedIsPaid OneDiscount
PROPERTY AuthorizedStays
CHECK_DEADLOCK FALSE
