CONSTANTS
    Ids = {1, 2}
    People = {"ann", "bob"}
    Former = "ann"
    Orders = {"o1", "o2"}
    Rates = {0, 1, 2}
    Targets = {0, 1}
    MaxDebt = 2
    MaxChanges = 3
    MaxFaults = 1
SPECIFICATION Spec
INVARIANTS SettingsTypeOK ShopStaysOpen DebtIsRight
PROPERTY StartupKeepsChoices
CHECK_DEADLOCK FALSE
