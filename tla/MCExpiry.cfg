CONSTANTS
    Accounts <- MCAccounts
    ServiceOf <- MCServiceOf
    IsTrial <- MCIsTrial
    Order <- MCOrder
    FirstPanel <- MCFirstPanel
    LastVersion <- MCLastVersion
    Cycles = {1, 2}
    NoCycle = NoCycle
    MaxFaults = 1
    MaxToggles = 1
SPECIFICATION FairSpec
INVARIANTS ExpiryTypeOK NoticesAddUp
PROPERTIES NoticeFromItsVersion ExhaustedGetsNoticed
CHECK_DEADLOCK FALSE
