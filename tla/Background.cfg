CONSTANTS
    Day = 2
    Hours = {1, 2}
    Readers = 2
    MaxActs = 3
    MaxDrafts = 2
    MaxFaults = 1
SPECIFICATION FairSpec
INVARIANTS SleepsOnCurrentSettings DraftSentOnce
PROPERTY BackupsGoOn
CHECK_DEADLOCK FALSE
