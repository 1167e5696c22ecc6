SPECIFICATION FairSpec
CONSTANTS
    Callers = {1, 2}
    Attempts = 2
    MaxStalls = 1
    MaxNotifications = 2
    MaxMails = 2
CHECK_DEADLOCK FALSE
INVARIANTS
    TypeOK
    CompletedWasSent
    RecordMatchesMail
    CopiesNeedFaults
PROPERTIES
    NoCopyOnceRecorded
    EmailSettles
