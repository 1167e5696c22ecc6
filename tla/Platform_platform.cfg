SPECIFICATION Spec
CONSTANTS
    a = a u = u s = s t = t k1 = k1 k2 = k2 m1 = m1 m2 = m2 m3 = m3 hw = hw ex = ex pr = pr x1 = x1 x2 = x2
    Admin = a
    Mentors = {u}
    Scholars = {s, t}
    Courses = {k1, k2}
    Meetings = {m1, m2, m3}
    Assignments = {hw, ex, pr}
    Calls = {1, 2}
    Starts = {1, 2}
    Lengths = {1, 2}
    Batches <- MCBatches
    Weights = {3000, 4999, 5000, 7000}
    MaxUpheavals = 1
    Resources = {x1, x2}
    FileKeys = {"file"}
    Exports = {"report"}
    Requests <- MCRequests
    SyncLimit = 3
    Attempts = 3
    MaxStalls = 1
    Accounts = {s}
    MaxTokens = 3
    MaxCodes = 1
    MaxResets = 1
    Subjects = {s, m1, m2}
    Histories <- MCHistories
INVARIANTS
    PlatformTypeOK
    AbsentIsTold
    RecordedIsAudited
    ViewsAgree
    WeightsSettle
    OffersBacked
    SessionsAccounted
PROPERTIES
    FavourableChangeHelps
    OutcomeIsKept
    ReportSettles
CHECK_DEADLOCK FALSE
