SPECIFICATION Spec
CONSTANTS
    None = None
    Chats = {c, d}
    Occupied = {c}
    Native = {d}
    CachedTurns = 4
    FirstTurns = 3
    ReportTurns = {2}
    refreshCohort = 1
    PageRows = 2
    Limit = 1
    Pictures = {1}
    Skills = {"k"}
    TopEffort = 1
    NumChildren = 2
    People = {"a", "b"}
    Owner = "a"
    MAX_SOURCES = 1
    Roots = {"r"}
    FirstRoot = "r"
    Parallel = 1
    Total = 2
    Main = "m"
    New = "n"
    MaxTasks = 1
    MaxRows = 1
    MaxImages = 2
    MaxKeys = 2
    MaxLost = 1
    MaxViews = 1
    MaxWrites = 2
    MaxOthers = 1
    MaxActs = 1
    MaxOrders = 1
    MaxTeams = 2
    MaxEdits = 2
    MaxDialogs = 2
    MaxMishaps = 1
    MaxIds = 2
    MaxPosts = 2
    MaxChanges = 1
    MaxSignIns = 2
    MaxTexts = 2
    MaxReads = 1
    MaxRequests = 1
    MaxHistories = 1
    MaxMoves = 1
    MaxCalls = 2
    MaxUpsets = 1
    MaxEvents = 2
INVARIANTS
    TypeOK
    OneRequestPerIntent
    AnswersStayHome
PROPERTIES
    ActsAsReviewed
    ShownAsReported
    WorkIsKept
CHECK_DEADLOCK FALSE
