SPECIFICATION MCSpec
CONSTANTS
    k1 = k1
    k2 = k2
    t1 = t1
    t2 = t2
    Turns <- OneTurn
    Bank <- MCBank
    Answers <- TwoAnswers
    Window = 2
    MaxDays = 60
    MaxAttempts = 6
    None = None
    CaselDims <- FourDims
    MaxDeferred = 1
    ActiveDays = 1
    TotalDays = 2
    CadenceDay <- BossFight
    Weeks = 5
    Phases = 3
    MaxMissed = 3
    Children = {1, 2, 3}
    SensoryStrategy = {2}
    Tolerance <- Tolerances
    RateWindow = 7
    CapNum = 1
    CapDen = 5
    MaxBotTurns = 2
    Writers = {w1, w2}
    Dimensions = {emotional, cognitive}
    NoRow = NoRow
    LoopTurns <- OneTurn
    FocusOrder <- TwoDimensions
    Messages <- LoopMessages
    LogLimit = 20
    MaxCrises = 1
    MaxLoopFaults = 1
    InqTurns <- TwoTurns
    InqLimit = 14
    Contents = {c1}
    NoContent = NoContent
    IssueTurns <- TwoTurns
    IssueDims = {emotional}
    MaxMoves = 2
    MaxCards = 3
    drill = drill
    e6 = e6
    b3 = b3
    a2 = a2
    Ranking <- ItemsByScore
    Cost <- Costs
    Drills = {drill}
    Aligned = {a2}
    Inaugural = Inaugural
    EmptyPool = EmptyPool
    NoItem = NoItem
    MaxSpoken = 3
    MinDiscoveries = 2
    MinFamilies = 2
    MaxDiscovered = 3
    DeskSessions = {s1, s2}
    Polls = {p1, p2}
    MaxFiled = 2
    MaxDeskFaults = 1
    OnbChildren = {bea, leo}
    MaxMessages = 3
    MaxSubmits = 2
    MaxOnbFaults = 1
INVARIANTS
    ChildTypeOK
    MasteryIsEarned
    AuditCoversRow
    LoggedIsAudited
    GroupModerated
    RecordsKept
PROPERTIES
    MasteryIsKept
    JumpOnlyWhenOvertaken
    FirstCrisisIsSeen
