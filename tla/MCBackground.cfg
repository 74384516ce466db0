SPECIFICATION Spec
CONSTANTS
    Sockets = {s1, s2}
    NoSocket = NoSocket
    MaxStarts = 2
    Readers = {r1, r2}
    CardIds = {k1, k2}
    MaxEdits = 2
    GwCallers = {c1, c2, c3}
    GwClosers = {x1, x2}
    Procs = {p1, p2}
    NoProc = NoProc
    Requests = {q1, q2, q3}
    Servers = {planejador, drota, execucao}
    ana = ana
    bia = bia
    Personas = {ana, bia}
    Windows <- SchedulerWindows
    Config <- SchedulerConfig
    Day = 4
    Week = 2
    Cooldown = 2
    Mc1Ids = {1, 2}
    MaxFaults = 1
    Runs = {run1, run2}
    MaxTurns = 1
    Files = {f1, f2}
    Scans = {scan1, scan2}
    MaxDiscoveries = 2
    TurnNumbers = {1, 2}
    TurnPhases = {planning_started, selection_made}
    BufferCap = 2
    MaxPushed = 3
    MaxFailures = 2
    MaxStops = 1
INVARIANTS
    TypeOK
    ChannelKept
    CachesFresh
    ProcessesOwned
    HooksKept
PROPERTIES
    QuietWhileStopped
    EndedForGood
    LinesComeBack
    Mc1Arrives
