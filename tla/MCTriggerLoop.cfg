SPECIFICATION LoopSpec
CONSTANTS
    t1 = t1
    LoopTurns = {t1}
    FocusOrder <- OneDimension
    Messages <- CrisisMessages
    LogLimit = 20
    MaxCrises = 12
    MaxLoopFaults = 0
PROPERTY
    CrisisIsSeen
