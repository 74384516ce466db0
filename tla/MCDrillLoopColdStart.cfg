SPECIFICATION Spec
CONSTANTS
    k1 = k1
    k2 = k2
    t1 = t1
    t2 = t2
    Turns <- OneTurn
    Bank <- MCBank
    Answers <- TwoAnswers
    Window = 3
    MaxDays = 60
    MaxAttempts = 6
    None = None
PROPERTY
    OnlyColdStartsPropose
