SPECIFICATION FairSpec
CONSTANTS
    s1 = s1
    s2 = s2
    x1 = x1
    x2 = x2
    x3 = x3
    a = a
    b = b
    Servers = {s1}
    Searches = {x1, x2, x3}
    Ids = {a, b}
    IdOf <- TwoIds
    Full = {x1, x3}
    Faults = {"close", "late"}
INVARIANTS AnswersInStep
PROPERTIES EverySearchAnswered
