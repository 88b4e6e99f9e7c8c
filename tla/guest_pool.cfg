SPECIFICATION FairDetailsSpec
CONSTANTS
    web = web  t1 = t1  t2 = t2
    Vms = {web}
    Threads = {t1, t2}
    None = none
    Works = {"work", "profile"}
    MaxBoots = 2
    MaxHandles = 2
INVARIANTS
    TypeOK
    UsedByOne
    NoneLost
    ErrorsSettle
    AnswerAgrees
PROPERTIES
    LocksReleased
