SPECIFICATION FairSpec
CONSTANTS
    web = web  db = db  t1 = t1  t2 = t2
    Vms = {web, db}
    Threads = {t1, t2}
    None = none
    Works = {"work", "profile"}
    MaxBoots = 2
    MaxHandles = 2
PROPERTIES
    StopDetaches
