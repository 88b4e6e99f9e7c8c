SPECIFICATION Spec
CONSTANTS
    web = web  db = db  rootkit = rootkit  tab = tab
    Guests = {web}
    Subjects = {rootkit}
    None = none
    Pages = {tab}
    HistoryLimit = 2
    QueueLimit = 3
    MaxPublished = 7
INVARIANTS
    TypeOK
    NothingUnseen
PROPERTIES
    Boundary
    ReloadsForNews
CHECK_DEADLOCK FALSE
