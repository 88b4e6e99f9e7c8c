SPECIFICATION Spec
CONSTANTS
    e1 = e1  e2 = e2
    RvEventsMax = 3
    Events = {e1, e2}
    Empty = empty
    SeqBound = 8
INVARIANTS
    TypeOK
    NewestInOrder
    Conservation
PROPERTIES
    ReadsContinue
    QueueSpec
