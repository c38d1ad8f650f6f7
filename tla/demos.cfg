SPECIFICATION DemosSpec
CONSTANTS
    Clients = {c1, c2}
    NoClient = NoClient
    Segments = 2
    SegmentParts = 2
    BufferParts = 1
    PageParts = 3
    Window = 1
    Backlog = 2
    Threads = {t1, t2}
    Times = 2
    NoThread = NoThread
CHECK_DEADLOCK FALSE
INVARIANTS
    HttpInv
    CounterInv
    SocketsAreClosed
    WholePage
    OneReadIsSafe
    ActualIsExpected
PROPERTIES
    ImplementsAtomic
    DemoEnds
    EveryoneIsServed
