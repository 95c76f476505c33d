CONSTANTS
    j1 = j1  j2 = j2  c1 = c1  c2 = c2
    Loops = {"log", "task"}
    Conns = {c1, c2}
    NoConn = NoConn
    MaxErrors = 1
    LocalStrategies <- NoLocal
    ServerLists <- Changing
    Jobs = {j1, j2}
    ConsumerNum = 2
    StreamSize = 1
    CounterSize = 1
    Value <- TwoLines
    NoMatch = NoMatch
    MaxSyncs = 3
    MaxOtherCalls = 1
SPECIFICATION Spec
SYMMETRY Interchangeable
INVARIANT JobsAsListed EachLineOnce PublishedRight PanicNeedsAnError ClientIsOpen
CONSTRAINT ApartFromCalls
CHECK_DEADLOCK FALSE
