CONSTANTS
    j1 = j1  j2 = j2  c1 = c1  c2 = c2
    Loops = {"log"}
    Conns = {c1}
    NoConn = NoConn
    MaxErrors = 0
    LocalStrategies <- OneLocal
    ServerLists <- OneList
    Jobs = {j1, j2}
    ConsumerNum = 1
    StreamSize = 1
    CounterSize = 1
    Value <- NoLines
    NoMatch = NoMatch
    MaxSyncs = 3
    MaxOtherCalls = 0
SPECIFICATION FairSpec
PROPERTY ShutsDown
CHECK_DEADLOCK FALSE
