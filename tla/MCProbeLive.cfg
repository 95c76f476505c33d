CONSTANTS
    u1 = u1  u2 = u2  o1 = o1  o2 = o2  w1 = w1  w2 = w2  w3 = w3  p1 = p1  p2 = p2  s1 = s1  s2 = s2
    Uids = {u1}
    Options = {o1}
    Workers = {w1}
    Slots = {p1}
    Handlers = {s1}
    Metrics = {"success"}
    FailMetrics = {"success"}
    MaxProbes = 1
    Faults = {"noSamples", "unsent", "timeout", "shutdown"}
SPECIFICATION FairSpec
PROPERTY Delivered KeepsProbing Vanishes Stops
CHECK_DEADLOCK FALSE
