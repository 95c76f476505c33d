CONSTANTS
    u1 = u1  u2 = u2  o1 = o1  o2 = o2  w1 = w1  w2 = w2  w3 = w3  p1 = p1  p2 = p2  s1 = s1  s2 = s2
    Uids = {u1, u2}
    Options = {o1, o2}
    Workers = {w1, w2}
    Slots = {p1, p2}
    Handlers = {s1}
    Metrics = {"success"}
    FailMetrics = {"success"}
    MaxProbes = 2
    Faults = {"noSamples", "shutdown"}
SPECIFICATION Spec
SYMMETRY Interchangeable
INVARIANT OneProbeEach OneWorkerPerTarget QuietWhenStopped
PROPERTY OnlyStoppedWorkersOvertake
CONSTRAINT EngineOnly
