CONSTANTS
    t1 = t1  t2 = t2  h1 = h1  h2 = h2  s1 = s1  s2 = s2  g1 = g1  g2 = g2
    Tasks = {t1}
    Hosts = {h1}
    HostsOf <- ForAllHosts
    NewActions = {"", "start"}
    Changes = {}
    Handlers = {s1, s2}
    Routines = {g1}
    Faults = {"dbErr", "insertErr", "timeout", "serverCrash", "agentCrash", "startErr", "fileErr"}
SPECIFICATION Spec
SYMMETRY Slots
INVARIANT TypeOK TaskInv ResultEarned ClosedAfterEnd
PROPERTY StartedOnce KeepsPromise
