CONSTANTS
    a1 = a1  c1 = c1  c2 = c2  s1 = s1  s2 = s2  ipA = ipA  ipC = ipC  r1 = r1  r2 = r2  m1 = m1
    h1 = h1  h2 = h2
    NoValue = NoValue
    Reports <- AgentReports
    CloudHosts <- Cloud
    Mounts = {m1}
    Queries <- MixedQueries
    Earliest <- LastId
    Handlers = {h1, h2}
    MaxRows = 3
    MaxReports = 2
    MaxSyncs = 2
    MaxMounts = 1
SPECIFICATION Spec
SYMMETRY BothHandlers
INVARIANT StableHostsRight OneRowPerHost  
CHECK_DEADLOCK FALSE
