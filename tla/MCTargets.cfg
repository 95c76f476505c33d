CONSTANTS
    a = a  b = b  r1 = r1  r2 = r2  x = x  y = y
    Agents = {a, b}
    Region <- InRegions
    SortedRegions <- TwoRegions
    Files <- TwoFiles
    Broken = Broken
    TTL = 2
    Supported = {"icmp", "http", "tcp"}
    MaxFaults = 2
SPECIFICATION Spec
INVARIANT NoPingAtHome StaleIsBounded
PROPERTY KeptWhileConfigured Converges
