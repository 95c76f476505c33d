CONSTANTS
    c1 = c1  c2 = c2  f = f  h1 = h1  G = G  P = P  A = A  B = B
    NoName = NoName
    Hosts = {h1}
    Callers = {c1, c2}
    Flusher = f
    Requests <- AddRequests
    MaxCalls = 2
    MaxErrors = 0
SPECIFICATION Spec
INVARIANT AddedExists
CHECK_DEADLOCK FALSE
