CONSTANTS
    c1 = c1  c2 = c2  f = f  h1 = h1  G = G  P = P  A = A  B = B
    NoName = NoName
    Hosts = {h1}
    Callers = {c1}
    Flusher = f
    Requests <- AllRequests
    MaxCalls = 3
    MaxErrors = 1
SPECIFICATION Spec
INVARIANT  AddedIsListed AddedIsFound QueriesAgree
CHECK_DEADLOCK FALSE
