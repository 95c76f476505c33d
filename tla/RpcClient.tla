----------------------------- MODULE RpcClient -----------------------------
(***************************************************************************)
(* The client that all loops of an agent share (cmd/agent/rpc/client.go).  *)
(* Client.Get dials if there is no connection, a failed call closes it,    *)
(* and nothing locks the field in between: two loops may both dial, and a  *)
(* loop may find the client closed that it has just got.                   *)
(***************************************************************************)
EXTENDS Naturals, FiniteSets

CONSTANTS
    Loops,    \* the goroutines that call the server
    Conns,    \* bound: the connections ever dialled
    NoConn,
    MaxErrors \* bound: calls that fail

ASSUME RpcBounds == NoConn \notin Conns /\ IsFiniteSet(Loops) /\ MaxErrors \in Nat

VARIABLES
    brpcClient, \* Client.BRPCClient
    open,       \* the connections that are open
    dialled,    \* history: the connections that have been dialled
    rpc,        \* where each loop is; conn: the connection it waits on
    panicked,   \* a nil client was used: the process is gone
    errors      \* counts calls that failed (bound)

clientVars == <<brpcClient, open, dialled, rpc, panicked, errors>>

IdleRpc == [at |-> "idle", conn |-> NoConn]

ClientTypeOK ==
    /\ brpcClient \in Conns \cup {NoConn}
    /\ open \subseteq dialled /\ dialled \subseteq Conns
    /\ rpc \in [Loops -> [at : {"idle", "get", "dial", "call", "wait", "failed", "close", "nil"},
                          conn : Conns \cup {NoConn}]]
    /\ panicked \in BOOLEAN

\* Client.Ping has dialled before the loops begin, or has failed to.
ClientInit ==
    /\ open \in {{}} \cup {{c} : c \in Conns} /\ dialled = open
    /\ brpcClient = IF open = {} THEN NoConn ELSE CHOOSE c \in open : TRUE
    /\ rpc = [l \in Loops |-> IdleRpc]
    /\ panicked = FALSE /\ errors = 0

Goto(l, at) == rpc' = [rpc EXCEPT ![l].at = at]

Begin(l) ==
    /\ rpc[l].at = "idle"
    /\ Goto(l, "get")
    /\ UNCHANGED <<brpcClient, open, dialled, panicked, errors>>

\* Client.Get: is there a connection?
Get(l) ==
    /\ rpc[l].at = "get"
    /\ Goto(l, IF brpcClient # NoConn THEN "call" ELSE "dial")
    /\ UNCHANGED <<brpcClient, open, dialled, panicked, errors>>

\* net.DialTimeout fails, and the call with it.
DialFails(l) ==
    /\ rpc[l].at = "dial" /\ errors < MaxErrors
    /\ errors' = errors + 1
    /\ Goto(l, "nil")
    /\ UNCHANGED <<brpcClient, open, dialled, panicked>>

\* The new connection replaces that of a loop that has dialled at the same time,
\* which is left open.
Dial(l) ==
    /\ rpc[l].at = "dial"
    /\ \E c \in Conns \ dialled :
          brpcClient' = c /\ open' = open \cup {c} /\ dialled' = dialled \cup {c}
    /\ Goto(l, "call")
    /\ UNCHANGED <<panicked, errors>>

\* BRPCClient.Call: the field is read again.
Call(l) ==
    /\ rpc[l].at = "call"
    /\ panicked' = (brpcClient = NoConn)
    /\ rpc' = [rpc EXCEPT ![l] = [at |-> "wait", conn |-> brpcClient]]
    /\ UNCHANGED <<brpcClient, open, dialled, errors>>

\* A mistake a run must notice: a connection serves one call and is closed.
CallReturnsClosing(l) ==
    /\ rpc[l].at = "wait" /\ rpc[l].conn \in open
    /\ rpc' = [rpc EXCEPT ![l] = IdleRpc]
    /\ brpcClient' = NoConn /\ open' = open \ {rpc[l].conn}
    /\ UNCHANGED <<dialled, panicked, errors>>

CallReturns(l) ==
    /\ rpc[l].at = "wait" /\ rpc[l].conn \in open
    /\ rpc' = [rpc EXCEPT ![l] = IdleRpc]
    /\ UNCHANGED <<brpcClient, open, dialled, panicked, errors>>

\* It fails by itself, or as another loop has closed the connection.
CallFails(l) ==
    /\ rpc[l].at = "wait"
    /\ rpc[l].conn \in open => errors < MaxErrors
    /\ errors' = IF rpc[l].conn \in open THEN errors + 1 ELSE errors
    /\ rpc' = [rpc EXCEPT ![l] = [at |-> "failed", conn |-> NoConn]]
    /\ UNCHANGED <<brpcClient, open, dialled, panicked>>

\* Client.Close: the client is read twice, first to compare it with nil ...
Close(l) ==
    /\ rpc[l].at = "failed"
    /\ Goto(l, IF brpcClient = NoConn THEN "nil" ELSE "close")
    /\ UNCHANGED <<brpcClient, open, dialled, panicked, errors>>

\* A mistake a run must notice: the field keeps the connection that is closed.
CloseKeeping(l) ==
    /\ rpc[l].at = "close"
    /\ panicked' = (brpcClient = NoConn)
    /\ rpc' = [rpc EXCEPT ![l] = [at |-> "nil", conn |-> brpcClient]]
    /\ UNCHANGED <<brpcClient, open, dialled, errors>>

\* ... then to have it closed on return.
CloseClient(l) ==
    /\ rpc[l].at = "close"
    /\ panicked' = (brpcClient = NoConn)
    /\ brpcClient' = NoConn
    /\ rpc' = [rpc EXCEPT ![l] = [at |-> "nil", conn |-> brpcClient]]
    /\ UNCHANGED <<open, dialled, errors>>

\* The caller gets nil, after the deferred close.
ReturnNil(l) ==
    /\ rpc[l].at = "nil"
    /\ open' = open \ {rpc[l].conn}
    /\ rpc' = [rpc EXCEPT ![l] = IdleRpc]
    /\ UNCHANGED <<brpcClient, dialled, panicked, errors>>

ClientStep(l) ==
    \/ Get(l) \/ DialFails(l) \/ Dial(l) \/ Call(l)
    \/ CallFails(l) \/ Close(l) \/ CloseClient(l)

\* As long as no call has failed, no loop finds the client gone, and however many
\* loops dial at the same time, there is at most one connection for each of them.
PanicNeedsAnError == errors = 0 => ~panicked /\ Cardinality(open) <= Cardinality(Loops)

\* The client never holds a connection that is closed: a loop that has closed one
\* makes the next call dial again.  (The converse fails: open connections leak.)
ClientIsOpen == brpcClient # NoConn => brpcClient \in open
=============================================================================
