----------------------------- MODULE TaskPromise -----------------------------
(***************************************************************************)
(* What remote tasks promise to whoever posts one, without agents, calls,  *)
(* caches or files.  A task is posted once.  On each of its hosts things   *)
(* happen to it; the first result recorded for a host stands for ever and  *)
(* is backed by what has happened there; a task is closed once, and only   *)
(* after it got somewhere on one of its hosts.  TaskSystem implements this. *)
(***************************************************************************)

CONSTANTS
    Tasks, Hosts, HostsOf,
    Results,   \* statuses that can be recorded
    NoResult,  \* no result yet
    Events,    \* what can happen to a task on a host
    Backs(_, _),  \* Backs(status, events): these events justify this status
    Settles(_, _) \* Settles(result, events): enough to close the task

VARIABLES posted, closed, result, events

vars == <<posted, closed, result, events>>

Init ==
    /\ posted = {}
    /\ closed = {}
    /\ result = [t \in Tasks |-> [h \in Hosts |-> NoResult]]
    /\ events = [t \in Tasks |-> [h \in Hosts |-> {}]]

Post(t) ==
    /\ t \notin posted
    /\ posted' = posted \cup {t}
    /\ UNCHANGED <<closed, result, events>>

\* Something happens to a posted task on one of its hosts, closed or not.
Happen(t, h, e) ==
    /\ t \in posted /\ h \in HostsOf[t]
    /\ events' = [events EXCEPT ![t][h] = @ \cup {e}]
    /\ UNCHANGED <<posted, closed, result>>

Record(t, h, r) ==
    /\ t \in posted /\ h \in HostsOf[t]
    /\ result[t][h] = NoResult
    /\ Backs(r, events[t][h])
    /\ result' = [result EXCEPT ![t][h] = r]
    /\ UNCHANGED <<posted, closed, events>>

Close(t) ==
    /\ t \in posted \ closed
    /\ \E h \in HostsOf[t] : Settles(result[t][h], events[t][h])
    /\ closed' = closed \cup {t}
    /\ UNCHANGED <<posted, result, events>>

Next ==
    \E t \in Tasks :
        \/ Post(t) \/ Close(t)
        \/ \E h \in Hosts, e \in Events : Happen(t, h, e)
        \/ \E h \in Hosts, r \in Results : Record(t, h, r)

Spec == Init /\ [][Next]_vars
=============================================================================
