----------------------------- MODULE TaskServer -----------------------------
(***************************************************************************)
(* The server half of the remote-task feature: the task_meta and           *)
(* task_result tables (pkg/model/task.go), the cache of tasks still to run *)
(* (cmd/server/task/cache.go) and the TaskReport handler                   *)
(* (cmd/server/rpc/server.go).                                             *)
(*                                                                         *)
(* Every RPC is served by a goroutine of its own, and every statement sent *)
(* to the database is a step: a handler may be overtaken between the SELECT *)
(* and the INSERT of TaskResult.Save.  The database survives a restart of  *)
(* the server process; the cache and the running handlers do not.          *)
(*                                                                         *)
(* TaskMeta.Clock has the tag xorm:"-": it is never stored, so every task  *)
(* is handed out with clock 0 and the clock is left out.                   *)
(***************************************************************************)
EXTENDS Naturals, FiniteSets, Sequences

CONSTANTS
    Tasks,      \* ids of task_meta
    Hosts,      \* agents, by IP
    HostsOf,    \* the hosts column of each task ({}: empty or not valid JSON)
    NewActions, \* what the action column of a new task may hold
    Changes,    \* what an operator may write into that column later (external)
    Handlers,   \* bound: TaskReport calls the server runs at the same time
    Faults      \* which faults happen (see FaultKinds)

ColumnActions == {"", "start", "kill", "other"}
Actions == {"start", "kill", "other"}

\* The status of a task on an agent; "" is the zero value of the field, "torn"
\* stands for a text that two writers of a done flag have mixed up.
Statuses == {"", "running", "killing", "success", "killed", "killfailed", "torn"}

FaultKinds == {
    "dbErr",        \* a SELECT or UPDATE of a handler fails
    "insertErr",    \* the INSERT of a result fails
    "timeout",      \* the agent gives up on a call the server still runs
    "serverCrash",  \* the server process restarts
    "agentCrash",   \* an agent process restarts
    "startErr",     \* a script cannot be prepared or started
    "fileErr",      \* a done flag is not written, left empty, or not readable
    "killErr" }     \* the processes of a task cannot (all) be killed

ASSUME HostsAssumption == Hosts # {}
ASSUME HostsOfAssumption == HostsOf \in [Tasks -> SUBSET Hosts]
ASSUME NewActionsAssumption == NewActions \subseteq ColumnActions
ASSUME ChangesAssumption == Changes \subseteq ColumnActions
ASSUME FaultsAssumption == Faults \subseteq FaultKinds

\* One entry of TaskReportRequest.ReportTasks, and one of AssignTasks.
Reports == [id : Tasks, status : Statuses]
Assigns == [id : Tasks, action : Actions]

VARIABLES
    posted,   \* the rows of task_meta
    done,     \* those whose done column is 1
    action,   \* their action column
    rows,     \* rows[t][h]: the task_result rows of task t on host h, in order
    cache,    \* Cache.M: host -> tasks to run
    snap,     \* doSyncTask between its SELECT and the swap of Cache.M
    handler   \* the TaskReport calls being served

serverVars == <<posted, done, action, rows, cache, snap, handler>>

NoTasks == [h \in Hosts |-> {}]
NoSync == [busy |-> FALSE, m |-> NoTasks]

(* A handler: the host that called, the reports it has not looked at yet,  *)
(* the one whose SELECT found no row (about to be inserted), and the ids   *)
(* it will mark done (toMarkDoneIds).                                      *)
HandlerStates == [busy : BOOLEAN, host : Hosts, todo : SUBSET Reports,
                  fresh : SUBSET Reports, added : SUBSET Tasks]

AnyHost == CHOOSE h \in Hosts : TRUE
FreeHandler == [busy |-> FALSE, host |-> AnyHost, todo |-> {}, fresh |-> {}, added |-> {}]
Finish(s) == handler' = [handler EXCEPT ![s] = FreeHandler]

ServerTypeOK ==
    /\ posted \subseteq Tasks
    /\ done \subseteq posted
    /\ action \in [Tasks -> ColumnActions]
    /\ rows \in [Tasks -> [Hosts -> Seq(Statuses)]]
    /\ cache \in [Hosts -> SUBSET Assigns]
    /\ snap \in [busy : BOOLEAN, m : [Hosts -> SUBSET Assigns]]
    /\ handler \in [Handlers -> HandlerStates]

ServerInit ==
    /\ posted = {}
    /\ done = {}
    /\ action = [t \in Tasks |-> ""]
    /\ rows = [t \in Tasks |-> [h \in Hosts |-> <<>>]]
    /\ cache = NoTasks
    /\ snap = NoSync
    /\ handler = [s \in Handlers |-> FreeHandler]

-----------------------------------------------------------------------------
(* The task_meta table.                                                    *)

\* POST /task stores a new task.
TaskAdd(t, a) ==
    /\ t \notin posted
    /\ posted' = posted \cup {t}
    /\ action' = [action EXCEPT ![t] = a]
    /\ UNCHANGED <<done, rows, cache, snap, handler>>

\* An operator edits the action of a task; no code under src/ does.
SetAction(t, a) ==
    /\ t \in posted
    /\ action[t] # a
    /\ action' = [action EXCEPT ![t] = a]
    /\ UNCHANGED <<posted, done, rows, cache, snap, handler>>

-----------------------------------------------------------------------------
(* The cache of undone tasks, rebuilt every 15 seconds.                    *)

\* A mistake a run must notice: the WHERE clause is lost.
AllTaskMeta == posted

UnDoTaskMeta == posted \ done

\* An empty action means start.
CachedAction(t) == IF action[t] = "" THEN "start" ELSE action[t]

TasksByHost == [h \in Hosts |->
    {[id |-> t, action |-> CachedAction(t)] : t \in {u \in UnDoTaskMeta : h \in HostsOf[u]}}]

\* doSyncTask reads the undone tasks (a failing SELECT changes nothing) ...
SyncRead ==
    /\ ~snap.busy
    /\ snap' = [busy |-> TRUE, m |-> TasksByHost]
    /\ UNCHANGED <<posted, done, action, rows, cache, handler>>

\* ... and swaps the new map in.
SyncSwap ==
    /\ snap.busy
    /\ cache' = snap.m
    /\ snap' = NoSync
    /\ UNCHANGED <<posted, done, action, rows, handler>>

GetTasksByIp(h) == cache[h]

-----------------------------------------------------------------------------
(* The TaskReport handler.                                                 *)

\* A call of host h with the given reports reaches the server.
Receive(s, h, reports) ==
    /\ ~handler[s].busy
    /\ handler' = [handler EXCEPT ![s] =
            [busy |-> TRUE, host |-> h, todo |-> reports, fresh |-> {}, added |-> {}]]
    /\ UNCHANGED <<posted, done, action, rows, cache, snap>>

\* A mistake in HasRow a run must notice: no look.
NeverHasRow(t, h) == FALSE

HasRow(t, h) == rows[t][h] # <<>>

\* TaskResult.Save looks for a row of this task and host.
SaveGet(s) ==
    /\ handler[s].busy /\ handler[s].fresh = {}
    /\ \E x \in handler[s].todo :
        handler' = [handler EXCEPT ![s] =
            [handler[s] EXCEPT !.todo = @ \ {x},
                      !.fresh = IF HasRow(x.id, handler[s].host) THEN {} ELSE {x}]]
    /\ UNCHANGED <<posted, done, action, rows, cache, snap>>

\* It found none: insert one.  The error of the INSERT is dropped, so the
\* task counts as added either way.
SaveInsert(s) ==
    /\ handler[s].busy
    /\ \E x \in handler[s].fresh :
        /\ \/ rows' = [rows EXCEPT ![x.id][handler[s].host] = Append(@, x.status)]
           \/ "insertErr" \in Faults /\ UNCHANGED rows
        /\ handler' = [handler EXCEPT ![s] = [handler[s] EXCEPT !.fresh = {}, !.added = @ \cup {x.id}]]
    /\ UNCHANGED <<posted, done, action, cache, snap>>

\* All results saved: DoTaskMetaMark sets done = 1 for one added task.
DoTaskMetaMark(s) ==
    /\ handler[s].busy /\ handler[s].todo = {} /\ handler[s].fresh = {}
    /\ \E id \in handler[s].added :
        /\ done' = done \cup ({id} \cap posted)
        /\ handler' = [handler EXCEPT ![s] = [handler[s] EXCEPT !.added = @ \ {id}]]
    /\ UNCHANGED <<posted, action, rows, cache, snap>>

\* The SELECT of Save or the UPDATE of DoTaskMetaMark fails: the handler
\* returns the error, whatever it has not done yet stays undone.
HandlerErr(s) ==
    /\ "dbErr" \in Faults
    /\ handler[s].busy /\ handler[s].fresh = {}
    /\ handler[s].todo # {} \/ handler[s].added # {}
    /\ Finish(s)
    /\ UNCHANGED <<posted, done, action, rows, cache, snap>>

\* Nothing left to do: the handler replies with GetTasksByIp(host).
Reply(s) ==
    /\ handler[s].busy /\ handler[s].todo = {} /\ handler[s].fresh = {} /\ handler[s].added = {}
    /\ Finish(s)
    /\ UNCHANGED <<posted, done, action, rows, cache, snap>>

\* The server process restarts with an empty cache (CacheNew).
ServerRestart ==
    /\ "serverCrash" \in Faults
    /\ cache' = NoTasks
    /\ snap' = NoSync
    /\ handler' = [s \in Handlers |-> FreeHandler]
    /\ UNCHANGED <<posted, done, action, rows>>

\* Steps the server takes on its own, for any agents.
ServerStep ==
    \/ \E t \in Tasks, a \in NewActions : TaskAdd(t, a)
    \/ \E t \in Tasks, a \in Changes : SetAction(t, a)
    \/ SyncRead
    \/ SyncSwap
    \/ \E s \in Handlers : SaveGet(s) \/ SaveInsert(s) \/ DoTaskMetaMark(s)

=============================================================================
