------------------------------ MODULE TaskAgent ------------------------------
(***************************************************************************)
(* The agent half of the remote-task feature (cmd/agent/task/task.go), on  *)
(* every host: the map of local tasks, the goroutines that wait for a      *)
(* script or kill it, and the done flags on disk.                          *)
(*                                                                         *)
(* One goroutine per agent, the RPC loop, builds reports and assigns       *)
(* tasks.  It shares each Task with the runProcess and killProcess         *)
(* goroutines it starts; Task.Status and Task.alive are locked one access  *)
(* at a time, so every access is a step of its own.                        *)
(*                                                                         *)
(* LocalTask.Clean is never called: a local task is forgotten only when    *)
(* the agent restarts.  Output is left out, results are their status.      *)
(***************************************************************************)
EXTENDS TaskServer

CONSTANT Routines   \* bound: runProcess/killProcess goroutines of one agent

VARIABLES
    local,    \* local[h][t]: LocalTask.M of the agent on host h
    disk,     \* disk[h][t]: the content of the done flag, or NoFile
    routine,  \* routine[h][g]: the goroutines of the agent
    orphan,   \* orphan[h]: tasks whose script outlived the agent that started it
    loop,     \* loop[h]: the RPC loop
    ran,      \* history: tasks whose script this run of the agent has started
    seen      \* history: seen[h][t], the events behind a status

agentVars == <<local, disk, routine, orphan, loop, ran, seen>>

NoFile == "nofile"
DiskContents == Statuses \cup {NoFile}

LocalTasks == [known : BOOLEAN, action : Actions, status : Statuses, alive : BOOLEAN]
NotKnown == [known |-> FALSE, action |-> "start", status |-> "", alive |-> FALSE]

(* A goroutine: its task, where it is, the state of the script it waits    *)
(* for ("lost" when its command is not its own any more), and the status   *)
(* persistResult has read and is about to write.                           *)
RoutinePcs == {"none", "run", "wait", "kill", "signal", "signalled", "unkilled",
               "read", "write", "writing", "end"}
Procs == {"none", "running", "exit0", "exitErr", "lost"}
RoutineStates == [pc : RoutinePcs, task : Tasks, proc : Procs, status : Statuses]
AnyTask == CHOOSE t \in Tasks : TRUE
NoRoutine == [pc |-> "none", task |-> AnyTask, proc |-> "none", status |-> ""]
Runner(t) == [pc |-> "run", task |-> t, proc |-> "running", status |-> ""]
Killer(t) == [pc |-> "kill", task |-> t, proc |-> "none", status |-> ""]

(* The RPC loop: waiting for the ticker, waiting for the reply, or         *)
(* assigning the tasks of the reply, at one of the steps of AssignTask.    *)
LoopPcs == {"idle", "call", "assign", "load", "act", "start"}
LoopStates == [pc : LoopPcs, todo : SUBSET Assigns, task : Tasks]
Idle == [pc |-> "idle", todo |-> {}, task |-> AnyTask]

Events == {"exit0", "exitErr", "kill", "lost"}

ASSUME TasksAssumption == Tasks # {}

AgentTypeOK ==
    /\ local \in [Hosts -> [Tasks -> LocalTasks]]
    /\ disk \in [Hosts -> [Tasks -> DiskContents]]
    /\ routine \in [Hosts -> [Routines -> RoutineStates]]
    /\ orphan \in [Hosts -> SUBSET Tasks]
    /\ loop \in [Hosts -> LoopStates]
    /\ ran \in [Hosts -> SUBSET Tasks]
    /\ seen \in [Hosts -> [Tasks -> SUBSET Events]]

AgentInit ==
    /\ local = [h \in Hosts |-> [t \in Tasks |-> NotKnown]]
    /\ disk = [h \in Hosts |-> [t \in Tasks |-> NoFile]]
    /\ routine = [h \in Hosts |-> [g \in Routines |-> NoRoutine]]
    /\ orphan = [h \in Hosts |-> {}]
    /\ loop = [h \in Hosts |-> Idle]
    /\ ran = [h \in Hosts |-> {}]
    /\ seen = [h \in Hosts |-> [t \in Tasks |-> {}]]

-----------------------------------------------------------------------------
(* LocalTask: reporting and assigning, both in the RPC loop.               *)

\* Mistakes a run must notice: unfinished tasks are reported, or failed ones are not.
ReportAllTasks(h) ==
    {[id |-> t, status |-> local[h][t].status] : t \in {u \in Tasks : local[h][u].known}}
ReportSuccesses(h) == {x \in ReportAllTasks(h) : x.status = "success"}

\* Everything known that is not running or being killed, reported before or not.
ReportTasks(h) ==
    {[id |-> t, status |-> local[h][t].status] :
        t \in {u \in Tasks : local[h][u].known
                             /\ local[h][u].status \notin {"running", "killing"}}}

\* The loop leaves AssignTask and goes on with the next task of the reply.
NextAssign(h) == loop' = [loop EXCEPT ![h].pc = "assign"]

\* Mistakes a run must notice: the same action is carried out again, or another
\* action is not.
AssignsAgain(h, a) == ~local[h][a.id].known /\ a.action = "kill"
IgnoresKnown(h, a) == local[h][a.id].known \/ a.action = "kill"

\* AssignTask returns at once: the task is as it was, or there is nothing to kill.
AssignIgnored(h, a) ==
    \/ local[h][a.id].known /\ local[h][a.id].action = a.action
    \/ ~local[h][a.id].known /\ a.action = "kill"

\* Mistakes a run must notice: the done flag is not looked for, or not missed.
NeverDoneBefore(h, t) == FALSE
AlwaysDoneBefore(h, t) == TRUE

DoneBefore(h, t) == disk[h][t] # NoFile

\* AssignTask up to DoneBefore: only this loop touches the map and the action.
AssignTask(h) ==
    /\ loop[h].pc = "assign"
    /\ \E a \in loop[h].todo :
        IF AssignIgnored(h, a)
        THEN /\ loop' = [loop EXCEPT ![h].todo = @ \ {a}]
             /\ UNCHANGED local
        ELSE /\ local' = [local EXCEPT ![h][a.id] =
                    [local[h][a.id] EXCEPT !.known = TRUE, !.action = a.action]]
             /\ loop' = [loop EXCEPT ![h] = [loop[h] EXCEPT !.todo = @ \ {a}, !.task = a.id,
                            !.pc = IF DoneBefore(h, a.id) THEN "load" ELSE "act"]]
    /\ UNCHANGED <<disk, routine, orphan, ran, seen>>

\* LoadResult: the status is what the done flag holds by now, or "" when the
\* flag cannot be read.
LoadResult(h) ==
    /\ loop[h].pc = "load"
    /\ \/ local' = [local EXCEPT ![h][loop[h].task].status = disk[h][loop[h].task]]
       \/ "fileErr" \in Faults /\ local' = [local EXCEPT ![h][loop[h].task].status = ""]
    /\ NextAssign(h)
    /\ UNCHANGED <<disk, routine, orphan, ran, seen>>

\* The action is kill: SetStatus("killing"), and a goroutine to kill it.
Kill(h) ==
    /\ loop[h].pc = "act"
    /\ local[h][loop[h].task].action = "kill"
    /\ local' = [local EXCEPT ![h][loop[h].task].status = "killing"]
    /\ \E g \in Routines :
        /\ routine[h][g].pc = "none"
        /\ routine' = [routine EXCEPT ![h][g] = Killer(loop[h].task)]
    /\ NextAssign(h)
    /\ UNCHANGED <<disk, orphan, ran, seen>>

\* The action is start: SetStatus("running"), then Start.
SetRunning(h) ==
    /\ loop[h].pc = "act"
    /\ local[h][loop[h].task].action = "start"
    /\ local' = [local EXCEPT ![h][loop[h].task].status = "running"]
    /\ loop' = [loop EXCEPT ![h].pc = "start"]
    /\ UNCHANGED <<disk, routine, orphan, ran, seen>>

\* Any other action: a warning, the status stays what it was.
UnknownAction(h) ==
    /\ loop[h].pc = "act"
    /\ local[h][loop[h].task].action = "other"
    /\ NextAssign(h)
    /\ UNCHANGED <<local, disk, routine, orphan, ran, seen>>

\* Start finds the task alive, or fails to prepare the script.
NotStarted(h) ==
    /\ loop[h].pc = "start"
    /\ local[h][loop[h].task].alive \/ "startErr" \in Faults
    /\ NextAssign(h)
    /\ UNCHANGED <<local, disk, routine, orphan, ran, seen>>

(* Start stores a new command in Task.Cmd, for the goroutine in slot new (if *)
(* any) to wait for.  A goroutine started for the task before that has not    *)
(* read Task.Cmd yet will wait for the new command as well, and fail; nobody  *)
(* waits for its own script any more.                                         *)
ReplaceCmd(h, new) ==
    LET t == loop[h].task
        At(pcs) == {r \in Routines : routine[h][r].task = t /\ routine[h][r].pc \in pcs}
    IN  \E lost \in SUBSET At({"run", "wait"}) :
        /\ At({"run"}) \subseteq lost
        /\ routine' = [routine EXCEPT ![h] = [r \in Routines |->
                IF r \in new THEN Runner(t)
                ELSE IF r \in lost THEN [routine[h][r] EXCEPT !.proc = "lost"] ELSE routine[h][r]]]
        /\ orphan' = [orphan EXCEPT ![h] =
                @ \cup {routine[h][r].task : r \in {q \in lost : routine[h][q].proc = "running"}}]
        /\ seen' = [seen EXCEPT ![h][t] = @ \cup (IF lost = {} THEN {} ELSE {"lost"})]

\* Start fails after it has stored the command.
StartFails(h) ==
    /\ "startErr" \in Faults
    /\ loop[h].pc = "start"
    /\ ~local[h][loop[h].task].alive
    /\ ReplaceCmd(h, {})
    /\ NextAssign(h)
    /\ UNCHANGED <<local, disk, ran>>

\* Start starts the script and the goroutine that waits for it.
Start(h) ==
    /\ loop[h].pc = "start"
    /\ ~local[h][loop[h].task].alive
    /\ \E g \in {r \in Routines : routine[h][r].pc = "none"} : ReplaceCmd(h, {g})
    /\ ran' = [ran EXCEPT ![h] = @ \cup {loop[h].task}]
    /\ NextAssign(h)
    /\ UNCHANGED <<local, disk>>

\* Every task of the reply is assigned: wait for the next tick.
AssignedAll(h) ==
    /\ loop[h].pc = "assign" /\ loop[h].todo = {}
    /\ loop' = [loop EXCEPT ![h] = Idle]
    /\ UNCHANGED <<local, disk, routine, orphan, ran, seen>>

-----------------------------------------------------------------------------
(* The goroutines.                                                         *)

\* Goroutine g of host h moves from one pc to another.
Goto(h, g, from, to) ==
    /\ routine[h][g].pc = from
    /\ routine' = [routine EXCEPT ![h][g].pc = to]

SetAlive(h, g, v) == local' = [local EXCEPT ![h][routine[h][g].task].alive = v]
SetStatus(h, g, st) == local' = [local EXCEPT ![h][routine[h][g].task].status = st]
Saw(h, t, e) == seen' = [seen EXCEPT ![h][t] = @ \cup {e}]

\* The script ends, well or not (the operating system, external).
ScriptEnds(h, g) ==
    /\ routine[h][g].proc = "running"
    /\ \E e \in {"exit0", "exitErr"} :
        /\ routine' = [routine EXCEPT ![h][g].proc = e]
        /\ Saw(h, routine[h][g].task, e)
    /\ UNCHANGED <<local, disk, orphan, loop, ran>>

\* A script that lost its agent ends; nobody waits for it.
OrphanEnds(h, t) ==
    /\ t \in orphan[h]
    /\ orphan' = [orphan EXCEPT ![h] = @ \ {t}]
    /\ UNCHANGED <<local, disk, routine, loop, ran, seen>>

\* runProcess begins: SetAlive(true).
RunBegin(h, g) ==
    /\ Goto(h, g, "run", "wait")
    /\ SetAlive(h, g, TRUE)
    /\ UNCHANGED <<disk, orphan, loop, ran, seen>>

\* A mistake a run must notice: the error of Cmd.Wait is dropped.
AlwaysSuccess(proc) == "success"

\* "success", or "killed" for every error of Cmd.Wait: the test for another
\* kind of error never fails, so "failed" is never set.
ExitStatus(proc) == IF proc = "exit0" THEN "success" ELSE "killed"

\* Cmd.Wait returns.
RunWaited(h, g) ==
    /\ routine[h][g].pc = "wait"
    /\ routine[h][g].proc \in {"exit0", "exitErr", "lost"}
    /\ routine' = [routine EXCEPT ![h][g] =
            [routine[h][g] EXCEPT !.pc = "read", !.proc = "none"]]
    /\ SetStatus(h, g, ExitStatus(routine[h][g].proc))
    /\ UNCHANGED <<disk, orphan, loop, ran, seen>>

\* killProcess begins: SetAlive(true).
KillBegin(h, g) ==
    /\ Goto(h, g, "kill", "signal")
    /\ SetAlive(h, g, TRUE)
    /\ Saw(h, routine[h][g].task, "kill")
    /\ UNCHANGED <<disk, orphan, loop, ran>>

\* KillProcessByTaskID kills every process whose command line names the
\* script, the orphans too; on an error any part of them may be left.
KillProcess(h, g) ==
    LET t == routine[h][g].task
        targets == {r \in Routines : routine[h][r].task = t /\ routine[h][r].proc = "running"}
        Killed(hit, pc) ==
            /\ routine' = [routine EXCEPT ![h] = [r \in Routines |->
                    IF r = g THEN [routine[h][r] EXCEPT !.pc = pc]
                    ELSE IF r \in hit THEN [routine[h][r] EXCEPT !.proc = "exitErr"] ELSE routine[h][r]]]
            /\ seen' = [seen EXCEPT ![h][t] = @ \cup (IF hit = {} THEN {} ELSE {"exitErr"})]
    IN  /\ routine[h][g].pc = "signal"
        /\ \/ Killed(targets, "signalled") /\ orphan' = [orphan EXCEPT ![h] = @ \ {t}]
           \/ /\ "killErr" \in Faults
              /\ \E hit \in SUBSET targets : Killed(hit, "unkilled")
              /\ \/ UNCHANGED orphan
                 \/ orphan' = [orphan EXCEPT ![h] = @ \ {t}]
        /\ UNCHANGED <<local, disk, loop, ran>>

\* killProcess stores how that went.
KillStatus(h, g) ==
    /\ \/ Goto(h, g, "signalled", "read") /\ SetStatus(h, g, "killed")
       \/ Goto(h, g, "unkilled", "read") /\ SetStatus(h, g, "killfailed")
    /\ UNCHANGED <<disk, orphan, loop, ran, seen>>

\* persistResult reads the status as it is by now ...
PersistRead(h, g) ==
    /\ routine[h][g].pc = "read"
    /\ routine' = [routine EXCEPT ![h][g] = [routine[h][g] EXCEPT
            !.pc = "write", !.status = local[h][routine[h][g].task].status]]
    /\ UNCHANGED <<local, disk, orphan, loop, ran, seen>>

\* ... creates the done flag, or empties it ...
PersistCreate(h, g) ==
    /\ Goto(h, g, "write", "writing")
    /\ disk' = [disk EXCEPT ![h][routine[h][g].task] = ""]
    /\ UNCHANGED <<local, orphan, loop, ran, seen>>

\* ... and writes it.  What another goroutine has written in between may show
\* at the end, if it is longer (the lengths are left out).
PersistWrite(h, g) ==
    LET t == routine[h][g].task
        torn == IF disk[h][t] \in {"", routine[h][g].status} THEN {} ELSE {"torn"}
    IN  /\ routine[h][g].pc = "writing"
        /\ routine' = [routine EXCEPT ![h][g] = [routine[h][g] EXCEPT !.pc = "end", !.status = ""]]
        /\ \E text \in {routine[h][g].status} \cup torn : disk' = [disk EXCEPT ![h][t] = text]
        /\ UNCHANGED <<local, orphan, loop, ran, seen>>

\* Either of them fails; nobody looks at the error.
PersistFails(h, g) ==
    /\ "fileErr" \in Faults
    /\ routine[h][g].pc \in {"write", "writing"}
    /\ routine' = [routine EXCEPT ![h][g] = [routine[h][g] EXCEPT !.pc = "end", !.status = ""]]
    /\ UNCHANGED <<local, disk, orphan, loop, ran, seen>>

\* The goroutine returns: the deferred SetAlive(false).
RoutineEnd(h, g) ==
    /\ routine[h][g].pc = "end"
    /\ routine' = [routine EXCEPT ![h][g] = NoRoutine]
    /\ SetAlive(h, g, FALSE)
    /\ UNCHANGED <<disk, orphan, loop, ran, seen>>

\* The agent process goes away and comes back with empty memory; a script it
\* had started goes on, or went with it.
Restarted(h) ==
    /\ "agentCrash" \in Faults
    /\ local' = [local EXCEPT ![h] = [t \in Tasks |-> NotKnown]]
    /\ routine' = [routine EXCEPT ![h] = [g \in Routines |-> NoRoutine]]
    /\ \E left \in SUBSET ({routine[h][g].task :
                g \in {r \in Routines : routine[h][r].proc = "running"}} \cup orphan[h]) :
            orphan' = [orphan EXCEPT ![h] = left]
    /\ loop' = [loop EXCEPT ![h] = Idle]
    /\ ran' = [ran EXCEPT ![h] = {}]
    /\ UNCHANGED <<disk, seen>>

RoutineStep(h, g) ==
    \/ RunBegin(h, g) \/ RunWaited(h, g)
    \/ KillBegin(h, g) \/ KillProcess(h, g) \/ KillStatus(h, g)
    \/ PersistRead(h, g) \/ PersistCreate(h, g) \/ PersistWrite(h, g) \/ PersistFails(h, g)
    \/ RoutineEnd(h, g)

AssignStep(h) ==
    \/ AssignTask(h) \/ LoadResult(h) \/ Kill(h) \/ SetRunning(h) \/ UnknownAction(h)
    \/ NotStarted(h) \/ StartFails(h) \/ Start(h) \/ AssignedAll(h)

AgentStep(h) ==
    \/ AssignStep(h)
    \/ \E g \in Routines : RoutineStep(h, g) \/ ScriptEnds(h, g)
    \/ \E t \in Tasks : OrphanEnds(h, t)

=============================================================================
