-------------------------- MODULE TaskSafetyProofs --------------------------
(***************************************************************************)
(* Every variable of TaskSystem keeps its type (TypeOK), and EarnedInv is  *)
(* inductive, so what TaskSystem records and closes is earned: for every   *)
(* number of tasks, hosts, handlers and goroutines and under every choice  *)
(* of faults.                                                              *)
(*                                                                         *)
(* First type correctness, then the flow of each kind of data in one step  *)
(* (what may show up in a cache, a status, a done flag, a report, a row,   *)
(* and where it comes from), then each part of the invariant from the      *)
(* flows it depends on.                                                    *)
(***************************************************************************)
EXTENDS TaskInvariant, TLAPS

-----------------------------------------------------------------------------
(* Type correctness.                                                       *)

TypeInv == TypeOK /\ LoadsFlag

\* The members picked by CHOOSE exist, so the idle values have their types.
LEMMA AnyTyped == AnyHost \in Hosts /\ AnyTask \in Tasks
  BY HostsAssumption, TasksAssumption DEF AnyHost, AnyTask

LEMMA IdleTyped ==
    /\ FreeHandler \in HandlerStates
    /\ NoRoutine \in RoutineStates
    /\ Idle \in LoopStates
    /\ NotKnown \in LocalTasks
    /\ NoTasks \in [Hosts -> SUBSET Assigns]
  BY AnyTyped DEF FreeHandler, HandlerStates, NoRoutine, RoutineStates, RoutinePcs, Procs,
     Statuses, Idle, LoopStates, LoopPcs, NotKnown, LocalTasks, Actions, NoTasks

LEMMA InitType == Init => TypeInv
  <1> SUFFICES ASSUME Init PROVE TypeInv
    OBVIOUS
  <1>1. ServerTypeOK
    <2>1. action \in [Tasks -> ColumnActions]
      BY DEF Init, ServerInit, ColumnActions
    <2>2. rows = [t \in Tasks |-> [h \in Hosts |-> <<>>]]
      BY DEF Init, ServerInit
    <2>3. rows \in [Tasks -> [Hosts -> Seq(Statuses)]]
      BY <2>2
    <2>4. snap \in [busy : BOOLEAN, m : [Hosts -> SUBSET Assigns]]
      BY IdleTyped DEF Init, ServerInit, NoSync
    <2>5. handler \in [Handlers -> HandlerStates]
      BY IdleTyped DEF Init, ServerInit
    <2>6. posted = {} /\ done = {} /\ cache \in [Hosts -> SUBSET Assigns]
      BY IdleTyped DEF Init, ServerInit
    <2> QED
      BY <2>1, <2>3, <2>4, <2>5, <2>6 DEF ServerTypeOK
  <1>2. AgentTypeOK
    BY IdleTyped DEF Init, AgentInit, AgentTypeOK, DiskContents
  <1>3. conn \in [Hosts -> SUBSET Handlers]
    BY DEF Init
  <1>4. LoadsFlag
    BY DEF Init, AgentInit, LoadsFlag, Idle
  <1> QED
    BY <1>1, <1>2, <1>3, <1>4 DEF TypeInv, TypeOK

\* What an agent reports and what a synchronisation finds are well-formed.
LEMMA ReportsTyped ==
    ASSUME AgentTypeOK, NEW h \in Hosts
    PROVE  ReportTasks(h) \in SUBSET Reports
  BY DEF AgentTypeOK, LocalTasks, ReportTasks, Reports

LEMMA TasksByHostTyped ==
    ASSUME ServerTypeOK
    PROVE  TasksByHost \in [Hosts -> SUBSET Assigns]
  <1>1. \A t \in UnDoTaskMeta : [id |-> t, action |-> CachedAction(t)] \in Assigns
    BY DEF ServerTypeOK, UnDoTaskMeta, CachedAction, Assigns, Actions, ColumnActions
  <1> QED
    BY <1>1 DEF TasksByHost

LEMMA ServerStepType == ServerTypeOK /\ ServerStep => ServerTypeOK'
  <1> SUFFICES ASSUME ServerTypeOK, ServerStep PROVE ServerTypeOK'
    OBVIOUS
  <1>a. posted \subseteq Tasks /\ done \subseteq posted
    BY DEF ServerTypeOK
  <1>b. action \in [Tasks -> ColumnActions]
    BY DEF ServerTypeOK
  <1>c. rows \in [Tasks -> [Hosts -> Seq(Statuses)]]
    BY DEF ServerTypeOK
  <1>d. cache \in [Hosts -> SUBSET Assigns]
    BY DEF ServerTypeOK
  <1>e. snap \in [busy : BOOLEAN, m : [Hosts -> SUBSET Assigns]]
    BY DEF ServerTypeOK
  <1>f. handler \in [Handlers -> HandlerStates]
    BY DEF ServerTypeOK
  <1>1. ASSUME NEW t \in Tasks, NEW a \in NewActions, TaskAdd(t, a) PROVE ServerTypeOK'
    BY <1>1, NewActionsAssumption DEF TaskAdd, ServerTypeOK
  <1>2. ASSUME NEW t \in Tasks, NEW a \in Changes, SetAction(t, a) PROVE ServerTypeOK'
    BY <1>2, ChangesAssumption DEF SetAction, ServerTypeOK
  <1>3. CASE SyncRead
    BY <1>3, TasksByHostTyped DEF SyncRead, ServerTypeOK
  <1>4. CASE SyncSwap
    BY <1>4, IdleTyped DEF SyncSwap, NoSync, ServerTypeOK
  <1>5. ASSUME NEW s \in Handlers, SaveGet(s) PROVE ServerTypeOK'
    <2>1. PICK x \in handler[s].todo, new \in SUBSET handler[s].todo :
            handler' = [handler EXCEPT ![s] = [handler[s] EXCEPT !.todo = @ \ {x}, !.fresh = new]]
      BY <1>5 DEF SaveGet
    <2> DEFINE r == [handler[s] EXCEPT !.todo = @ \ {x}, !.fresh = new]
    <2>2. handler' = [handler EXCEPT ![s] = r]
      BY <1>f, <2>1
    <2>3. r \in HandlerStates
      BY <1>f DEF HandlerStates
    <2>4. handler' \in [Handlers -> HandlerStates]
      <3> HIDE DEF r
      <3> QED
        BY <1>f, <2>2, <2>3
    <2> QED
      BY <1>5, <2>4 DEF SaveGet, ServerTypeOK
  <1>6. ASSUME NEW s \in Handlers, SaveInsert(s) PROVE ServerTypeOK'
    <2>1. PICK x \in handler[s].fresh :
            /\ \/ rows' = [rows EXCEPT ![x.id][handler[s].host] = Append(@, x.status)]
               \/ UNCHANGED rows
            /\ handler' = [handler EXCEPT ![s] = [handler[s] EXCEPT !.fresh = {}, !.added = @ \cup {x.id}]]
      BY <1>6 DEF SaveInsert
    <2>2. handler[s] \in HandlerStates
      BY <1>f
    <2>3. x.id \in Tasks /\ x.status \in Statuses /\ handler[s].host \in Hosts
      BY <2>2 DEF HandlerStates, Reports
    <2> DEFINE r == [handler[s] EXCEPT !.fresh = {}, !.added = @ \cup {x.id}]
    <2>4. rows' \in [Tasks -> [Hosts -> Seq(Statuses)]]
      <3>1. rows[x.id][handler[s].host] \in Seq(Statuses)
        BY <1>c, <2>3
      <3>2. Append(rows[x.id][handler[s].host], x.status) \in Seq(Statuses)
        BY <3>1, <2>3
      <3>3. CASE rows' = [rows EXCEPT ![x.id][handler[s].host] = Append(@, x.status)]
        BY <1>c, <2>3, <3>2, <3>3
      <3> QED
        BY <1>c, <2>1, <3>3
    <2>5. r \in HandlerStates
      BY <2>2, <2>3 DEF HandlerStates
    <2>6. handler' \in [Handlers -> HandlerStates]
      <3>1. handler' = [handler EXCEPT ![s] = r]
        BY <1>f, <2>1
      <3> HIDE DEF r
      <3> QED
        BY <1>f, <2>5, <3>1
    <2> QED
      BY <1>6, <2>4, <2>6 DEF SaveInsert, ServerTypeOK
  <1>7. ASSUME NEW s \in Handlers, DoTaskMetaMark(s) PROVE ServerTypeOK'
    <2>1. PICK id \in handler[s].added :
            /\ done' = done \cup ({id} \cap posted)
            /\ handler' = [handler EXCEPT ![s] = [handler[s] EXCEPT !.added = @ \ {id}]]
      BY <1>7 DEF DoTaskMetaMark
    <2> DEFINE r == [handler[s] EXCEPT !.added = @ \ {id}]
    <2>2. r \in HandlerStates
      BY <1>f DEF HandlerStates
    <2>3. handler' \in [Handlers -> HandlerStates]
      <3>1. handler' = [handler EXCEPT ![s] = r]
        BY <1>f, <2>1
      <3> HIDE DEF r
      <3> QED
        BY <1>f, <2>2, <3>1
    <2> QED
      BY <1>7, <2>1, <2>3 DEF DoTaskMetaMark, ServerTypeOK
  <1> QED
    BY <1>1, <1>2, <1>3, <1>4, <1>5, <1>6, <1>7 DEF ServerStep

\* What ReplaceCmd does to the goroutines: the slots in lost waited for the task,
\* those in new are taken by it.
ReplacedBy(h, new, lost) ==
    /\ \A r \in lost : routine[h][r].task = loop[h].task /\ routine[h][r].pc \in {"run", "wait"}
    /\ routine' = [routine EXCEPT ![h] = [r \in Routines |->
            IF r \in new THEN Runner(loop[h].task)
            ELSE IF r \in lost THEN [routine[h][r] EXCEPT !.proc = "lost"]
            ELSE routine[h][r]]]
    /\ orphan' = [orphan EXCEPT ![h] =
            @ \cup {routine[h][r].task : r \in {q \in lost : routine[h][q].proc = "running"}}]
    /\ seen' = [seen EXCEPT ![h][loop[h].task] = @ \cup (IF lost = {} THEN {} ELSE {"lost"})]

LEMMA Replaces ==
    ASSUME NEW h \in Hosts, NEW new, ReplaceCmd(h, new)
    PROVE  \E lost \in SUBSET Routines : ReplacedBy(h, new, lost)
  <1> DEFINE At(pcs) == {r \in Routines : routine[h][r].task = loop[h].task /\ routine[h][r].pc \in pcs}
  <1>1. PICK lost \in SUBSET At({"run", "wait"}) :
            /\ routine' = [routine EXCEPT ![h] = [r \in Routines |->
                    IF r \in new THEN Runner(loop[h].task)
                    ELSE IF r \in lost THEN [routine[h][r] EXCEPT !.proc = "lost"]
                    ELSE routine[h][r]]]
            /\ orphan' = [orphan EXCEPT ![h] =
                    @ \cup {routine[h][r].task : r \in {q \in lost : routine[h][q].proc = "running"}}]
            /\ seen' = [seen EXCEPT ![h][loop[h].task] =
                    @ \cup (IF lost = {} THEN {} ELSE {"lost"})]
    BY DEF ReplaceCmd
  <1>2. lost \in SUBSET Routines
    OBVIOUS
  <1>3. \A r \in lost : routine[h][r].task = loop[h].task /\ routine[h][r].pc \in {"run", "wait"}
    OBVIOUS
  <1>4. ReplacedBy(h, new, lost)
    BY <1>1, <1>3 DEF ReplacedBy
  <1> QED
    BY <1>2, <1>4

LEMMA ReplaceCmdType ==
    ASSUME AgentTypeOK, NEW h \in Hosts, NEW new, ReplaceCmd(h, new)
    PROVE  /\ routine' \in [Hosts -> [Routines -> RoutineStates]]
           /\ orphan' \in [Hosts -> SUBSET Tasks]
           /\ seen' \in [Hosts -> [Tasks -> SUBSET Events]]
  <1>0. PICK lost \in SUBSET Routines : ReplacedBy(h, new, lost)
    BY Replaces
  <1>1. /\ \A r \in lost : routine[h][r].task = loop[h].task
                          /\ routine[h][r].pc \in {"run", "wait"}
        /\ routine' = [routine EXCEPT ![h] = [r \in Routines |->
                IF r \in new THEN Runner(loop[h].task)
                ELSE IF r \in lost THEN [routine[h][r] EXCEPT !.proc = "lost"]
                ELSE routine[h][r]]]
        /\ orphan' = [orphan EXCEPT ![h] =
                @ \cup {routine[h][r].task : r \in {q \in lost : routine[h][q].proc = "running"}}]
        /\ seen' = [seen EXCEPT ![h][loop[h].task] =
                @ \cup (IF lost = {} THEN {} ELSE {"lost"})]
    BY <1>0 DEF ReplacedBy
  <1>2. loop[h].task \in Tasks
    BY DEF AgentTypeOK, LoopStates
  <1>3. routine \in [Hosts -> [Routines -> RoutineStates]]
    BY DEF AgentTypeOK
  <1>4. routine' \in [Hosts -> [Routines -> RoutineStates]]
    <2> DEFINE R(r) == IF r \in new THEN Runner(loop[h].task)
                       ELSE IF r \in lost THEN [routine[h][r] EXCEPT !.proc = "lost"]
                       ELSE routine[h][r]
    <2>1. Runner(loop[h].task) \in RoutineStates
      BY <1>2 DEF Runner, RoutineStates, RoutinePcs, Procs, Statuses
    <2>2. ASSUME NEW r \in Routines PROVE R(r) \in RoutineStates
      <3>1. routine[h][r] \in RoutineStates
        BY <1>3
      <3>2. [routine[h][r] EXCEPT !.proc = "lost"] \in RoutineStates
        BY <3>1 DEF RoutineStates, Procs
      <3> QED
        BY <2>1, <3>1, <3>2
    <2>3. routine' = [routine EXCEPT ![h] = [r \in Routines |-> R(r)]]
      BY <1>1
    <2> HIDE DEF R
    <2> QED
      BY <1>3, <2>2, <2>3
  <1>5. orphan' \in [Hosts -> SUBSET Tasks]
    <2>1. orphan \in [Hosts -> SUBSET Tasks]
      BY DEF AgentTypeOK
    <2>2. {routine[h][r].task : r \in {q \in lost : routine[h][q].proc = "running"}} \subseteq Tasks
      BY <1>1, <1>2
    <2>3. PICK added \in SUBSET Tasks : orphan' = [orphan EXCEPT ![h] = @ \cup added]
      BY <1>1, <2>2
    <2> QED
      BY <2>1, <2>3
  <1>6. seen' \in [Hosts -> [Tasks -> SUBSET Events]]
    <2>1. seen \in [Hosts -> [Tasks -> SUBSET Events]]
      BY DEF AgentTypeOK
    <2>2. (IF lost = {} THEN {} ELSE {"lost"}) \subseteq Events
      BY DEF Events
    <2>3. PICK added \in SUBSET Events : seen' = [seen EXCEPT ![h][loop[h].task] = @ \cup added]
      BY <1>1, <2>2
    <2> QED
      BY <1>2, <2>1, <2>3
  <1> QED
    BY <1>4, <1>5, <1>6

\* The steps of AssignTask.
LEMMA AssignStepType ==
    ASSUME AgentTypeOK, LoadsFlag, NEW h \in Hosts, AssignStep(h)
    PROVE  AgentTypeOK' /\ LoadsFlag'
  <1>a. local \in [Hosts -> [Tasks -> LocalTasks]]
    BY DEF AgentTypeOK
  <1>b. disk \in [Hosts -> [Tasks -> DiskContents]]
    BY DEF AgentTypeOK
  <1>c. routine \in [Hosts -> [Routines -> RoutineStates]]
    BY DEF AgentTypeOK
  <1>d. orphan \in [Hosts -> SUBSET Tasks] /\ ran \in [Hosts -> SUBSET Tasks]
    BY DEF AgentTypeOK
  <1>e. loop \in [Hosts -> LoopStates]
    BY DEF AgentTypeOK
  <1>f. seen \in [Hosts -> [Tasks -> SUBSET Events]]
    BY DEF AgentTypeOK
  <1>g. loop[h].task \in Tasks /\ loop[h].todo \in SUBSET Assigns
    BY <1>e DEF LoopStates
  <1>h. ASSUME NextAssign(h), disk' = disk
        PROVE  loop' \in [Hosts -> LoopStates] /\ LoadsFlag'
    BY <1>e, <1>h DEF NextAssign, LoopStates, LoopPcs, LoadsFlag
  <1>i. ASSUME NEW st \in Statuses,
               local' = [local EXCEPT ![h][loop[h].task].status = st]
        PROVE  local' \in [Hosts -> [Tasks -> LocalTasks]]
    BY <1>a, <1>g, <1>i DEF LocalTasks
  <1>1. CASE AssignTask(h)
    <2>1. PICK a \in loop[h].todo :
            IF AssignIgnored(h, a)
            THEN /\ loop' = [loop EXCEPT ![h].todo = @ \ {a}]
                 /\ UNCHANGED local
            ELSE /\ local' = [local EXCEPT ![h][a.id] =
                        [local[h][a.id] EXCEPT !.known = TRUE, !.action = a.action]]
                 /\ loop' = [loop EXCEPT ![h] = [loop[h] EXCEPT !.todo = @ \ {a}, !.task = a.id,
                            !.pc = IF DoneBefore(h, a.id) THEN "load" ELSE "act"]]
      BY <1>1 DEF AssignTask
    <2>2. a.id \in Tasks /\ a.action \in Actions
      BY <1>g DEF Assigns
    <2>3. local' \in [Hosts -> [Tasks -> LocalTasks]]
      <3>1. CASE AssignIgnored(h, a)
        BY <1>a, <2>1, <3>1
      <3>2. CASE ~AssignIgnored(h, a)
        <4> DEFINE r == [local[h][a.id] EXCEPT !.known = TRUE, !.action = a.action]
        <4>1. local' = [local EXCEPT ![h][a.id] = r]
          BY <2>1, <3>2
        <4>2. r \in LocalTasks
          <5>1. local[h][a.id] \in LocalTasks
            BY <1>a, <2>2
          <5> QED
            BY <2>2, <5>1 DEF LocalTasks
        <4> HIDE DEF r
        <4> QED
          BY <1>a, <2>2, <4>1, <4>2
      <3> QED
        BY <3>1, <3>2
    <2> DEFINE pc == IF DoneBefore(h, a.id) THEN "load" ELSE "act"
               ignored == [loop[h] EXCEPT !.todo = @ \ {a}]
               accepted == [loop[h] EXCEPT !.todo = @ \ {a}, !.task = a.id, !.pc = pc]
    <2>4. loop[h] \in LoopStates /\ pc \in {"load", "act"}
      BY <1>e
    <2>5. ignored \in LoopStates /\ ignored.pc = "assign"
      BY <1>1, <2>4 DEF LoopStates, AssignTask
    <2>6. accepted \in LoopStates /\ accepted.pc = pc /\ accepted.task = a.id
      <3> HIDE DEF pc
      <3> QED
        BY <2>2, <2>4 DEF LoopStates, LoopPcs
    <2>7. loop' = [loop EXCEPT ![h] = ignored] \/ loop' = [loop EXCEPT ![h] = accepted]
      BY <1>e, <2>1
    <2>8. pc = "load" => disk[h][a.id] # NoFile
      BY DEF DoneBefore
    <2> HIDE DEF pc, ignored, accepted
    <2>9. loop' \in [Hosts -> LoopStates]
      BY <1>e, <2>5, <2>6, <2>7
    <2>10. UNCHANGED disk
      BY <1>1 DEF AssignTask
    <2>11. LoadsFlag'
      BY <1>e, <2>5, <2>6, <2>7, <2>8, <2>10 DEF LoadsFlag
    <2> QED
      BY <1>1, <1>b, <1>c, <1>d, <1>f, <2>3, <2>9, <2>11 DEF AssignTask, AgentTypeOK
  <1>2. CASE LoadResult(h)
    <2>1. disk[h][loop[h].task] \in Statuses
      <3>1. disk[h][loop[h].task] # NoFile
        BY <1>2 DEF LoadResult, LoadsFlag
      <3>2. disk[h][loop[h].task] \in DiskContents
        BY <1>b, <1>g
      <3> QED
        BY <3>1, <3>2 DEF DiskContents
    <2>2. "" \in Statuses
      BY DEF Statuses
    <2>3. PICK st \in Statuses : local' = [local EXCEPT ![h][loop[h].task].status = st]
      BY <1>2, <2>1, <2>2 DEF LoadResult
    <2>4. local' \in [Hosts -> [Tasks -> LocalTasks]]
      BY <1>i, <2>3
    <2> QED
      BY <1>2, <1>b, <1>c, <1>d, <1>f, <1>h, <2>4 DEF LoadResult, AgentTypeOK
  <1>3. CASE Kill(h)
    <2>1. local' \in [Hosts -> [Tasks -> LocalTasks]]
      BY <1>3, <1>i DEF Kill, Statuses
    <2>2. PICK g \in Routines : routine' = [routine EXCEPT ![h][g] = Killer(loop[h].task)]
      BY <1>3 DEF Kill
    <2>3. Killer(loop[h].task) \in RoutineStates
      BY <1>g DEF Killer, RoutineStates, RoutinePcs, Procs, Statuses
    <2>4. routine' \in [Hosts -> [Routines -> RoutineStates]]
      BY <1>c, <2>2, <2>3
    <2> QED
      BY <1>3, <1>b, <1>d, <1>f, <1>h, <2>1, <2>4 DEF Kill, AgentTypeOK
  <1>4. CASE SetRunning(h)
    <2>1. local' \in [Hosts -> [Tasks -> LocalTasks]]
      BY <1>4, <1>i DEF SetRunning, Statuses
    <2>2. loop' = [loop EXCEPT ![h].pc = "start"] /\ disk' = disk
      BY <1>4 DEF SetRunning
    <2>3. loop' \in [Hosts -> LoopStates] /\ LoadsFlag'
      BY <1>e, <2>2 DEF LoopStates, LoopPcs, LoadsFlag
    <2> QED
      BY <1>4, <1>b, <1>c, <1>d, <1>f, <2>1, <2>3 DEF SetRunning, AgentTypeOK
  <1>5. CASE UnknownAction(h)
    BY <1>5, <1>a, <1>b, <1>c, <1>d, <1>f, <1>h DEF UnknownAction, AgentTypeOK
  <1>6. CASE NotStarted(h)
    BY <1>6, <1>a, <1>b, <1>c, <1>d, <1>f, <1>h DEF NotStarted, AgentTypeOK
  <1>7. CASE Start(h)
    <2>1. PICK g \in Routines : ReplaceCmd(h, {g})
      BY <1>7 DEF Start
    <2>2. ran' \in [Hosts -> SUBSET Tasks]
      BY <1>7, <1>d, <1>g DEF Start
    <2> QED
      BY <1>7, <1>a, <1>b, <1>h, <2>1, <2>2, ReplaceCmdType DEF Start, AgentTypeOK
  <1>9. CASE StartFails(h)
    <2>1. ReplaceCmd(h, {})
      BY <1>9 DEF StartFails
    <2> QED
      BY <1>9, <1>a, <1>b, <1>d, <1>h, <2>1, ReplaceCmdType DEF StartFails, AgentTypeOK
  <1>8. CASE AssignedAll(h)
    <2>1. loop' \in [Hosts -> LoopStates]
      BY <1>8, <1>e, IdleTyped DEF AssignedAll
    <2>2. LoadsFlag'
      BY <1>8, <1>e DEF AssignedAll, Idle, LoadsFlag
    <2> QED
      BY <1>8, <1>a, <1>b, <1>c, <1>d, <1>f, <2>1, <2>2 DEF AssignedAll, AgentTypeOK
  <1> QED
    BY <1>1, <1>2, <1>3, <1>4, <1>5, <1>6, <1>7, <1>8, <1>9 DEF AssignStep

\* The steps of a goroutine.
LEMMA RoutineStepType ==
    ASSUME AgentTypeOK, LoadsFlag, NEW h \in Hosts, NEW g \in Routines, RoutineStep(h, g)
    PROVE  AgentTypeOK' /\ LoadsFlag'
  <1>a. local \in [Hosts -> [Tasks -> LocalTasks]]
    BY DEF AgentTypeOK
  <1>b. disk \in [Hosts -> [Tasks -> DiskContents]]
    BY DEF AgentTypeOK
  <1>c. routine \in [Hosts -> [Routines -> RoutineStates]]
    BY DEF AgentTypeOK
  <1>d. orphan \in [Hosts -> SUBSET Tasks] /\ ran \in [Hosts -> SUBSET Tasks]
    BY DEF AgentTypeOK
  <1>e. loop \in [Hosts -> LoopStates]
    BY DEF AgentTypeOK
  <1>f. seen \in [Hosts -> [Tasks -> SUBSET Events]]
    BY DEF AgentTypeOK
  <1>g. routine[h][g].task \in Tasks /\ routine[h][g].status \in Statuses
    BY <1>c DEF RoutineStates
  <1>h. ASSUME NEW from, NEW to \in RoutinePcs, Goto(h, g, from, to)
        PROVE  routine' \in [Hosts -> [Routines -> RoutineStates]]
    BY <1>c, <1>h DEF Goto, RoutineStates
  <1>i. ASSUME NEW v \in BOOLEAN, SetAlive(h, g, v)
        PROVE  local' \in [Hosts -> [Tasks -> LocalTasks]]
    BY <1>a, <1>g, <1>i DEF SetAlive, LocalTasks
  <1>j. ASSUME NEW st \in Statuses, SetStatus(h, g, st)
        PROVE  local' \in [Hosts -> [Tasks -> LocalTasks]]
    BY <1>a, <1>g, <1>j DEF SetStatus, LocalTasks
  <1>l. routine[h][g] \in RoutineStates
    BY <1>c
  <1>k. UNCHANGED <<disk, loop>> => LoadsFlag'
    BY DEF LoadsFlag
  <1>1. CASE RunBegin(h, g)
    <2>1. routine' \in [Hosts -> [Routines -> RoutineStates]]
      BY <1>1, <1>h DEF RunBegin, RoutinePcs
    <2> QED
      BY <1>1, <1>b, <1>d, <1>e, <1>f, <1>i, <1>k, <2>1 DEF RunBegin, AgentTypeOK
  <1>2. CASE RunWaited(h, g)
    <2>1. routine' = [routine EXCEPT ![h][g] =
            [routine[h][g] EXCEPT !.pc = "read", !.proc = "none"]]
      BY <1>2 DEF RunWaited
    <2>2. routine' \in [Hosts -> [Routines -> RoutineStates]]
      BY <1>c, <1>l, <2>1 DEF RoutineStates, RoutinePcs, Procs
    <2>3. local' \in [Hosts -> [Tasks -> LocalTasks]]
      BY <1>2, <1>j DEF RunWaited, ExitStatus, Statuses
    <2> QED
      BY <1>2, <1>b, <1>d, <1>e, <1>f, <1>k, <2>2, <2>3 DEF RunWaited, AgentTypeOK
  <1>3. CASE KillBegin(h, g)
    <2>1. routine' \in [Hosts -> [Routines -> RoutineStates]]
      BY <1>3, <1>h DEF KillBegin, RoutinePcs
    <2>2. seen' \in [Hosts -> [Tasks -> SUBSET Events]]
      BY <1>3, <1>f, <1>g DEF KillBegin, Saw, Events
    <2>3. local' \in [Hosts -> [Tasks -> LocalTasks]]
      BY <1>3, <1>i DEF KillBegin
    <2> QED
      BY <1>3, <1>b, <1>d, <1>e, <1>k, <2>1, <2>2, <2>3 DEF KillBegin, AgentTypeOK
  <1>4. CASE KillProcess(h, g)
    <2>1. PICK hit \in SUBSET Routines, pc \in {"signalled", "unkilled"} :
            /\ routine' = [routine EXCEPT ![h] = [r \in Routines |->
                    IF r = g THEN [routine[h][r] EXCEPT !.pc = pc]
                    ELSE IF r \in hit THEN [routine[h][r] EXCEPT !.proc = "exitErr"]
                    ELSE routine[h][r]]]
            /\ seen' = [seen EXCEPT ![h][routine[h][g].task] =
                    @ \cup (IF hit = {} THEN {} ELSE {"exitErr"})]
      BY <1>4 DEF KillProcess
    <2> DEFINE R(r) == IF r = g THEN [routine[h][r] EXCEPT !.pc = pc]
                       ELSE IF r \in hit THEN [routine[h][r] EXCEPT !.proc = "exitErr"]
                       ELSE routine[h][r]
    <2>2. routine' \in [Hosts -> [Routines -> RoutineStates]]
      <3>1. ASSUME NEW r \in Routines PROVE R(r) \in RoutineStates
        <4>1. routine[h][r] \in RoutineStates
          BY <1>c
        <4> QED
          BY <4>1 DEF RoutineStates, RoutinePcs, Procs
      <3>2. routine' = [routine EXCEPT ![h] = [r \in Routines |-> R(r)]]
        BY <2>1
      <3> HIDE DEF R
      <3> QED
        BY <1>c, <3>1, <3>2
    <2>3. seen' \in [Hosts -> [Tasks -> SUBSET Events]]
      BY <1>f, <1>g, <2>1 DEF Events
    <2>4. orphan' \in [Hosts -> SUBSET Tasks]
      <3>1. UNCHANGED orphan \/ orphan' = [orphan EXCEPT ![h] = @ \ {routine[h][g].task}]
        BY <1>4 DEF KillProcess
      <3> QED
        BY <1>d, <3>1
    <2> QED
      BY <1>4, <1>a, <1>b, <1>d, <1>e, <1>k, <2>2, <2>3, <2>4 DEF KillProcess, AgentTypeOK
  <1>5. CASE KillStatus(h, g)
    <2>1. routine' \in [Hosts -> [Routines -> RoutineStates]]
      BY <1>5, <1>h DEF KillStatus, RoutinePcs
    <2>2. local' \in [Hosts -> [Tasks -> LocalTasks]]
      BY <1>5, <1>j DEF KillStatus, Statuses
    <2> QED
      BY <1>5, <1>b, <1>d, <1>e, <1>f, <1>k, <2>1, <2>2 DEF KillStatus, AgentTypeOK
  <1>6. CASE PersistRead(h, g)
    <2>1. local[h][routine[h][g].task].status \in Statuses
      BY <1>a, <1>g DEF LocalTasks
    <2>2. routine' = [routine EXCEPT ![h][g] = [routine[h][g] EXCEPT
                !.pc = "write", !.status = local[h][routine[h][g].task].status]]
      BY <1>6 DEF PersistRead
    <2>3. routine' \in [Hosts -> [Routines -> RoutineStates]]
      BY <1>c, <1>l, <2>1, <2>2 DEF RoutineStates, RoutinePcs
    <2> QED
      BY <1>6, <1>a, <1>b, <1>d, <1>e, <1>f, <1>k, <2>3 DEF PersistRead, AgentTypeOK
  <1>m. ASSUME NEW st \in Statuses, disk' = [disk EXCEPT ![h][routine[h][g].task] = st],
               UNCHANGED loop
        PROVE  disk' \in [Hosts -> [Tasks -> DiskContents]] /\ LoadsFlag'
    <2>1. NoFile \notin Statuses
      BY DEF Statuses, NoFile
    <2>2. disk' \in [Hosts -> [Tasks -> DiskContents]]
      BY <1>b, <1>g, <1>m DEF DiskContents
    <2>3. \A i \in Hosts : loop[i].task \in Tasks
      BY <1>e DEF LoopStates
    <2>4. \A i \in Hosts, t \in Tasks : disk[i][t] # NoFile => disk'[i][t] # NoFile
      BY <1>b, <1>g, <1>m, <2>1
    <2> QED
      BY <1>m, <2>2, <2>3, <2>4 DEF LoadsFlag
  <1>n. ASSUME routine' = [routine EXCEPT ![h][g] = [routine[h][g] EXCEPT !.pc = "end", !.status = ""]]
        PROVE  routine' \in [Hosts -> [Routines -> RoutineStates]]
    BY <1>c, <1>l, <1>n DEF RoutineStates, RoutinePcs, Statuses
  <1>7. CASE PersistCreate(h, g)
    <2>1. routine' \in [Hosts -> [Routines -> RoutineStates]]
      BY <1>7, <1>h DEF PersistCreate, RoutinePcs
    <2>2. "" \in Statuses
      BY DEF Statuses
    <2>3. disk' \in [Hosts -> [Tasks -> DiskContents]] /\ LoadsFlag'
      BY <1>7, <1>m, <2>2 DEF PersistCreate
    <2> QED
      BY <1>7, <1>a, <1>d, <1>e, <1>f, <2>1, <2>3 DEF PersistCreate, AgentTypeOK
  <1>9. CASE PersistWrite(h, g)
    <2>1. routine' \in [Hosts -> [Routines -> RoutineStates]]
      BY <1>9, <1>n DEF PersistWrite
    <2>2. "torn" \in Statuses
      BY DEF Statuses
    <2>3. PICK st \in Statuses : disk' = [disk EXCEPT ![h][routine[h][g].task] = st]
      BY <1>9, <1>g, <2>2 DEF PersistWrite
    <2>4. disk' \in [Hosts -> [Tasks -> DiskContents]] /\ LoadsFlag'
      BY <1>9, <1>m, <2>3 DEF PersistWrite
    <2> QED
      BY <1>9, <1>a, <1>d, <1>e, <1>f, <2>1, <2>4 DEF PersistWrite, AgentTypeOK
  <1>10. CASE PersistFails(h, g)
    <2>1. routine' \in [Hosts -> [Routines -> RoutineStates]]
      BY <1>10, <1>n DEF PersistFails
    <2> QED
      BY <1>10, <1>a, <1>b, <1>d, <1>e, <1>f, <1>k, <2>1 DEF PersistFails, AgentTypeOK
  <1>8. CASE RoutineEnd(h, g)
    <2>1. routine' \in [Hosts -> [Routines -> RoutineStates]]
      BY <1>8, <1>c, IdleTyped DEF RoutineEnd
    <2>2. local' \in [Hosts -> [Tasks -> LocalTasks]]
      BY <1>8, <1>i DEF RoutineEnd
    <2> QED
      BY <1>8, <1>b, <1>d, <1>e, <1>f, <1>k, <2>1, <2>2 DEF RoutineEnd, AgentTypeOK
  <1> QED
    BY <1>1, <1>2, <1>3, <1>4, <1>5, <1>6, <1>7, <1>8, <1>9, <1>10 DEF RoutineStep

LEMMA AgentStepType ==
    ASSUME AgentTypeOK, LoadsFlag, NEW h \in Hosts, AgentStep(h)
    PROVE  AgentTypeOK' /\ LoadsFlag'
  <1>1. CASE AssignStep(h)
    BY <1>1, AssignStepType
  <1>2. ASSUME NEW g \in Routines, RoutineStep(h, g) PROVE AgentTypeOK' /\ LoadsFlag'
    BY <1>2, RoutineStepType
  <1>3. ASSUME NEW g \in Routines, ScriptEnds(h, g) PROVE AgentTypeOK' /\ LoadsFlag'
    <2>1. PICK e \in {"exit0", "exitErr"} :
            /\ routine' = [routine EXCEPT ![h][g].proc = e]
            /\ seen' = [seen EXCEPT ![h][routine[h][g].task] = @ \cup {e}]
      BY <1>3 DEF ScriptEnds, Saw
    <2>2. routine \in [Hosts -> [Routines -> RoutineStates]]
      BY DEF AgentTypeOK
    <2>3. routine' \in [Hosts -> [Routines -> RoutineStates]]
      <3> DEFINE r == [routine[h][g] EXCEPT !.proc = e]
      <3>1. r \in RoutineStates
        BY <2>2 DEF RoutineStates, Procs
      <3>2. routine' = [routine EXCEPT ![h][g] = r]
        BY <2>1
      <3> HIDE DEF r
      <3> QED
        BY <2>2, <3>1, <3>2
    <2>4. routine[h][g].task \in Tasks
      BY <2>2 DEF RoutineStates
    <2>5. seen \in [Hosts -> [Tasks -> SUBSET Events]]
      BY DEF AgentTypeOK
    <2>6. seen' \in [Hosts -> [Tasks -> SUBSET Events]]
      BY <2>1, <2>4, <2>5 DEF Events
    <2>7. LoadsFlag'
      BY <1>3 DEF ScriptEnds, LoadsFlag
    <2> QED
      BY <1>3, <2>3, <2>6, <2>7 DEF ScriptEnds, AgentTypeOK
  <1>4. ASSUME NEW t \in Tasks, OrphanEnds(h, t) PROVE AgentTypeOK' /\ LoadsFlag'
    <2>1. orphan' \in [Hosts -> SUBSET Tasks]
      BY <1>4 DEF OrphanEnds, AgentTypeOK
    <2>2. LoadsFlag'
      BY <1>4 DEF OrphanEnds, LoadsFlag
    <2> QED
      BY <1>4, <2>1, <2>2 DEF OrphanEnds, AgentTypeOK
  <1> QED
    BY <1>1, <1>2, <1>3, <1>4 DEF AgentStep

\* A handler that is done, and an agent whose call ends with an error.
LEMMA FinishType ==
    ASSUME ServerTypeOK, NEW s \in Handlers, Finish(s)
    PROVE  handler' \in [Handlers -> HandlerStates]
  BY IdleTyped DEF ServerTypeOK, Finish

LEMMA CallErrorsType ==
    ASSUME AgentTypeOK, conn \in [Hosts -> SUBSET Handlers], LoadsFlag, NEW hs, CallErrors(hs)
    PROVE  AgentTypeOK' /\ LoadsFlag' /\ conn' \in [Hosts -> SUBSET Handlers]
  <1>1. loop \in [Hosts -> LoopStates]
    BY DEF AgentTypeOK
  <1>2. loop' = [h \in Hosts |-> IF h \in hs /\ loop[h].pc = "call" THEN Idle ELSE loop[h]]
    BY DEF CallErrors
  <1>3. loop' \in [Hosts -> LoopStates]
    BY <1>1, <1>2, IdleTyped
  <1>4. UNCHANGED disk
    BY DEF CallErrors
  <1>5. LoadsFlag'
    BY <1>2, <1>4 DEF LoadsFlag, Idle
  <1>6. conn' \in [Hosts -> SUBSET Handlers]
    BY DEF CallErrors
  <1> QED
    BY <1>3, <1>5, <1>6 DEF CallErrors, AgentTypeOK

LEMMA StepType == TypeInv /\ [Next]_vars => TypeInv'
  <1> SUFFICES ASSUME TypeInv, [Next]_vars PROVE TypeInv'
    OBVIOUS
  <1>0. ServerTypeOK /\ AgentTypeOK /\ LoadsFlag /\ conn \in [Hosts -> SUBSET Handlers]
    BY DEF TypeInv, TypeOK
  <1>a. UNCHANGED serverVars => ServerTypeOK'
    BY <1>0 DEF serverVars, ServerTypeOK
  <1>b. UNCHANGED agentVars => AgentTypeOK' /\ LoadsFlag'
    BY <1>0 DEF agentVars, AgentTypeOK, LoadsFlag
  <1>1. CASE ServerStep /\ UNCHANGED <<agentVars, conn>>
    BY <1>0, <1>1, <1>b, ServerStepType DEF TypeInv, TypeOK
  <1>2. ASSUME NEW h \in Hosts, AgentStep(h), UNCHANGED <<serverVars, conn>> PROVE TypeInv'
    BY <1>0, <1>2, <1>a, AgentStepType DEF TypeInv, TypeOK
  <1>3. ASSUME NEW h \in Hosts, NEW s \in Handlers, Call(h, s) PROVE TypeInv'
    <2>1. handler' = [handler EXCEPT ![s] = [busy |-> TRUE, host |-> h,
                        todo |-> ReportTasks(h), fresh |-> {}, added |-> {}]]
      BY <1>3 DEF Call, Receive
    <2>2. [busy |-> TRUE, host |-> h, todo |-> ReportTasks(h), fresh |-> {}, added |-> {}]
            \in HandlerStates
      BY <1>0, ReportsTyped DEF HandlerStates
    <2>3. handler' \in [Handlers -> HandlerStates]
      BY <1>0, <2>1, <2>2 DEF ServerTypeOK
    <2>4. ServerTypeOK'
      BY <1>0, <1>3, <2>3 DEF Call, Receive, ServerTypeOK
    <2>5. loop' = [loop EXCEPT ![h].pc = "call"] /\ UNCHANGED disk
      BY <1>3 DEF Call
    <2>6. loop \in [Hosts -> LoopStates]
      BY <1>0 DEF AgentTypeOK
    <2>7. loop' \in [Hosts -> LoopStates] /\ LoadsFlag'
      BY <1>0, <2>5, <2>6 DEF LoopStates, LoopPcs, LoadsFlag
    <2>8. AgentTypeOK'
      BY <1>0, <1>3, <2>7 DEF Call, AgentTypeOK
    <2>9. conn' \in [Hosts -> SUBSET Handlers]
      BY <1>0, <1>3 DEF Call
    <2> QED
      BY <2>4, <2>7, <2>8, <2>9 DEF TypeInv, TypeOK
  <1>4. ASSUME NEW s \in Handlers, Replied(s) PROVE TypeInv'
    <2> DEFINE h == handler[s].host
    <2>1. h \in Hosts
      BY <1>0 DEF ServerTypeOK, HandlerStates
    <2>2. ServerTypeOK'
      BY <1>0, <1>4, FinishType DEF Replied, Reply, ServerTypeOK
    <2>3. GetTasksByIp(h) \in SUBSET Assigns
      BY <1>0, <2>1 DEF ServerTypeOK, GetTasksByIp
    <2>4. loop' = loop \/ loop' = [loop EXCEPT ![h] = [loop[h] EXCEPT !.pc = "assign", !.todo = GetTasksByIp(h)]]
      BY <1>4 DEF Replied
    <2>5. loop \in [Hosts -> LoopStates]
      BY <1>0 DEF AgentTypeOK
    <2>6. UNCHANGED disk
      BY <1>4 DEF Replied
    <2>7. loop' \in [Hosts -> LoopStates] /\ LoadsFlag'
      <3> DEFINE r == [loop[h] EXCEPT !.pc = "assign", !.todo = GetTasksByIp(h)]
      <3> HIDE DEF h
      <3>1. r \in LoopStates /\ r.pc = "assign"
        BY <2>1, <2>3, <2>5 DEF LoopStates, LoopPcs
      <3>2. loop' = loop \/ loop' = [loop EXCEPT ![h] = r]
        BY <2>4
      <3> HIDE DEF r
      <3> QED
        BY <1>0, <2>1, <2>5, <2>6, <3>1, <3>2 DEF LoadsFlag
    <2>8. AgentTypeOK'
      BY <1>0, <1>4, <2>7 DEF Replied, AgentTypeOK
    <2>9. conn' \in [Hosts -> SUBSET Handlers]
      BY <1>0, <1>4, <2>1 DEF Replied
    <2> QED
      BY <2>2, <2>7, <2>8, <2>9 DEF TypeInv, TypeOK
  <1>5. ASSUME NEW s \in Handlers, Failed(s) PROVE TypeInv'
    <2>1. ServerTypeOK'
      BY <1>0, <1>5, FinishType DEF Failed, HandlerErr, ServerTypeOK
    <2> QED
      BY <1>0, <1>5, <2>1, CallErrorsType DEF Failed, TypeInv, TypeOK
  <1>6. ASSUME NEW h \in Hosts, TimedOut(h) PROVE TypeInv'
    BY <1>0, <1>6, <1>a, CallErrorsType DEF TimedOut, TypeInv, TypeOK
  <1>7. ASSUME NEW h \in Hosts, AgentCrash(h) PROVE TypeInv'
    <2>1. local' \in [Hosts -> [Tasks -> LocalTasks]]
      BY <1>0, <1>7, IdleTyped DEF AgentCrash, Restarted, AgentTypeOK
    <2>2. routine' \in [Hosts -> [Routines -> RoutineStates]]
      BY <1>0, <1>7, IdleTyped DEF AgentCrash, Restarted, AgentTypeOK
    <2>3. orphan' \in [Hosts -> SUBSET Tasks]
      <3>1. \A g \in Routines : routine[h][g].task \in Tasks
        BY <1>0 DEF AgentTypeOK, RoutineStates
      <3>2. PICK left \in SUBSET ({routine[h][g].task :
                    g \in {r \in Routines : routine[h][r].proc = "running"}} \cup orphan[h]) :
                orphan' = [orphan EXCEPT ![h] = left]
        BY <1>7 DEF AgentCrash, Restarted
      <3>3. orphan \in [Hosts -> SUBSET Tasks]
        BY <1>0 DEF AgentTypeOK
      <3>4. left \in SUBSET Tasks
        BY <3>1, <3>2, <3>3
      <3> QED
        BY <3>2, <3>3, <3>4
    <2>4. loop' = [loop EXCEPT ![h] = Idle] /\ UNCHANGED disk
      BY <1>7 DEF AgentCrash, Restarted
    <2>5. loop \in [Hosts -> LoopStates]
      BY <1>0 DEF AgentTypeOK
    <2>6. loop' \in [Hosts -> LoopStates]
      BY <2>4, <2>5, IdleTyped
    <2>7. LoadsFlag'
      BY <1>0, <2>4, <2>5 DEF LoadsFlag, Idle
    <2>8. ran' \in [Hosts -> SUBSET Tasks] /\ UNCHANGED seen
      BY <1>0, <1>7 DEF AgentCrash, Restarted, AgentTypeOK
    <2>9. AgentTypeOK'
      BY <1>0, <2>1, <2>2, <2>3, <2>4, <2>6, <2>8 DEF AgentTypeOK
    <2>10. conn' \in [Hosts -> SUBSET Handlers]
      BY <1>0, <1>7 DEF AgentCrash
    <2> QED
      BY <1>7, <1>a, <2>7, <2>9, <2>10 DEF AgentCrash, TypeInv, TypeOK
  <1>8. CASE ServerCrash
    <2>1. ServerTypeOK'
      BY <1>0, <1>8, IdleTyped DEF ServerCrash, ServerRestart, ServerTypeOK, NoSync
    <2> QED
      BY <1>0, <1>8, <2>1, CallErrorsType DEF ServerCrash, TypeInv, TypeOK
  <1>9. CASE UNCHANGED vars
    BY <1>0, <1>9, <1>a, <1>b DEF vars, TypeInv, TypeOK
  <1> QED
    BY <1>1, <1>2, <1>3, <1>4, <1>5, <1>6, <1>7, <1>8, <1>9 DEF Next

(* Every variable of the server, the agents and the calls between them keeps *)
(* its type: in particular a status loaded from a done flag is a status.     *)
THEOREM TypeCorrect == Spec => []TypeOK
  <1>1. TypeInv => TypeOK
    BY DEF TypeInv
  <1> QED
    BY <1>1, InitType, StepType, PTL DEF Spec

-----------------------------------------------------------------------------
(* Which actions touch the server, and which the agents.                   *)

LEMMA ServerChanges ==
    ASSUME [Next]_vars
    PROVE  \/ UNCHANGED serverVars
           \/ ServerStep
           \/ \E h \in Hosts, s \in Handlers : Call(h, s)
           \/ \E s \in Handlers : Reply(s) \/ HandlerErr(s)
           \/ ServerRestart
  BY DEF Next, vars, Replied, Failed, TimedOut, AgentCrash, ServerCrash

\* The agent of host h restarts or makes a step; or it only calls and listens.
LEMMA AgentChanges ==
    ASSUME [Next]_vars
    PROVE  \/ UNCHANGED <<local, disk, routine, seen>>
           \/ \E h \in Hosts : AgentStep(h) /\ UNCHANGED serverVars
           \/ \E h \in Hosts : Restarted(h) /\ UNCHANGED serverVars
  <1>1. CASE ServerStep /\ UNCHANGED <<agentVars, conn>>
    BY <1>1 DEF agentVars
  <1>2. ASSUME NEW h \in Hosts, AgentStep(h), UNCHANGED <<serverVars, conn>>
        PROVE  \E i \in Hosts : AgentStep(i) /\ UNCHANGED serverVars
    BY <1>2
  <1>3. ASSUME NEW h \in Hosts, NEW s \in Handlers, Call(h, s)
        PROVE  UNCHANGED <<local, disk, routine, seen>>
    BY <1>3 DEF Call
  <1>4. ASSUME NEW s \in Handlers, Replied(s) PROVE UNCHANGED <<local, disk, routine, seen>>
    BY <1>4 DEF Replied
  <1>5. ASSUME NEW s \in Handlers, Failed(s) PROVE UNCHANGED <<local, disk, routine, seen>>
    BY <1>5 DEF Failed, CallErrors
  <1>6. ASSUME NEW h \in Hosts, TimedOut(h) PROVE UNCHANGED <<local, disk, routine, seen>>
    BY <1>6 DEF TimedOut, CallErrors
  <1>7. ASSUME NEW h \in Hosts, AgentCrash(h)
        PROVE  \E i \in Hosts : Restarted(i) /\ UNCHANGED serverVars
    BY <1>7 DEF AgentCrash
  <1>8. CASE ServerCrash
    BY <1>8 DEF ServerCrash, CallErrors
  <1>9. CASE UNCHANGED vars
    BY <1>9 DEF vars, agentVars
  <1> QED
    BY <1>1, <1>2, <1>3, <1>4, <1>5, <1>6, <1>7, <1>8, <1>9 DEF Next

-----------------------------------------------------------------------------
(* Flows on the server.                                                    *)

LEMMA PostedFlow == ASSUME [Next]_vars PROVE posted \subseteq posted'
  BY ServerChanges DEF serverVars, ServerStep, TaskAdd, SetAction, SyncRead, SyncSwap, SaveGet,
     SaveInsert, DoTaskMetaMark, Call, Receive, Reply, HandlerErr, ServerRestart

LEMMA DoneFlow ==
    ASSUME [Next]_vars, NEW t \in done'
    PROVE  t \in done \/ \E s \in Handlers : t \in handler[s].added
  BY ServerChanges DEF serverVars, ServerStep, TaskAdd, SetAction, SyncRead, SyncSwap, SaveGet,
     SaveInsert, DoTaskMetaMark, Call, Receive, Reply, HandlerErr, ServerRestart

LEMMA ActionFlow ==
    ASSUME TypeInv, [Next]_vars, NEW t \in Tasks
    PROVE  action'[t] = action[t] \/ action'[t] \in NewActions \cup Changes
  <1>1. action \in [Tasks -> ColumnActions]
    BY DEF TypeInv, TypeOK, ServerTypeOK
  <1> QED
    BY <1>1, ServerChanges DEF serverVars, ServerStep, TaskAdd, SetAction, SyncRead, SyncSwap,
       SaveGet, SaveInsert, DoTaskMetaMark, Call, Receive, Reply, HandlerErr, ServerRestart

\* The cache is filled from the snapshot, the snapshot from the table.
LEMMA CacheFlow ==
    ASSUME [Next]_vars, NEW h \in Hosts
    PROVE  /\ cache'[h] \subseteq cache[h] \cup snap.m[h]
           /\ snap'.m[h] \subseteq snap.m[h] \cup TasksByHost[h]
  <1>1. NoTasks[h] = {}
    BY DEF NoTasks
  <1>2. UNCHANGED <<cache, snap>> \/ SyncRead \/ SyncSwap \/ ServerRestart
    BY ServerChanges DEF serverVars, ServerStep, TaskAdd, SetAction, SaveGet, SaveInsert,
       DoTaskMetaMark, Call, Receive, Reply, HandlerErr
  <1>3. CASE SyncRead
    BY <1>3 DEF SyncRead
  <1>4. CASE SyncSwap
    BY <1>1, <1>4 DEF SyncSwap, NoSync
  <1>5. CASE ServerRestart
    BY <1>1, <1>5 DEF ServerRestart, NoSync
  <1> QED
    BY <1>2, <1>3, <1>4, <1>5

\* Every handler goes on, is finished, or starts on the report of an idle
\* agent; only one that goes on, at its own step, has something to show for it.
LEMMA HandlerFlow ==
    ASSUME TypeInv, [Next]_vars, NEW s \in Handlers
    PROVE  \/ handler'[s] = handler[s]
           \/ handler'[s] = FreeHandler
           \/ \E h \in Hosts : /\ loop[h].pc = "idle"
                               /\ handler'[s] = [busy |-> TRUE, host |-> h,
                                    todo |-> ReportTasks(h), fresh |-> {}, added |-> {}]
           \/ SaveGet(s) \/ SaveInsert(s) \/ DoTaskMetaMark(s)
  <1>1. handler \in [Handlers -> HandlerStates]
    BY DEF TypeInv, TypeOK, ServerTypeOK
  <1>2. CASE UNCHANGED serverVars
    BY <1>2 DEF serverVars
  <1>3. CASE ServerStep
    <2>1. UNCHANGED handler \/ \E r \in Handlers : SaveGet(r) \/ SaveInsert(r) \/ DoTaskMetaMark(r)
      BY <1>3 DEF ServerStep, TaskAdd, SetAction, SyncRead, SyncSwap
    <2>2. ASSUME NEW r \in Handlers, SaveGet(r) \/ SaveInsert(r) \/ DoTaskMetaMark(r), r # s
          PROVE  handler'[s] = handler[s]
      BY <1>1, <2>2 DEF SaveGet, SaveInsert, DoTaskMetaMark
    <2> QED
      BY <2>1, <2>2
  <1>4. ASSUME NEW h \in Hosts, NEW r \in Handlers, Call(h, r)
        PROVE  \/ handler'[s] = handler[s]
               \/ /\ loop[h].pc = "idle"
                  /\ handler'[s] = [busy |-> TRUE, host |-> h, todo |-> ReportTasks(h),
                                    fresh |-> {}, added |-> {}]
    BY <1>1, <1>4 DEF Call, Receive
  <1>5. ASSUME NEW r \in Handlers, Reply(r) \/ HandlerErr(r)
        PROVE  handler'[s] = handler[s] \/ handler'[s] = FreeHandler
    BY <1>1, <1>5 DEF Reply, HandlerErr, Finish
  <1>6. CASE ServerRestart
    BY <1>6 DEF ServerRestart
  <1> QED
    BY <1>2, <1>3, <1>4, <1>5, <1>6, ServerChanges

\* The rows of a task and host change only when a handler for that host
\* appends the report it has found no row for.
LEMMA RowsFlow ==
    ASSUME TypeInv, [Next]_vars, NEW t \in Tasks, NEW h \in Hosts
    PROVE  \/ rows'[t][h] = rows[t][h]
           \/ \E s \in Handlers : \E x \in handler[s].fresh :
                /\ handler[s].host = h /\ x.id = t
                /\ rows'[t][h] = Append(rows[t][h], x.status)
  <1>1. rows \in [Tasks -> [Hosts -> Seq(Statuses)]]
    BY DEF TypeInv, TypeOK, ServerTypeOK
  <1>2. UNCHANGED rows \/ \E s \in Handlers : SaveInsert(s)
    BY ServerChanges DEF serverVars, ServerStep, TaskAdd, SetAction, SyncRead, SyncSwap,
       SaveGet, DoTaskMetaMark, Call, Receive, Reply, HandlerErr, ServerRestart
  <1>3. ASSUME NEW s \in Handlers, SaveInsert(s)
        PROVE  \/ rows'[t][h] = rows[t][h]
               \/ \E x \in handler[s].fresh :
                    /\ handler[s].host = h /\ x.id = t
                    /\ rows'[t][h] = Append(rows[t][h], x.status)
    <2>1. PICK x \in handler[s].fresh :
            \/ rows' = [rows EXCEPT ![x.id][handler[s].host] = Append(@, x.status)]
            \/ UNCHANGED rows
      BY <1>3 DEF SaveInsert
    <2>2. CASE UNCHANGED rows
      BY <2>2
    <2>3. CASE rows' = [rows EXCEPT ![x.id][handler[s].host] = Append(@, x.status)]
      <3>1. CASE x.id = t /\ handler[s].host = h
        <4>1. rows'[t][h] = Append(rows[t][h], x.status)
          BY <1>1, <2>3, <3>1
        <4> QED
          BY <3>1, <4>1
      <3>2. CASE x.id # t \/ handler[s].host # h
        BY <1>1, <2>3, <3>2
      <3> QED
        BY <3>1, <3>2
    <2> QED
      BY <2>1, <2>2, <2>3
  <1> QED
    BY <1>2, <1>3

-----------------------------------------------------------------------------
(* Flows on the agents.                                                    *)

\* The tasks an agent still has to assign come from the cache.
LEMMA LoopFlow ==
    ASSUME TypeInv, [Next]_vars, NEW h \in Hosts
    PROVE  loop'[h].todo \subseteq loop[h].todo \cup cache[h]
  <1>1. loop \in [Hosts -> LoopStates]
    BY DEF TypeInv, TypeOK, AgentTypeOK
  <1>2. Idle.todo = {}
    BY DEF Idle
  <1>3. CASE UNCHANGED loop
    BY <1>3
  <1>4. ASSUME NEW i \in Hosts, AssignStep(i)
        PROVE  loop'[h].todo \subseteq loop[h].todo
    <2>2. CASE AssignTask(i)
      <3>1. PICK a \in loop[i].todo :
                \/ loop' = [loop EXCEPT ![i].todo = @ \ {a}]
                \/ loop' = [loop EXCEPT ![i] = [loop[i] EXCEPT !.todo = @ \ {a}, !.task = a.id,
                            !.pc = IF DoneBefore(i, a.id) THEN "load" ELSE "act"]]
        BY <2>2 DEF AssignTask
      <3>2. CASE loop' = [loop EXCEPT ![i].todo = @ \ {a}]
        BY <1>1, <3>2 DEF LoopStates
      <3> DEFINE pc == IF DoneBefore(i, a.id) THEN "load" ELSE "act"
      <3>3. CASE loop' = [loop EXCEPT ![i] = [loop[i] EXCEPT !.todo = @ \ {a}, !.task = a.id, !.pc = pc]]
        <4> HIDE DEF pc
        <4> QED
          BY <1>1, <3>3 DEF LoopStates
      <3> QED
        BY <3>1, <3>2, <3>3
    <2>3. AssignStep(i) /\ ~AssignTask(i) =>
            loop' = [loop EXCEPT ![i] = Idle] \/ \E pc : loop' = [loop EXCEPT ![i].pc = pc]
      BY DEF AssignStep, LoadResult, Kill, SetRunning, UnknownAction, NotStarted, StartFails, Start,
         AssignedAll, NextAssign
    <2> QED
      BY <1>1, <1>2, <1>4, <2>2, <2>3 DEF LoopStates
  <1>5. ASSUME NEW i \in Hosts, AgentStep(i) PROVE loop'[h].todo \subseteq loop[h].todo
    <2>1. AssignStep(i) \/ UNCHANGED loop
      BY <1>5 DEF AgentStep, RoutineStep, RunBegin, RunWaited, KillBegin, KillProcess, KillStatus,
         PersistRead, PersistCreate, PersistWrite, PersistFails, RoutineEnd, ScriptEnds, OrphanEnds
    <2> QED
      BY <1>4, <2>1
  <1>6. ASSUME NEW i \in Hosts, NEW s \in Handlers, Call(i, s)
        PROVE  loop'[h].todo = loop[h].todo
    BY <1>1, <1>6 DEF Call, LoopStates
  <1>7. ASSUME NEW s \in Handlers, Replied(s)
        PROVE  loop'[h].todo \subseteq loop[h].todo \cup cache[h]
    <2>1. UNCHANGED loop \/ \E i \in Hosts :
            loop' = [loop EXCEPT ![i] = [loop[i] EXCEPT !.pc = "assign", !.todo = GetTasksByIp(i)]]
      <3>1. handler[s].host \in Hosts
        BY DEF TypeInv, TypeOK, ServerTypeOK, HandlerStates
      <3> QED
        BY <1>7, <3>1 DEF Replied
    <2> QED
      <3>1. ASSUME NEW i \in Hosts,
                   loop' = [loop EXCEPT ![i] = [loop[i] EXCEPT !.pc = "assign", !.todo = cache[i]]]
            PROVE  loop'[h].todo = loop[h].todo \/ loop'[h].todo = cache[h]
        BY <1>1, <3>1 DEF LoopStates
      <3> QED
        BY <2>1, <3>1 DEF GetTasksByIp
  <1>8. ASSUME NEW hs, CallErrors(hs) PROVE loop'[h].todo \subseteq loop[h].todo
    BY <1>2, <1>8 DEF CallErrors
  <1>9. ASSUME NEW i \in Hosts, Restarted(i) PROVE loop'[h].todo \subseteq loop[h].todo
    BY <1>1, <1>2, <1>9 DEF Restarted
  <1> QED
    BY <1>3, <1>5, <1>6, <1>7, <1>8, <1>9
       DEF Next, vars, agentVars, Failed, TimedOut, AgentCrash, ServerCrash

\* What has happened stays on record.
LEMMA SeenFlow ==
    ASSUME TypeInv, [Next]_vars, NEW h \in Hosts, NEW t \in Tasks
    PROVE  seen[h][t] \subseteq seen'[h][t]
  <1>1. seen \in [Hosts -> [Tasks -> SUBSET Events]]
    BY DEF TypeInv, TypeOK, AgentTypeOK
  <1>2. ASSUME NEW i \in Hosts, AgentStep(i)
        PROVE  UNCHANGED seen \/ \E u, e : seen' = [seen EXCEPT ![i][u] = @ \cup e]
    <2>1. ASSUME NEW g \in Routines, KillProcess(i, g)
          PROVE  \E u, e : seen' = [seen EXCEPT ![i][u] = @ \cup e]
      <3>1. \E hit : seen' = [seen EXCEPT ![i][routine[i][g].task] =
                          @ \cup (IF hit = {} THEN {} ELSE {"exitErr"})]
        BY <2>1 DEF KillProcess
      <3> QED
        BY <3>1
    <2>2. ASSUME NEW g \in Routines, KillBegin(i, g) \/ ScriptEnds(i, g)
          PROVE  \E u, e : seen' = [seen EXCEPT ![i][u] = @ \cup e]
      BY <2>2 DEF KillBegin, ScriptEnds, Saw
    <2>4. ASSUME NEW new, ReplaceCmd(i, new)
          PROVE  \E u, e : seen' = [seen EXCEPT ![i][u] = @ \cup e]
      <3>1. PICK e : seen' = [seen EXCEPT ![i][loop[i].task] = @ \cup e]
        BY <2>4, Replaces DEF ReplacedBy
      <3> QED
        BY <3>1
    <2>5. ASSUME Start(i) \/ StartFails(i) PROVE \E new : ReplaceCmd(i, new)
      BY <2>5 DEF Start, StartFails
    <2>3. \/ UNCHANGED seen
          \/ Start(i) \/ StartFails(i)
          \/ \E g \in Routines : KillProcess(i, g) \/ KillBegin(i, g) \/ ScriptEnds(i, g)
      BY <1>2 DEF AgentStep, AssignStep, AssignTask, LoadResult, Kill, SetRunning, UnknownAction,
         NotStarted, AssignedAll, RoutineStep, RunBegin, RunWaited, KillStatus,
         PersistRead, PersistCreate, PersistWrite, PersistFails, RoutineEnd, OrphanEnds
    <2> QED
      BY <2>1, <2>2, <2>3, <2>4, <2>5
  <1>3. UNCHANGED seen \/ \E i \in Hosts : \E u, e : seen' = [seen EXCEPT ![i][u] = @ \cup e]
    BY <1>2, AgentChanges DEF Restarted
  <1> QED
    BY <1>1, <1>3

\* What is on disk was there, or a goroutine on its way through persistResult has
\* left it there.
LEMMA DiskFlow ==
    ASSUME TypeInv, [Next]_vars, NEW h \in Hosts, NEW t \in Tasks
    PROVE  \/ disk'[h][t] = disk[h][t]
           \/ \E g \in Routines :
                /\ routine[h][g].pc \in {"write", "writing"} /\ routine[h][g].task = t
                /\ disk'[h][t] \in {"", "torn", routine[h][g].status}
  <1>1. disk \in [Hosts -> [Tasks -> DiskContents]]
    BY DEF TypeInv, TypeOK, AgentTypeOK
  <1>2. ASSUME NEW i \in Hosts, AgentStep(i)
        PROVE  UNCHANGED disk \/ \E g \in Routines : PersistCreate(i, g) \/ PersistWrite(i, g)
    BY <1>2 DEF AgentStep, AssignStep, AssignTask, LoadResult, Kill, SetRunning, UnknownAction,
       NotStarted, StartFails, Start, AssignedAll, RoutineStep, RunBegin, RunWaited, KillBegin,
       KillProcess, KillStatus, PersistRead, PersistFails, RoutineEnd, OrphanEnds, ScriptEnds
  <1>3. \/ UNCHANGED disk
        \/ \E i \in Hosts, g \in Routines : PersistCreate(i, g) \/ PersistWrite(i, g)
    BY <1>2, AgentChanges DEF Restarted
  <1>4. ASSUME NEW i \in Hosts, NEW g \in Routines, PersistCreate(i, g) \/ PersistWrite(i, g)
        PROVE  \/ disk'[h][t] = disk[h][t]
               \/ /\ h = i /\ routine[h][g].pc \in {"write", "writing"} /\ routine[h][g].task = t
                  /\ disk'[h][t] \in {"", "torn", routine[h][g].status}
    <2>1. routine[i][g].pc \in {"write", "writing"}
      BY <1>4 DEF PersistCreate, PersistWrite, Goto
    <2>2. PICK st \in {"", "torn", routine[i][g].status} :
                disk' = [disk EXCEPT ![i][routine[i][g].task] = st]
      BY <1>4 DEF PersistCreate, PersistWrite
    <2> QED
      BY <1>1, <2>1, <2>2
  <1> QED
    BY <1>3, <1>4

\* A status was there, marks a beginning, comes from the done flag, or from a
\* goroutine that has seen its script end or has sent its kill.
StatusSource(h, t, st) ==
    \/ st = local[h][t].status
    \/ st \in {"", "running", "killing"}
    \/ st = disk[h][t]
    \/ \E g \in Routines :
        /\ routine[h][g].task = t
        /\ \/ st = "success" /\ routine[h][g].proc = "exit0"
           \/ st = "killed" /\ routine[h][g].proc \in {"exitErr", "lost"}
           \/ st = "killed" /\ routine[h][g].pc = "signalled"
           \/ st = "killfailed" /\ routine[h][g].pc = "unkilled"

LEMMA StatusFlow ==
    ASSUME TypeInv, [Next]_vars, NEW h \in Hosts, NEW t \in Tasks
    PROVE  StatusSource(h, t, local'[h][t].status)
  <1> DEFINE P(st) ==
               \/ st = local[h][t].status
               \/ st \in {"", "running", "killing"}
               \/ st = disk[h][t]
               \/ \E g \in Routines :
                    /\ routine[h][g].task = t
                    /\ \/ st = "success" /\ routine[h][g].proc = "exit0"
                       \/ st = "killed" /\ routine[h][g].proc \in {"exitErr", "lost"}
                       \/ st = "killed" /\ routine[h][g].pc = "signalled"
                       \/ st = "killfailed" /\ routine[h][g].pc = "unkilled"
  <1> SUFFICES P(local'[h][t].status)
    BY DEF StatusSource
  <1>1. local \in [Hosts -> [Tasks -> LocalTasks]]
    BY DEF TypeInv, TypeOK, AgentTypeOK
  <1>2. P(local[h][t].status) /\ \A st \in {"", "running", "killing"} : P(st)
    OBVIOUS
  <1>3. P(disk[h][t])
    OBVIOUS
  <1>4. ASSUME NEW i \in Hosts, AssignTask(i) PROVE local'[h][t].status = local[h][t].status
    <2>1. PICK a \in loop[i].todo :
            \/ UNCHANGED local
            \/ local' = [local EXCEPT ![i][a.id] =
                    [local[i][a.id] EXCEPT !.known = TRUE, !.action = a.action]]
      BY <1>4 DEF AssignTask
    <2>2. a.id \in Tasks
      BY DEF TypeInv, TypeOK, AgentTypeOK, LoopStates, Assigns
    <2> DEFINE r == [local[i][a.id] EXCEPT !.known = TRUE, !.action = a.action]
    <2>3. r.status = local[i][a.id].status
      BY <1>1, <2>2 DEF LocalTasks
    <2>4. UNCHANGED local \/ local' = [local EXCEPT ![i][a.id] = r]
      BY <2>1
    <2> HIDE DEF r
    <2> QED
      BY <1>1, <2>2, <2>3, <2>4
  <1>5. ASSUME NEW i \in Hosts, NEW st, local' = [local EXCEPT ![i][loop[i].task].status = st]
        PROVE  local'[h][t].status = local[h][t].status \/
                    (h = i /\ t = loop[i].task /\ local'[h][t].status = st)
    BY <1>1, <1>5 DEF LocalTasks
  <1>6. ASSUME NEW i \in Hosts, AssignStep(i) PROVE P(local'[h][t].status)
    <2>1. CASE AssignTask(i)
      BY <1>2, <1>4, <2>1
    <2>2. CASE LoadResult(i)
      <3>1. \/ local' = [local EXCEPT ![i][loop[i].task].status = disk[i][loop[i].task]]
            \/ local' = [local EXCEPT ![i][loop[i].task].status = ""]
        BY <2>2 DEF LoadResult
      <3>2. \/ local'[h][t].status = local[h][t].status
            \/ local'[h][t].status = disk[h][t]
            \/ local'[h][t].status = ""
        BY <1>5, <3>1
      <3> HIDE DEF P
      <3> QED
        BY <1>2, <1>3, <3>2
    <2>3. CASE Kill(i) \/ SetRunning(i)
      <3>1. \E st \in {"running", "killing"} :
                local' = [local EXCEPT ![i][loop[i].task].status = st]
        BY <2>3 DEF Kill, SetRunning
      <3>2. local'[h][t].status \in {local[h][t].status, "running", "killing"}
        BY <1>5, <3>1
      <3> HIDE DEF P
      <3> QED
        BY <1>2, <3>2
    <2>4. CASE UnknownAction(i) \/ NotStarted(i) \/ StartFails(i) \/ Start(i) \/ AssignedAll(i)
      BY <2>4 DEF UnknownAction, NotStarted, StartFails, Start, AssignedAll
    <2> QED
      BY <1>6, <2>1, <2>2, <2>3, <2>4 DEF AssignStep
  <1>7. ASSUME NEW i \in Hosts, NEW g \in Routines, RoutineStep(i, g)
        PROVE  P(local'[h][t].status)
    <2>0. routine[i][g].task \in Tasks
      BY DEF TypeInv, TypeOK, AgentTypeOK, RoutineStates
    <2>1. ASSUME NEW v, SetAlive(i, g, v) PROVE local'[h][t].status = local[h][t].status
      BY <1>1, <2>0, <2>1 DEF SetAlive, LocalTasks
    <2>2. ASSUME NEW st, SetStatus(i, g, st)
          PROVE  local'[h][t].status = local[h][t].status \/
                    (h = i /\ t = routine[i][g].task /\ local'[h][t].status = st)
      BY <1>1, <2>0, <2>2 DEF SetStatus, LocalTasks
    <2>3. CASE RunBegin(i, g) \/ KillBegin(i, g) \/ RoutineEnd(i, g)
      BY <2>1, <2>3 DEF RunBegin, KillBegin, RoutineEnd
    <2>4. CASE RunWaited(i, g)
      <3>1. \/ routine[i][g].proc = "exit0" /\ SetStatus(i, g, "success")
            \/ routine[i][g].proc \in {"exitErr", "lost"} /\ SetStatus(i, g, "killed")
        BY <2>4 DEF RunWaited, ExitStatus
      <3> QED
        BY <2>2, <3>1
    <2>5. CASE KillStatus(i, g)
      <3>1. \/ routine[i][g].pc = "signalled" /\ SetStatus(i, g, "killed")
            \/ routine[i][g].pc = "unkilled" /\ SetStatus(i, g, "killfailed")
        BY <2>5 DEF KillStatus, Goto
      <3> QED
        BY <2>2, <3>1
    <2>6. CASE KillProcess(i, g) \/ PersistRead(i, g) \/ PersistCreate(i, g) \/ PersistWrite(i, g)
               \/ PersistFails(i, g)
      BY <2>6 DEF KillProcess, PersistRead, PersistCreate, PersistWrite, PersistFails
    <2> QED
      BY <1>7, <2>3, <2>4, <2>5, <2>6 DEF RoutineStep
  <1>8. ASSUME NEW i \in Hosts, Restarted(i) PROVE P(local'[h][t].status)
    BY <1>1, <1>8 DEF Restarted, NotKnown
  <1>9. ASSUME NEW i \in Hosts, AgentStep(i) PROVE P(local'[h][t].status)
    <2>1. \/ AssignStep(i)
          \/ \E g \in Routines : RoutineStep(i, g)
          \/ UNCHANGED local
      BY <1>9 DEF AgentStep, ScriptEnds, OrphanEnds
    <2> HIDE DEF P
    <2> QED
      BY <1>2, <1>6, <1>7, <2>1
  <1> QED
    BY <1>2, <1>8, <1>9, AgentChanges

\* The goroutine in slot g of host h in one step, given the events of the next
\* state: it stays, ends, begins for the task of the loop, or goes on.
RoutineGoesOn(h, g) ==
    LET r == routine[h][g]
        n == routine'[h][g]
    IN  /\ n.task = r.task /\ r.pc # "none" /\ n.pc # "none"
        /\ n.status \in {r.status, "", local[h][r.task].status}
        /\ n.proc \in {"none", r.proc} \/ n.proc \in seen'[h][r.task]
        /\ n.pc \in {"signal", "signalled", "unkilled"} =>
                r.pc \in {"signal", "signalled", "unkilled"} \/ "kill" \in seen'[h][r.task]
        /\ n.pc \in {"read", "write", "writing"} =>
                \/ r.pc \in {"signalled", "unkilled", "read", "write", "writing"}
                \/ r.proc \in {"exit0", "exitErr", "lost"}

LEMMA RoutineFlow ==
    ASSUME TypeInv, KnownTargeted, [Next]_vars, NEW h \in Hosts, NEW g \in Routines
    PROVE  \/ routine'[h][g] = routine[h][g]
           \/ routine'[h][g] = NoRoutine
           \/ /\ loop[h].pc \in {"act", "start"}
              /\ routine'[h][g] \in {Runner(loop[h].task), Killer(loop[h].task)}
           \/ RoutineGoesOn(h, g)
  <1> DEFINE P == \/ routine'[h][g] = routine[h][g]
                  \/ routine'[h][g] = NoRoutine
                  \/ /\ loop[h].pc \in {"act", "start"}
                     /\ routine'[h][g] \in {Runner(loop[h].task), Killer(loop[h].task)}
                  \/ RoutineGoesOn(h, g)
  <1>1. routine \in [Hosts -> [Routines -> RoutineStates]]
    BY DEF TypeInv, TypeOK, AgentTypeOK
  <1>2. seen \in [Hosts -> [Tasks -> SUBSET Events]]
    BY DEF TypeInv, TypeOK, AgentTypeOK
  <1>3. routine[h][g] \in RoutineStates
    BY <1>1
  <1>4. routine[h][g].task \in Tasks
    BY <1>3 DEF RoutineStates
  <1>5. routine[h][g].proc = "running" => routine[h][g].pc # "none"
    BY DEF KnownTargeted
  <1>6. ASSUME NEW i \in Hosts, AssignStep(i) PROVE P
    <2>1. CASE Kill(i)
      <3>1. PICK j \in Routines : routine' = [routine EXCEPT ![i][j] = Killer(loop[i].task)]
        BY <2>1 DEF Kill
      <3>2. loop[i].pc = "act"
        BY <2>1 DEF Kill
      <3>3. routine'[h][g] = routine[h][g] \/ (i = h /\ routine'[h][g] = Killer(loop[i].task))
        BY <1>1, <3>1
      <3> QED
        BY <3>2, <3>3
    <2>2. CASE Start(i) \/ StartFails(i)
      <3>1. loop[i].pc = "start"
        BY <2>2 DEF Start, StartFails
      <3>2. PICK new : ReplaceCmd(i, new)
        BY <2>2 DEF Start, StartFails
      <3>8. PICK lost \in SUBSET Routines : ReplacedBy(i, new, lost)
        BY <3>2, Replaces
      <3>3. /\ \A r \in lost : routine[i][r].task = loop[i].task
                              /\ routine[i][r].pc \in {"run", "wait"}
            /\ routine' = [routine EXCEPT ![i] = [r \in Routines |->
                    IF r \in new THEN Runner(loop[i].task)
                    ELSE IF r \in lost THEN [routine[i][r] EXCEPT !.proc = "lost"]
                    ELSE routine[i][r]]]
            /\ seen' = [seen EXCEPT ![i][loop[i].task] =
                    @ \cup (IF lost = {} THEN {} ELSE {"lost"})]
        BY <3>8 DEF ReplacedBy
      <3>4. CASE i # h
        BY <1>1, <3>3, <3>4
      <3>5. CASE i = h /\ g \in new
        BY <1>1, <3>1, <3>3, <3>5
      <3>6. CASE i = h /\ g \notin new /\ g \notin lost
        BY <1>1, <3>3, <3>6
      <3>7. CASE i = h /\ g \notin new /\ g \in lost
        <4>1. routine'[h][g] = [routine[h][g] EXCEPT !.proc = "lost"]
          BY <1>1, <3>3, <3>7
        <4>2. routine[h][g].task = loop[h].task /\ routine[h][g].pc \in {"run", "wait"}
          BY <3>3, <3>7
        <4>3. "lost" \in seen'[h][routine[h][g].task]
          BY <1>2, <1>4, <3>3, <3>7, <4>2
        <4> QED
          BY <1>3, <4>1, <4>2, <4>3 DEF RoutineGoesOn, RoutineStates
      <3> QED
        BY <3>4, <3>5, <3>6, <3>7
    <2>3. CASE ~Kill(i) /\ ~Start(i) /\ ~StartFails(i)
      BY <1>6, <2>3 DEF AssignStep, AssignTask, LoadResult, SetRunning, UnknownAction,
         NotStarted, AssignedAll
    <2> QED
      BY <2>1, <2>2, <2>3
  <1>7. ASSUME NEW i \in Hosts, NEW j \in Routines, RoutineStep(i, j), i # h \/ j # g PROVE P
    <2>1. ASSUME NEW r, routine' = [routine EXCEPT ![i][j] = r]
          PROVE  routine'[h][g] = routine[h][g]
      BY <1>1, <1>7, <2>1
    <2>2. ASSUME NEW from, NEW to, Goto(i, j, from, to) PROVE routine'[h][g] = routine[h][g]
      BY <1>1, <1>7, <2>2 DEF Goto
    <2>3. CASE RunBegin(i, j) \/ KillBegin(i, j) \/ KillStatus(i, j) \/ PersistCreate(i, j)
      BY <2>2, <2>3 DEF RunBegin, KillBegin, KillStatus, PersistCreate
    <2>4. CASE \/ RunWaited(i, j) \/ PersistRead(i, j) \/ PersistWrite(i, j) \/ PersistFails(i, j)
               \/ RoutineEnd(i, j)
      BY <2>1, <2>4 DEF RunWaited, PersistRead, PersistWrite, PersistFails, RoutineEnd
    <2>5. CASE KillProcess(i, j)
      <3>1. PICK hit \in SUBSET Routines, pc \in {"signalled", "unkilled"} :
                /\ \A r \in hit : routine[i][r].task = routine[i][j].task /\ routine[i][r].proc = "running"
                /\ routine' = [routine EXCEPT ![i] = [r \in Routines |->
                        IF r = j THEN [routine[i][r] EXCEPT !.pc = pc]
                        ELSE IF r \in hit THEN [routine[i][r] EXCEPT !.proc = "exitErr"]
                        ELSE routine[i][r]]]
                /\ seen' = [seen EXCEPT ![i][routine[i][j].task] =
                        @ \cup (IF hit = {} THEN {} ELSE {"exitErr"})]
        BY <2>5 DEF KillProcess
      <3>2. CASE i # h \/ g \notin hit
        BY <1>1, <1>7, <3>1, <3>2
      <3>3. CASE i = h /\ g \in hit
        <4>1. routine'[h][g] = [routine[h][g] EXCEPT !.proc = "exitErr"]
          BY <1>1, <1>7, <3>1, <3>3
        <4>2. "exitErr" \in seen'[h][routine[h][g].task]
          BY <1>2, <1>4, <3>1, <3>3
        <4>3. routine[h][g].pc # "none"
          BY <1>5, <3>1, <3>3
        <4> QED
          BY <1>3, <4>1, <4>2, <4>3 DEF RoutineGoesOn, RoutineStates
      <3> QED
        BY <3>2, <3>3
    <2> QED
      BY <1>7, <2>3, <2>4, <2>5 DEF RoutineStep
  <1>8. ASSUME RoutineStep(h, g) PROVE P
    <2>1. ASSUME NEW from \in RoutinePcs \ {"none"}, NEW to \in RoutinePcs \ {"none"},
                 Goto(h, g, from, to),
                 to \in {"signal", "signalled", "unkilled"} =>
                    from \in {"signal", "signalled", "unkilled"} \/ "kill" \in seen'[h][routine[h][g].task],
                 to \in {"read", "write", "writing"} =>
                    from \in {"signalled", "unkilled", "read", "write", "writing"}
          PROVE  RoutineGoesOn(h, g)
      <3>1. routine'[h][g] = [routine[h][g] EXCEPT !.pc = to] /\ routine[h][g].pc = from
        BY <1>1, <2>1 DEF Goto
      <3> QED
        BY <1>3, <2>1, <3>1 DEF RoutineGoesOn, RoutineStates
    <2>2. CASE RunBegin(h, g)
      BY <2>1, <2>2 DEF RunBegin, RoutinePcs
    <2>3. CASE RunWaited(h, g)
      <3>1. routine'[h][g] = [routine[h][g] EXCEPT !.pc = "read", !.proc = "none"]
        BY <1>1, <2>3 DEF RunWaited
      <3>2. routine[h][g].pc = "wait" /\ routine[h][g].proc \in {"exit0", "exitErr", "lost"}
        BY <2>3 DEF RunWaited
      <3> QED
        BY <1>3, <3>1, <3>2 DEF RoutineGoesOn, RoutineStates
    <2>4. CASE KillBegin(h, g)
      <3>1. "kill" \in seen'[h][routine[h][g].task]
        BY <1>2, <1>4, <2>4 DEF KillBegin, Saw
      <3> QED
        BY <2>1, <2>4, <3>1 DEF KillBegin, RoutinePcs
    <2>5. CASE KillProcess(h, g)
      <3>1. PICK pc \in {"signalled", "unkilled"}, hit \in SUBSET Routines :
                routine' = [routine EXCEPT ![h] = [r \in Routines |->
                        IF r = g THEN [routine[h][r] EXCEPT !.pc = pc]
                        ELSE IF r \in hit THEN [routine[h][r] EXCEPT !.proc = "exitErr"]
                        ELSE routine[h][r]]]
        BY <2>5 DEF KillProcess
      <3>2. routine'[h][g] = [routine[h][g] EXCEPT !.pc = pc]
        BY <1>1, <3>1
      <3>3. routine[h][g].pc = "signal"
        BY <2>5 DEF KillProcess
      <3> QED
        BY <1>3, <3>2, <3>3 DEF RoutineGoesOn, RoutineStates
    <2>6. CASE KillStatus(h, g)
      BY <2>1, <2>6 DEF KillStatus, RoutinePcs
    <2>7. CASE PersistRead(h, g)
      <3>1. routine'[h][g] = [routine[h][g] EXCEPT !.pc = "write",
                                !.status = local[h][routine[h][g].task].status]
        BY <1>1, <2>7 DEF PersistRead
      <3>2. routine[h][g].pc = "read"
        BY <2>7 DEF PersistRead
      <3> QED
        BY <1>3, <3>1, <3>2 DEF RoutineGoesOn, RoutineStates
    <2>8. CASE PersistWrite(h, g) \/ PersistFails(h, g)
      <3>3. routine' = [routine EXCEPT ![h][g] = [routine[h][g] EXCEPT !.pc = "end", !.status = ""]]
        BY <2>8 DEF PersistWrite, PersistFails
      <3>1. routine'[h][g] = [routine[h][g] EXCEPT !.pc = "end", !.status = ""]
        BY <1>1, <3>3
      <3>2. routine[h][g].pc \in {"write", "writing"}
        BY <2>8 DEF PersistWrite, PersistFails
      <3> QED
        BY <1>3, <3>1, <3>2 DEF RoutineGoesOn, RoutineStates
    <2>10. CASE PersistCreate(h, g)
      BY <2>1, <2>10 DEF PersistCreate, RoutinePcs
    <2>9. CASE RoutineEnd(h, g)
      BY <1>1, <2>9 DEF RoutineEnd
    <2> QED
      BY <1>8, <2>2, <2>3, <2>4, <2>5, <2>6, <2>7, <2>8, <2>9, <2>10 DEF RoutineStep
  <1>9. ASSUME NEW i \in Hosts, NEW j \in Routines, ScriptEnds(i, j) PROVE P
    <2>1. PICK e \in {"exit0", "exitErr"} :
            /\ routine' = [routine EXCEPT ![i][j].proc = e]
            /\ seen' = [seen EXCEPT ![i][routine[i][j].task] = @ \cup {e}]
      BY <1>9 DEF ScriptEnds, Saw
    <2>2. CASE i # h \/ j # g
      BY <1>1, <2>1, <2>2
    <2>3. CASE i = h /\ j = g
      <3>1. routine'[h][g] = [routine[h][g] EXCEPT !.proc = e]
        BY <1>1, <2>1, <2>3
      <3>2. e \in seen'[h][routine[h][g].task]
        BY <1>2, <1>4, <2>1, <2>3
      <3>3. routine[h][g].pc # "none"
        BY <1>5, <1>9, <2>3 DEF ScriptEnds
      <3> QED
        BY <1>3, <3>1, <3>2, <3>3 DEF RoutineGoesOn, RoutineStates
    <2> QED
      BY <2>2, <2>3
  <1>10. ASSUME NEW i \in Hosts, Restarted(i) PROVE P
    BY <1>1, <1>10 DEF Restarted
  <1>11. ASSUME NEW i \in Hosts, AgentStep(i) PROVE P
    <2>1. \/ AssignStep(i)
          \/ \E j \in Routines : RoutineStep(i, j) \/ ScriptEnds(i, j)
          \/ UNCHANGED routine
      BY <1>11 DEF AgentStep, OrphanEnds
    <2> QED
      BY <1>6, <1>7, <1>8, <1>9, <2>1
  <1> QED
    BY <1>10, <1>11, AgentChanges

\* What one step does to the loop of host h and to the tasks it knows.
SameTask(h, t) ==
    /\ local'[h][t].known = local[h][t].known
    /\ local'[h][t].status = local[h][t].status
    /\ local'[h][t].action = local[h][t].action

\* A goroutine, or another host: a status may change, never to the empty one.
LoopStays(h) ==
    /\ loop'[h].pc = loop[h].pc /\ loop'[h].task = loop[h].task
    /\ \A t \in Tasks :
        /\ local'[h][t].known = local[h][t].known
        /\ local'[h][t].action = local[h][t].action
        /\ local'[h][t].status # local[h][t].status => local'[h][t].status # ""

\* Waiting, calling, or between two tasks.
LoopWaits(h) ==
    /\ loop[h].pc \in {"idle", "call", "assign"} /\ loop'[h].pc \in {"idle", "call", "assign"}
    /\ \A t \in Tasks : SameTask(h, t)

LoopAccepts(h) ==
    /\ loop[h].pc = "assign" /\ loop'[h].pc \in {"load", "act"}
    /\ \E a \in loop[h].todo :
        /\ loop'[h].task = a.id
        /\ local'[h][a.id].known /\ local'[h][a.id].action = a.action
        /\ local'[h][a.id].status = local[h][a.id].status
        /\ \A t \in Tasks \ {a.id} : SameTask(h, t)

LoopLoads(h) ==
    /\ loop[h].pc = "load" /\ loop'[h].pc = "assign"
    /\ \A t \in Tasks \ {loop[h].task} : SameTask(h, t)
    /\ LET t == loop[h].task
       IN  /\ local'[h][t].known = local[h][t].known
           /\ local'[h][t].action = local[h][t].action
           /\ \/ local'[h][t].status = disk[h][t]
              \/ local'[h][t].status = "" /\ "fileErr" \in Faults

LoopActs(h) ==
    /\ loop[h].pc = "act" /\ loop'[h].pc \in {"assign", "start"}
    /\ loop'[h].task = loop[h].task
    /\ \A t \in Tasks \ {loop[h].task} : SameTask(h, t)
    /\ LET t == loop[h].task
       IN  /\ local'[h][t].known = local[h][t].known
           /\ local'[h][t].action = local[h][t].action
           /\ local'[h][t].status # "" \/ (local[h][t].action = "other" /\ loop'[h].pc = "assign")

LoopStarts(h) ==
    /\ loop[h].pc = "start" /\ loop'[h].pc = "assign"
    /\ \A t \in Tasks : SameTask(h, t)

LoopForgets(h) ==
    /\ loop'[h].pc = "idle"
    /\ \A t \in Tasks : local'[h][t] = NotKnown
    /\ \A g \in Routines : routine'[h][g] = NoRoutine

AnyLoopChange(h) ==
    \/ LoopStays(h) \/ LoopWaits(h) \/ LoopAccepts(h) \/ LoopLoads(h)
    \/ LoopActs(h) \/ LoopStarts(h) \/ LoopForgets(h)

\* The loop of host h at its own step.
LEMMA OwnLoopFlow ==
    ASSUME TypeInv, NEW h \in Hosts, AssignStep(h)
    PROVE  AnyLoopChange(h)
  <1>1. local \in [Hosts -> [Tasks -> LocalTasks]]
    BY DEF TypeInv, TypeOK, AgentTypeOK
  <1>2. loop \in [Hosts -> LoopStates]
    BY DEF TypeInv, TypeOK, AgentTypeOK
  <1>3. loop[h].task \in Tasks /\ loop[h].todo \in SUBSET Assigns
    BY <1>2 DEF LoopStates
  <1>4. ASSUME UNCHANGED local PROVE \A t \in Tasks : SameTask(h, t)
    BY <1>4 DEF SameTask
  <1>5. ASSUME NEW st, local' = [local EXCEPT ![h][loop[h].task].status = st]
        PROVE  /\ \A t \in Tasks \ {loop[h].task} : SameTask(h, t)
               /\ local'[h][loop[h].task].known = local[h][loop[h].task].known
               /\ local'[h][loop[h].task].action = local[h][loop[h].task].action
               /\ local'[h][loop[h].task].status = st
    BY <1>1, <1>3, <1>5 DEF LocalTasks, SameTask
  <1>6. ASSUME NEW pc, loop' = [loop EXCEPT ![h].pc = pc]
        PROVE  loop'[h].pc = pc /\ loop'[h].task = loop[h].task
    BY <1>2, <1>6 DEF LoopStates
  <1>7. CASE AssignTask(h)
    <2>1. PICK a \in loop[h].todo :
            \/ /\ loop' = [loop EXCEPT ![h].todo = @ \ {a}]
               /\ UNCHANGED local
            \/ /\ local' = [local EXCEPT ![h][a.id] =
                    [local[h][a.id] EXCEPT !.known = TRUE, !.action = a.action]]
               /\ loop' = [loop EXCEPT ![h] = [loop[h] EXCEPT !.todo = @ \ {a}, !.task = a.id,
                            !.pc = IF DoneBefore(h, a.id) THEN "load" ELSE "act"]]
      BY <1>7 DEF AssignTask
    <2>2. loop[h].pc = "assign" /\ a.id \in Tasks
      BY <1>3, <1>7 DEF AssignTask, Assigns
    <2>3. CASE loop' = [loop EXCEPT ![h].todo = @ \ {a}] /\ UNCHANGED local
      <3>1. loop'[h].pc = "assign"
        BY <1>2, <2>2, <2>3 DEF LoopStates
      <3> QED
        BY <1>4, <2>2, <2>3, <3>1 DEF LoopWaits, AnyLoopChange
    <2>4. CASE /\ local' = [local EXCEPT ![h][a.id] =
                    [local[h][a.id] EXCEPT !.known = TRUE, !.action = a.action]]
               /\ loop' = [loop EXCEPT ![h] = [loop[h] EXCEPT !.todo = @ \ {a}, !.task = a.id,
                            !.pc = IF DoneBefore(h, a.id) THEN "load" ELSE "act"]]
      <3> DEFINE r == [local[h][a.id] EXCEPT !.known = TRUE, !.action = a.action]
                 pc == IF DoneBefore(h, a.id) THEN "load" ELSE "act"
      <3>1. pc \in {"load", "act"}
        OBVIOUS
      <3>2. loop' = [loop EXCEPT ![h] = [loop[h] EXCEPT !.todo = @ \ {a}, !.task = a.id, !.pc = pc]]
        BY <2>4
      <3>3. loop'[h].pc \in {"load", "act"} /\ loop'[h].task = a.id
        <4> HIDE DEF pc
        <4> QED
          BY <1>2, <3>1, <3>2 DEF LoopStates
      <3>4. local[h][a.id] \in LocalTasks
        BY <1>1, <2>2
      <3>5. r.known = TRUE /\ r.action = a.action /\ r.status = local[h][a.id].status
        BY <3>4 DEF LocalTasks
      <3>6. local' = [local EXCEPT ![h][a.id] = r]
        BY <2>4
      <3>7. local'[h][a.id] = r /\ \A t \in Tasks \ {a.id} : local'[h][t] = local[h][t]
        <4> HIDE DEF r
        <4> QED
          BY <1>1, <2>2, <3>6
      <3> HIDE DEF r
      <3> QED
        BY <2>2, <3>3, <3>5, <3>7 DEF LoopAccepts, SameTask, AnyLoopChange
    <2> QED
      BY <2>1, <2>3, <2>4
  <1>8. CASE LoadResult(h)
    <2>1. loop[h].pc = "load" /\ loop'[h].pc = "assign"
      BY <1>6, <1>8 DEF LoadResult, NextAssign
    <2>2. PICK st : /\ local' = [local EXCEPT ![h][loop[h].task].status = st]
                    /\ st = disk[h][loop[h].task] \/ (st = "" /\ "fileErr" \in Faults)
      BY <1>8 DEF LoadResult
    <2> QED
      BY <1>5, <2>1, <2>2 DEF LoopLoads, AnyLoopChange
  <1>9. CASE Kill(h) \/ SetRunning(h)
    <2>1. /\ loop[h].pc = "act" /\ loop'[h].pc \in {"assign", "start"}
          /\ loop'[h].task = loop[h].task
      BY <1>6, <1>9 DEF Kill, SetRunning, NextAssign
    <2>2. PICK st \in {"killing", "running"} :
            local' = [local EXCEPT ![h][loop[h].task].status = st]
      BY <1>9 DEF Kill, SetRunning
    <2> QED
      BY <1>5, <2>1, <2>2 DEF LoopActs, AnyLoopChange
  <1>10. CASE UnknownAction(h)
    <2>1. /\ loop[h].pc = "act" /\ loop'[h].pc = "assign" /\ loop'[h].task = loop[h].task
          /\ local[h][loop[h].task].action = "other" /\ UNCHANGED local
      BY <1>6, <1>10 DEF UnknownAction, NextAssign
    <2> QED
      BY <1>4, <2>1 DEF LoopActs, AnyLoopChange
  <1>11. CASE NotStarted(h) \/ StartFails(h) \/ Start(h)
    <2>1. loop[h].pc = "start" /\ loop'[h].pc = "assign" /\ UNCHANGED local
      BY <1>6, <1>11 DEF NotStarted, StartFails, Start, NextAssign
    <2> QED
      BY <1>4, <2>1 DEF LoopStarts, AnyLoopChange
  <1>12. CASE AssignedAll(h)
    <2>1. loop[h].pc = "assign" /\ loop'[h].pc = "idle" /\ UNCHANGED local
      BY <1>2, <1>12 DEF AssignedAll, Idle
    <2> QED
      BY <1>4, <2>1 DEF LoopWaits, AnyLoopChange
  <1> QED
    BY <1>7, <1>8, <1>9, <1>10, <1>11, <1>12 DEF AssignStep

LEMMA LoopLocalFlow ==
    ASSUME TypeInv, WaitsInCall, [Next]_vars, NEW h \in Hosts
    PROVE  AnyLoopChange(h)
  <1>1. local \in [Hosts -> [Tasks -> LocalTasks]]
    BY DEF TypeInv, TypeOK, AgentTypeOK
  <1>2. loop \in [Hosts -> LoopStates]
    BY DEF TypeInv, TypeOK, AgentTypeOK
  <1>3. ASSUME UNCHANGED local PROVE \A t \in Tasks : SameTask(h, t)
    BY <1>3 DEF SameTask
  <1>4. ASSUME loop'[h] = loop[h], local'[h] = local[h] PROVE LoopStays(h)
    BY <1>4 DEF LoopStays
  <1>5. ASSUME NEW i \in Hosts, AssignStep(i), i # h PROVE LoopStays(h)
    <2>1. \/ UNCHANGED local
          \/ \E u, r : local' = [local EXCEPT ![i][u] = r]
          \/ \E u, st : local' = [local EXCEPT ![i][u].status = st]
      <3>1. CASE AssignTask(i)
        BY <3>1 DEF AssignTask
      <3>2. CASE LoadResult(i) \/ SetRunning(i)
        BY <3>2 DEF LoadResult, SetRunning
      <3>3. CASE Kill(i) \/ UnknownAction(i) \/ NotStarted(i) \/ StartFails(i) \/ Start(i) \/ AssignedAll(i)
        BY <3>3 DEF Kill, UnknownAction, NotStarted, StartFails, Start, AssignedAll
      <3> QED
        BY <1>5, <3>1, <3>2, <3>3 DEF AssignStep
    <2>2. local'[h] = local[h]
      BY <1>1, <1>5, <2>1
    <2>3. CASE AssignTask(i)
      <3>1. \E a : \/ loop' = [loop EXCEPT ![i].todo = @ \ {a}]
                   \/ loop' = [loop EXCEPT ![i] = [loop[i] EXCEPT !.todo = @ \ {a}, !.task = a.id,
                            !.pc = IF DoneBefore(i, a.id) THEN "load" ELSE "act"]]
        BY <2>3 DEF AssignTask
      <3> QED
        BY <1>2, <1>4, <1>5, <2>2, <3>1
    <2>4. CASE ~AssignTask(i)
      <3>1. loop' = [loop EXCEPT ![i] = Idle] \/ \E pc : loop' = [loop EXCEPT ![i].pc = pc]
        BY <1>5, <2>4 DEF AssignStep, LoadResult, Kill, SetRunning, UnknownAction,
           NotStarted, StartFails, Start, AssignedAll, NextAssign
      <3> QED
        BY <1>2, <1>4, <1>5, <2>2, <3>1
    <2> QED
      BY <2>3, <2>4
  <1>6. ASSUME NEW i \in Hosts, NEW g \in Routines, RoutineStep(i, g) PROVE LoopStays(h)
    <2>0. routine[i][g].task \in Tasks
      BY DEF TypeInv, TypeOK, AgentTypeOK, RoutineStates
    <2>1. ASSUME NEW v, SetAlive(i, g, v)
          PROVE  \A t \in Tasks : SameTask(h, t)
      BY <1>1, <2>0, <2>1 DEF SetAlive, LocalTasks, SameTask
    <2>2. ASSUME NEW st, SetStatus(i, g, st), st # ""
          PROVE  \A t \in Tasks :
                    /\ local'[h][t].known = local[h][t].known
                    /\ local'[h][t].action = local[h][t].action
                    /\ local'[h][t].status # local[h][t].status => local'[h][t].status # ""
      <3> TAKE t \in Tasks
      <3>1. local' = [local EXCEPT ![i][routine[i][g].task].status = st]
        BY <2>2 DEF SetStatus
      <3>2. local[h][t] \in LocalTasks
        BY <1>1
      <3>3. \/ local'[h][t] = local[h][t]
            \/ local'[h][t] = [local[h][t] EXCEPT !.status = st]
        BY <1>1, <2>0, <3>1
      <3> QED
        BY <2>2, <3>2, <3>3 DEF LocalTasks
    <2>3. UNCHANGED loop
      BY <1>6 DEF RoutineStep, RunBegin, RunWaited, KillBegin, KillProcess, KillStatus,
         PersistRead, PersistCreate, PersistWrite, PersistFails, RoutineEnd
    <2>4. \/ UNCHANGED local
          \/ \E v : SetAlive(i, g, v)
          \/ SetStatus(i, g, "success") \/ SetStatus(i, g, "killed") \/ SetStatus(i, g, "killfailed")
      <3>1. CASE RunWaited(i, g)
        BY <3>1 DEF RunWaited, ExitStatus
      <3>2. CASE ~RunWaited(i, g)
        BY <1>6, <3>2 DEF RoutineStep, RunBegin, KillBegin, KillProcess, KillStatus,
           PersistRead, PersistCreate, PersistWrite, PersistFails, RoutineEnd
      <3> QED
        BY <3>1, <3>2
    <2> QED
      BY <1>4, <2>1, <2>2, <2>3, <2>4 DEF LoopStays, SameTask
  <1>7. ASSUME NEW i \in Hosts, AgentStep(i) PROVE AnyLoopChange(h)
    <2>1. \/ AssignStep(i)
          \/ \E g \in Routines : RoutineStep(i, g)
          \/ UNCHANGED <<local, loop>>
      BY <1>7 DEF AgentStep, ScriptEnds, OrphanEnds
    <2> QED
      BY <1>4, <1>5, <1>6, <2>1, OwnLoopFlow DEF AnyLoopChange
  <1>8. ASSUME NEW i \in Hosts, NEW s \in Handlers, Call(i, s) PROVE AnyLoopChange(h)
    <2>1. loop[i].pc = "idle" /\ loop' = [loop EXCEPT ![i].pc = "call"] /\ UNCHANGED local
      BY <1>8 DEF Call
    <2>2. CASE i = h
      <3>1. loop[h].pc = "idle" /\ loop'[h].pc = "call"
        BY <1>2, <2>1, <2>2 DEF LoopStates
      <3> QED
        BY <1>3, <2>1, <3>1 DEF LoopWaits, AnyLoopChange
    <2>3. CASE i # h
      BY <1>2, <1>4, <2>1, <2>3 DEF AnyLoopChange
    <2> QED
      BY <2>2, <2>3
  <1>9. ASSUME NEW s \in Handlers, Replied(s) PROVE AnyLoopChange(h)
    <2>1. /\ UNCHANGED local
          /\ \/ UNCHANGED loop
             \/ \E i \in Hosts : /\ loop[i].pc = "call"
                    /\ loop' = [loop EXCEPT ![i] = [loop[i] EXCEPT !.pc = "assign", !.todo = GetTasksByIp(i)]]
      <3>1. handler[s].host \in Hosts
        BY DEF TypeInv, TypeOK, ServerTypeOK, HandlerStates
      <3> QED
        BY <1>9, <3>1 DEF Replied, WaitsInCall
    <2>2. ASSUME NEW i \in Hosts, loop[i].pc = "call",
                 loop' = [loop EXCEPT ![i] = [loop[i] EXCEPT !.pc = "assign", !.todo = GetTasksByIp(i)]]
          PROVE  \/ loop'[h] = loop[h]
                 \/ loop[h].pc = "call" /\ loop'[h].pc = "assign"
      BY <1>2, <2>2 DEF LoopStates
    <2> QED
      BY <1>3, <1>4, <2>1, <2>2 DEF LoopWaits, AnyLoopChange
  <1>10. ASSUME NEW hs, CallErrors(hs) PROVE AnyLoopChange(h)
    <2>1. UNCHANGED local
      BY <1>10 DEF CallErrors
    <2>2. loop'[h] = loop[h] \/ (loop[h].pc = "call" /\ loop'[h].pc = "idle")
      BY <1>10 DEF CallErrors, Idle
    <2> QED
      BY <1>3, <1>4, <2>1, <2>2 DEF LoopWaits, AnyLoopChange
  <1>11. ASSUME NEW i \in Hosts, Restarted(i) PROVE AnyLoopChange(h)
    <2>1. CASE i = h
      <3>1. loop'[h] = Idle /\ local'[h] = [t \in Tasks |-> NotKnown]
        BY <1>1, <1>2, <1>11, <2>1 DEF Restarted
      <3>2. \A g \in Routines : routine'[h][g] = NoRoutine
        <4>1. routine \in [Hosts -> [Routines -> RoutineStates]]
          BY DEF TypeInv, TypeOK, AgentTypeOK
        <4> QED
          BY <1>11, <2>1, <4>1 DEF Restarted
      <3> QED
        BY <3>1, <3>2 DEF LoopForgets, Idle, AnyLoopChange
    <2>2. CASE i # h
      <3>1. loop'[h] = loop[h] /\ local'[h] = local[h]
        BY <1>1, <1>2, <1>11, <2>2 DEF Restarted
      <3> QED
        BY <1>4, <3>1 DEF AnyLoopChange
    <2> QED
      BY <2>1, <2>2
  <1>12. CASE UNCHANGED <<local, loop>>
    BY <1>4, <1>12 DEF AnyLoopChange
  <1> QED
    <2>1. \/ UNCHANGED <<local, loop>>
          \/ \E i \in Hosts : AgentStep(i) \/ Restarted(i)
          \/ \E i \in Hosts, s \in Handlers : Call(i, s)
          \/ \E s \in Handlers : Replied(s)
          \/ \E hs : CallErrors(hs)
      BY DEF Next, vars, agentVars, Failed, TimedOut, AgentCrash, ServerCrash
    <2> QED
      BY <1>7, <1>8, <1>9, <1>10, <1>11, <1>12, <2>1

\* The fields of the values that tasks and goroutines start with.
LEMMA StartValues ==
    /\ ~NotKnown.known /\ NotKnown.action = "start" /\ NotKnown.status = ""
    /\ NoRoutine.pc = "none" /\ NoRoutine.proc = "none" /\ NoRoutine.status = ""
    /\ \A t : Runner(t).task = t /\ Runner(t).pc = "run" /\ Runner(t).proc = "running"
              /\ Runner(t).status = ""
    /\ \A t : Killer(t).task = t /\ Killer(t).pc = "kill" /\ Killer(t).proc = "none"
              /\ Killer(t).status = ""
  BY DEF NotKnown, NoRoutine, Runner, Killer

-----------------------------------------------------------------------------
(* What holds stays: tasks remain posted, events seen, rows written.       *)

LEMMA TargetedStays ==
    ASSUME [Next]_vars, NEW h, NEW t, Targeted(h, t)
    PROVE  Targeted(h, t)'
  BY PostedFlow DEF Targeted

LEMMA BackedStays ==
    ASSUME TypeInv, [Next]_vars, NEW h \in Hosts, NEW t \in Tasks, NEW st,
           Backed(st, seen[h][t])
    PROVE  Backed(st, seen'[h][t])
  BY SeenFlow DEF Backed

LEMMA EarnedStays ==
    ASSUME TypeInv, [Next]_vars, NEW h \in Hosts, NEW t \in Tasks, NEW st,
           Earned(st, seen[h][t])
    PROVE  Earned(st, seen'[h][t])
  BY SeenFlow DEF Earned

LEMMA ClosableStays ==
    ASSUME TypeInv, [Next]_vars, NEW h \in Hosts, NEW t \in Tasks, Closable(h, t)
    PROVE  Closable(h, t)'
  <1>1. rows[t][h] # <<>> => rows'[t][h] # <<>>
    <2>1. rows[t][h] \in Seq(Statuses)
      BY DEF TypeInv, TypeOK, ServerTypeOK
    <2>2. ASSUME NEW st \in Statuses PROVE Append(rows[t][h], st) # <<>>
      BY <2>1
    <2>3. \A s \in Handlers : \A x \in handler[s].fresh : x.status \in Statuses
      BY DEF TypeInv, TypeOK, ServerTypeOK, HandlerStates, Reports
    <2> QED
      BY <2>2, <2>3, RowsFlow
  <1>2. seen[h][t] # {} => seen'[h][t] # {}
    BY SeenFlow
  <1> QED
    BY <1>1, <1>2, TargetedStays DEF Closable

-----------------------------------------------------------------------------
(* Each part of the invariant is kept by every step.                       *)

LEMMA WaitsInCallStep ==
    ASSUME TypeInv, WaitsInCall, [Next]_vars
    PROVE  WaitsInCall'
  <1> SUFFICES ASSUME NEW h \in Hosts, conn'[h] # {}
               PROVE  loop'[h].pc = "call" /\ \E s \in Handlers : conn'[h] = {s}
    BY DEF WaitsInCall
  <1>1. loop \in [Hosts -> LoopStates]
    BY DEF TypeInv, TypeOK, AgentTypeOK
  <1>2. conn \in [Hosts -> SUBSET Handlers]
    BY DEF TypeInv, TypeOK
  <1>3. conn[h] # {} => loop[h].pc = "call" /\ \E s \in Handlers : conn[h] = {s}
    BY DEF WaitsInCall
  <1>4. ASSUME conn'[h] = conn[h], loop'[h] = loop[h]
        PROVE  loop'[h].pc = "call" /\ \E s \in Handlers : conn'[h] = {s}
    BY <1>3, <1>4
  <1>5. ASSUME NEW i \in Hosts, AgentStep(i), UNCHANGED conn
        PROVE  loop'[h] = loop[h]
    <2>1. CASE i # h
      <3>1. \/ UNCHANGED loop
            \/ loop' = [loop EXCEPT ![i] = Idle]
            \/ \E pc : loop' = [loop EXCEPT ![i].pc = pc]
            \/ AssignTask(i)
        BY <1>5 DEF AgentStep, AssignStep, LoadResult, Kill, SetRunning, UnknownAction,
           NotStarted, StartFails, Start, AssignedAll, NextAssign, RoutineStep, RunBegin, RunWaited, KillBegin,
           KillProcess, KillStatus, PersistRead, PersistCreate, PersistWrite, PersistFails, RoutineEnd, ScriptEnds, OrphanEnds
      <3>2. CASE AssignTask(i)
        <4>1. \E a : \/ loop' = [loop EXCEPT ![i].todo = @ \ {a}]
                     \/ loop' = [loop EXCEPT ![i] = [loop[i] EXCEPT !.todo = @ \ {a}, !.task = a.id,
                              !.pc = IF DoneBefore(i, a.id) THEN "load" ELSE "act"]]
          BY <3>2 DEF AssignTask
        <4> QED
          BY <1>1, <2>1, <4>1
      <3> QED
        BY <1>1, <2>1, <3>1, <3>2
    <2>2. CASE i = h
      <3>1. loop[h].pc = "call"
        BY <1>3, <1>5
      <3> QED
        BY <1>5, <2>2, <3>1 DEF AgentStep, AssignStep, AssignTask, LoadResult, Kill, SetRunning,
           UnknownAction, NotStarted, StartFails, Start, AssignedAll, RoutineStep, RunBegin, RunWaited,
           KillBegin, KillProcess, KillStatus, PersistRead, PersistCreate, PersistWrite, PersistFails, RoutineEnd, ScriptEnds,
           OrphanEnds
    <2> QED
      BY <2>1, <2>2
  <1>6. ASSUME NEW i \in Hosts, NEW s \in Handlers, Call(i, s)
        PROVE  loop'[h].pc = "call" /\ \E r \in Handlers : conn'[h] = {r}
    <2>1. loop' = [loop EXCEPT ![i].pc = "call"] /\ conn' = [conn EXCEPT ![i] = {s}]
      BY <1>6 DEF Call
    <2>2. CASE i = h
      BY <1>1, <1>2, <2>1, <2>2 DEF LoopStates
    <2>3. CASE i # h
      BY <1>1, <1>2, <1>4, <2>1, <2>3
    <2> QED
      BY <2>2, <2>3
  <1>7. ASSUME NEW s \in Handlers, Replied(s)
        PROVE  conn'[h] = conn[h] /\ loop'[h] = loop[h]
    <2> DEFINE i == handler[s].host
    <2>1. i \in Hosts
      BY DEF TypeInv, TypeOK, ServerTypeOK, HandlerStates
    <2>2. conn' = [conn EXCEPT ![i] = @ \ {s}]
      BY <1>7 DEF Replied
    <2>3. CASE i # h
      <3>1. \/ UNCHANGED loop
            \/ loop' = [loop EXCEPT ![i] = [loop[i] EXCEPT !.pc = "assign", !.todo = GetTasksByIp(i)]]
        BY <1>7 DEF Replied
      <3> HIDE DEF i
      <3> QED
        BY <1>1, <1>2, <2>1, <2>2, <2>3, <3>1
    <2>4. CASE i = h
      <3>1. conn'[h] = conn[h] \ {s}
        BY <1>2, <2>2, <2>4
      <3>2. s \notin conn[h]
        BY <1>3, <3>1
      <3>3. UNCHANGED loop
        BY <1>7, <2>4, <3>2 DEF Replied
      <3> QED
        BY <3>1, <3>2, <3>3
    <2> QED
      BY <2>3, <2>4
  <1>8. ASSUME NEW hs, CallErrors(hs) PROVE conn'[h] = conn[h] /\ loop'[h] = loop[h]
    BY <1>8 DEF CallErrors
  <1>9. ASSUME NEW i \in Hosts, AgentCrash(i) PROVE conn'[h] = conn[h] /\ loop'[h] = loop[h]
    BY <1>1, <1>2, <1>9 DEF AgentCrash, Restarted
  <1> QED
    BY <1>4, <1>5, <1>6, <1>7, <1>8, <1>9
       DEF Next, vars, agentVars, Failed, TimedOut, ServerCrash

LEMMA HandedOutStep ==
    ASSUME TypeInv, HandedOut, [Next]_vars
    PROVE  HandedOut'
  <1> SUFFICES ASSUME NEW h \in Hosts
               PROVE  /\ \A a \in cache'[h] : Targeted(h, a.id)'
                      /\ \A a \in snap'.m[h] : Targeted(h, a.id)'
                      /\ \A a \in loop'[h].todo : Targeted(h, a.id)'
    BY DEF HandedOut
  <1>1. \A a \in cache[h] \cup snap.m[h] \cup loop[h].todo : Targeted(h, a.id)
    BY DEF HandedOut
  <1>2. \A a \in TasksByHost[h] : Targeted(h, a.id)
    BY DEF TasksByHost, UnDoTaskMeta, Targeted
  <1> QED
    BY <1>1, <1>2, CacheFlow, LoopFlow, TargetedStays

LEMMA UnknownActionsStep ==
    ASSUME TypeInv, WaitsInCall, UnknownActions, [Next]_vars
    PROVE  UnknownActions'
  <1> SUFFICES ASSUME "other" \notin NewActions \cup Changes
               PROVE  /\ \A t \in Tasks : action'[t] # "other"
                      /\ \A h \in Hosts :
                            /\ \A a \in cache'[h] : a.action # "other"
                            /\ \A a \in snap'.m[h] : a.action # "other"
                            /\ \A a \in loop'[h].todo : a.action # "other"
                            /\ \A t \in Tasks : local'[h][t].action # "other"
    BY DEF UnknownActions
  <1>1. \A t \in Tasks : action'[t] # "other"
    BY ActionFlow DEF UnknownActions
  <1>2. ASSUME NEW h \in Hosts
        PROVE  /\ \A a \in cache'[h] : a.action # "other"
               /\ \A a \in snap'.m[h] : a.action # "other"
               /\ \A a \in loop'[h].todo : a.action # "other"
    <2>1. \A a \in TasksByHost[h] : a.action # "other"
      <3>1. posted \subseteq Tasks
        BY DEF TypeInv, TypeOK, ServerTypeOK
      <3>2. \A t \in posted : CachedAction(t) # "other"
        BY <3>1 DEF UnknownActions, CachedAction
      <3> QED
        BY <3>2 DEF TasksByHost, UnDoTaskMeta
    <2> QED
      BY <2>1, CacheFlow, LoopFlow DEF UnknownActions
  <1>3. ASSUME NEW h \in Hosts, NEW t \in Tasks PROVE local'[h][t].action # "other"
    <2>1. AnyLoopChange(h)
      BY LoopLocalFlow
    <2>2. local[h][t].action # "other" /\ \A a \in loop[h].todo : a.action # "other"
      BY DEF UnknownActions
    <2>3. CASE LoopStays(h) \/ LoopWaits(h) \/ LoopStarts(h)
      BY <2>2, <2>3 DEF LoopStays, LoopWaits, LoopStarts, SameTask
    <2>4. CASE LoopAccepts(h)
      BY <2>2, <2>4 DEF LoopAccepts, SameTask
    <2>5. CASE LoopLoads(h) \/ LoopActs(h)
      BY <2>2, <2>5 DEF LoopLoads, LoopActs, SameTask
    <2>6. CASE LoopForgets(h)
      <3>1. local'[h][t] = NotKnown
        BY <2>6 DEF LoopForgets
      <3> QED
        BY <3>1, StartValues
    <2> QED
      BY <2>1, <2>3, <2>4, <2>5, <2>6 DEF AnyLoopChange
  <1> QED
    BY <1>1, <1>2, <1>3

LEMMA KnownTargetedStep ==
    ASSUME TypeInv, WaitsInCall, HandedOut, KnownTargeted, [Next]_vars, TypeInv'
    PROVE  KnownTargeted'
  <1> SUFFICES ASSUME NEW h \in Hosts
               PROVE  /\ \A t \in Tasks : local'[h][t].known => Targeted(h, t)'
                      /\ loop'[h].pc \in {"load", "act", "start"} => local'[h][loop'[h].task].known
                      /\ \A g \in Routines :
                            /\ routine'[h][g].pc # "none" => local'[h][routine'[h][g].task].known
                            /\ routine'[h][g].pc = "none" => routine'[h][g].proc = "none"
    BY DEF KnownTargeted
  <1>1. AnyLoopChange(h)
    BY LoopLocalFlow
  <1>2. /\ \A t \in Tasks : local[h][t].known => Targeted(h, t)
        /\ loop[h].pc \in {"load", "act", "start"} => local[h][loop[h].task].known
        /\ \A g \in Routines :
             /\ routine[h][g].pc # "none" => local[h][routine[h][g].task].known
             /\ routine[h][g].pc = "none" => routine[h][g].proc = "none"
    BY DEF KnownTargeted
  <1>3. loop[h].task \in Tasks /\ loop'[h].task \in Tasks
    BY DEF TypeInv, TypeOK, AgentTypeOK, LoopStates
  <1>4. \A g \in Routines : routine[h][g].task \in Tasks /\ routine'[h][g].task \in Tasks
    BY DEF TypeInv, TypeOK, AgentTypeOK, RoutineStates
  <1>5. \A a \in loop[h].todo : a.id \in Tasks /\ Targeted(h, a.id)
    BY DEF TypeInv, TypeOK, AgentTypeOK, LoopStates, Assigns, HandedOut
  <1>6. LoopForgets(h) \/ \A t \in Tasks : local[h][t].known => local'[h][t].known
    <2>1. CASE LoopStays(h) \/ LoopWaits(h) \/ LoopStarts(h)
      BY <2>1 DEF LoopStays, LoopWaits, LoopStarts, SameTask
    <2>2. CASE LoopAccepts(h)
      BY <2>2 DEF LoopAccepts, SameTask
    <2>3. CASE LoopLoads(h) \/ LoopActs(h)
      BY <2>3 DEF LoopLoads, LoopActs, SameTask
    <2> QED
      BY <1>1, <2>1, <2>2, <2>3 DEF AnyLoopChange
  <1>7. ASSUME NEW t \in Tasks, local'[h][t].known PROVE Targeted(h, t)
    <2>1. CASE LoopStays(h) \/ LoopWaits(h) \/ LoopStarts(h)
      BY <1>2, <1>7, <2>1 DEF LoopStays, LoopWaits, LoopStarts, SameTask
    <2>2. CASE LoopAccepts(h)
      BY <1>2, <1>5, <1>7, <2>2 DEF LoopAccepts, SameTask
    <2>3. CASE LoopLoads(h) \/ LoopActs(h)
      BY <1>2, <1>7, <2>3 DEF LoopLoads, LoopActs, SameTask
    <2>4. CASE LoopForgets(h)
      <3>1. local'[h][t] = NotKnown
        BY <2>4 DEF LoopForgets
      <3> QED
        BY <1>7, <3>1, StartValues
    <2> QED
      BY <1>1, <2>1, <2>2, <2>3, <2>4 DEF AnyLoopChange
  <1>8. ASSUME loop'[h].pc \in {"load", "act", "start"} PROVE local'[h][loop'[h].task].known
    <2>1. CASE LoopStays(h)
      BY <1>2, <1>3, <1>8, <2>1 DEF LoopStays
    <2>2. CASE LoopAccepts(h)
      BY <2>2 DEF LoopAccepts
    <2>3. CASE LoopActs(h)
      BY <1>2, <1>3, <1>8, <2>3 DEF LoopActs
    <2>4. CASE LoopWaits(h) \/ LoopLoads(h) \/ LoopStarts(h) \/ LoopForgets(h)
      BY <1>8, <2>4 DEF LoopWaits, LoopLoads, LoopStarts, LoopForgets
    <2> QED
      BY <1>1, <2>1, <2>2, <2>3, <2>4 DEF AnyLoopChange
  <1>9. ASSUME NEW g \in Routines
        PROVE  /\ routine'[h][g].pc # "none" => local'[h][routine'[h][g].task].known
               /\ routine'[h][g].pc = "none" => routine'[h][g].proc = "none"
    <2>1. CASE routine'[h][g] = routine[h][g] /\ ~LoopForgets(h)
      BY <1>2, <1>4, <1>6, <2>1
    <2>2. CASE routine'[h][g] = NoRoutine
      BY <2>2, StartValues
    <2>3. CASE /\ loop[h].pc \in {"act", "start"} /\ ~LoopForgets(h)
               /\ routine'[h][g] \in {Runner(loop[h].task), Killer(loop[h].task)}
      <3>1. routine'[h][g].task = loop[h].task /\ routine'[h][g].pc # "none"
        <4>1. CASE routine'[h][g] = Runner(loop[h].task)
          BY <4>1, StartValues
        <4>2. CASE routine'[h][g] = Killer(loop[h].task)
          BY <4>2, StartValues
        <4> QED
          BY <2>3, <4>1, <4>2
      <3>2. local'[h][loop[h].task].known
        BY <1>2, <1>3, <1>6, <2>3
      <3> QED
        BY <3>1, <3>2
    <2>4. CASE RoutineGoesOn(h, g) /\ ~LoopForgets(h)
      BY <1>2, <1>4, <1>6, <2>4 DEF RoutineGoesOn
    <2>5. LoopForgets(h) => routine'[h][g] = NoRoutine
      BY DEF LoopForgets
    <2> QED
      BY <2>1, <2>2, <2>3, <2>4, <2>5, RoutineFlow
  <1> QED
    BY <1>7, <1>8, <1>9, TargetedStays

LEMMA StatusBackedStep ==
    ASSUME TypeInv, KnownTargeted, StatusBacked, RoutineBacked, [Next]_vars
    PROVE  StatusBacked'
  <1> SUFFICES ASSUME NEW h \in Hosts
               PROVE  /\ \A t \in Tasks : Backed(local'[h][t].status, seen'[h][t])
                      /\ \A t \in Tasks : Backed(disk'[h][t], seen'[h][t])
                      /\ \A g \in Routines :
                            Backed(routine'[h][g].status, seen'[h][routine'[h][g].task])
    BY DEF StatusBacked
  <1>1. \A g \in Routines : routine[h][g].task \in Tasks
    BY DEF TypeInv, TypeOK, AgentTypeOK, RoutineStates
  <1>2. \A t \in Tasks : Backed(local[h][t].status, seen'[h][t])
    BY BackedStays DEF StatusBacked
  <1>3. \A t \in Tasks : Backed(disk[h][t], seen'[h][t])
    BY BackedStays DEF StatusBacked
  <1>4. \A g \in Routines : Backed(routine[h][g].status, seen'[h][routine[h][g].task])
    BY <1>1, BackedStays DEF StatusBacked
  <1>5. \A e : Backed("", e) /\ Backed("running", e) /\ Backed("killing", e)
    BY DEF Backed
  <1>6. ASSUME NEW t \in Tasks PROVE Backed(local'[h][t].status, seen'[h][t])
    <2>1. ASSUME NEW g \in Routines, routine[h][g].task = t
          PROVE  /\ routine[h][g].proc = "exit0" => Backed("success", seen'[h][t])
                 /\ routine[h][g].proc \in {"exitErr", "lost"} => Backed("killed", seen'[h][t])
                 /\ routine[h][g].pc = "signalled" => Backed("killed", seen'[h][t])
                 /\ routine[h][g].pc = "unkilled" => Backed("killfailed", seen'[h][t])
      BY <2>1, SeenFlow DEF RoutineBacked, Backed
    <2>2. ASSUME NEW st, StatusSource(h, t, st) PROVE Backed(st, seen'[h][t])
      BY <1>2, <1>3, <1>5, <2>1, <2>2 DEF StatusSource
    <2> QED
      BY <2>2, StatusFlow
  <1>7. ASSUME NEW t \in Tasks PROVE Backed(disk'[h][t], seen'[h][t])
    <2>1. ASSUME NEW g \in Routines, routine[h][g].pc \in {"write", "writing"}, routine[h][g].task = t
          PROVE  Backed("torn", seen'[h][t])
      BY <2>1, SeenFlow DEF RoutineBacked, Backed
    <2>2. CASE disk'[h][t] = disk[h][t]
      BY <1>3, <2>2
    <2>3. ASSUME NEW g \in Routines, routine[h][g].pc \in {"write", "writing"},
                 routine[h][g].task = t, disk'[h][t] \in {"", "torn", routine[h][g].status}
          PROVE  Backed(disk'[h][t], seen'[h][t])
      <3>1. Backed("torn", seen'[h][t]) /\ Backed("", seen'[h][t])
            /\ Backed(routine[h][g].status, seen'[h][t])
        BY <1>4, <1>5, <2>1, <2>3
      <3> QED
        BY <2>3, <3>1
    <2> QED
      BY <2>2, <2>3, DiskFlow
  <1>8. ASSUME NEW g \in Routines
        PROVE  Backed(routine'[h][g].status, seen'[h][routine'[h][g].task])
    <2>1. CASE RoutineGoesOn(h, g)
      BY <1>1, <1>2, <1>4, <1>5, <2>1 DEF RoutineGoesOn
    <2>2. CASE routine'[h][g] = NoRoutine
      BY <1>5, <2>2, StartValues
    <2>3. CASE routine'[h][g] \in {Runner(loop[h].task), Killer(loop[h].task)}
      <3>0. Runner(loop[h].task).status = "" /\ Killer(loop[h].task).status = ""
        BY StartValues
      <3>1. routine'[h][g].status = ""
        BY <2>3, <3>0
      <3> QED
        BY <1>5, <3>1
    <2> QED
      BY <1>4, <2>1, <2>2, <2>3, RoutineFlow
  <1> QED
    BY <1>6, <1>7, <1>8

LEMMA RoutineBackedStep ==
    ASSUME TypeInv, KnownTargeted, RoutineBacked, [Next]_vars
    PROVE  RoutineBacked'
  <1>1. ASSUME NEW h \in Hosts, NEW g \in Routines
        PROVE  LET n == routine'[h][g]
                   events == seen'[h][n.task]
               IN  /\ n.proc \in {"exit0", "exitErr", "lost"} => n.proc \in events
                   /\ n.pc \in {"signal", "signalled", "unkilled"} => "kill" \in events
                   /\ n.pc \in {"read", "write", "writing"} => events # {}
    <2>1. routine[h][g].task \in Tasks
      BY DEF TypeInv, TypeOK, AgentTypeOK, RoutineStates
    <2>2. seen[h][routine[h][g].task] \subseteq seen'[h][routine[h][g].task]
      BY <2>1, SeenFlow
    <2>3. /\ routine[h][g].proc \in {"exit0", "exitErr", "lost"} =>
                routine[h][g].proc \in seen'[h][routine[h][g].task]
          /\ routine[h][g].pc \in {"signal", "signalled", "unkilled"} =>
                "kill" \in seen'[h][routine[h][g].task]
          /\ routine[h][g].pc \in {"read", "write", "writing"} =>
                seen'[h][routine[h][g].task] # {}
      BY <2>2 DEF RoutineBacked
    <2>4. CASE RoutineGoesOn(h, g)
      BY <2>3, <2>4 DEF RoutineGoesOn
    <2>5. CASE routine'[h][g] = NoRoutine
      BY <2>5, StartValues
    <2>6. CASE routine'[h][g] = Runner(loop[h].task)
      BY <2>6, StartValues
    <2>7. CASE routine'[h][g] = Killer(loop[h].task)
      BY <2>7, StartValues
    <2> QED
      BY <2>3, <2>4, <2>5, <2>6, <2>7, RoutineFlow
  <1>2. ASSUME NEW h \in Hosts, NEW t \in Tasks, disk'[h][t] # NoFile
        PROVE  seen'[h][t] # {}
    <2>1. disk[h][t] # NoFile => seen[h][t] # {}
      BY DEF RoutineBacked
    <2>2. ASSUME NEW g \in Routines, routine[h][g].pc \in {"write", "writing"}, routine[h][g].task = t
          PROVE  seen[h][t] # {}
      BY <2>2 DEF RoutineBacked
    <2>3. \/ disk'[h][t] = disk[h][t]
          \/ \E g \in Routines : routine[h][g].pc \in {"write", "writing"} /\ routine[h][g].task = t
      <3>1. \/ disk'[h][t] = disk[h][t]
            \/ \E g \in Routines :
                /\ routine[h][g].pc \in {"write", "writing"} /\ routine[h][g].task = t
                /\ disk'[h][t] \in {"", "torn", routine[h][g].status}
        BY DiskFlow
      <3> QED
        BY <3>1
    <2>4. CASE disk'[h][t] = disk[h][t]
      BY <1>2, <2>1, <2>4, SeenFlow
    <2>5. CASE \E g \in Routines : routine[h][g].pc \in {"write", "writing"} /\ routine[h][g].task = t
      BY <2>2, <2>5, SeenFlow
    <2> QED
      BY <2>3, <2>4, <2>5
  <1> QED
    BY <1>1, <1>2 DEF RoutineBacked

LEMMA BlankExplainedStep ==
    ASSUME TypeInv, WaitsInCall, UnknownActions, RoutineBacked, BlankExplained, [Next]_vars
    PROVE  BlankExplained'
  <1> SUFFICES ASSUME ~OtherPossible, NEW h \in Hosts, NEW t \in Tasks,
                      local'[h][t].known, local'[h][t].status = "", seen'[h][t] = {}
               PROVE  loop'[h].pc \in {"load", "act"} /\ loop'[h].task = t
    BY DEF BlankExplained, OtherPossible
  <1>1. local[h][t].action # "other"
    BY DEF OtherPossible, UnknownActions
  <1>2. seen[h][t] = {}
    BY SeenFlow
  <1>3. local[h][t].known /\ local[h][t].status = "" =>
            loop[h].pc \in {"load", "act"} /\ loop[h].task = t
    BY <1>2 DEF BlankExplained
  <1>4. disk[h][t] = NoFile
    BY <1>2 DEF RoutineBacked
  <1>5. CASE LoopStays(h)
    BY <1>3, <1>5 DEF LoopStays
  <1>6. CASE LoopWaits(h) \/ LoopStarts(h)
    BY <1>3, <1>6 DEF LoopWaits, LoopStarts, SameTask
  <1>7. CASE LoopAccepts(h)
    BY <1>3, <1>7 DEF LoopAccepts, SameTask
  <1>8. CASE LoopLoads(h)
    <2>1. loop[h].pc = "load" => disk[h][loop[h].task] # NoFile
      BY DEF TypeInv, LoadsFlag
    <2> QED
      BY <1>3, <1>4, <1>8, <2>1 DEF LoopLoads, SameTask
  <1>9. CASE LoopActs(h)
    BY <1>1, <1>3, <1>9 DEF LoopActs, SameTask
  <1>10. ~LoopForgets(h)
    BY StartValues DEF LoopForgets
  <1> QED
    BY <1>5, <1>6, <1>7, <1>8, <1>9, <1>10, LoopLocalFlow DEF AnyLoopChange

\* The reports in a handler have been there, or an idle agent has just made them.
LEMMA ReportsFlow ==
    ASSUME TypeInv, [Next]_vars, NEW s \in Handlers, NEW x \in handler'[s].todo \cup handler'[s].fresh
    PROVE  \/ handler'[s].host = handler[s].host /\ x \in handler[s].todo \cup handler[s].fresh
           \/ loop[handler'[s].host].pc = "idle" /\ x \in ReportTasks(handler'[s].host)
  <1>1. handler[s] \in HandlerStates
    BY DEF TypeInv, TypeOK, ServerTypeOK
  <1>2. CASE SaveGet(s)
    <2>1. PICK y \in handler[s].todo, new \in SUBSET handler[s].todo :
            handler'[s] = [handler[s] EXCEPT !.todo = handler[s].todo \ {y}, !.fresh = new]
      <3>1. handler \in [Handlers -> HandlerStates]
        BY DEF TypeInv, TypeOK, ServerTypeOK
      <3> QED
        <4>1. PICK y \in handler[s].todo :
                handler' = [handler EXCEPT ![s] = [handler[s] EXCEPT !.todo = @ \ {y},
                      !.fresh = IF HasRow(y.id, handler[s].host) THEN {} ELSE {y}]]
          BY <1>2 DEF SaveGet
        <4> DEFINE new == IF HasRow(y.id, handler[s].host) THEN {} ELSE {y}
        <4>2. new \in SUBSET handler[s].todo
          OBVIOUS
        <4>3. handler' = [handler EXCEPT ![s] = [handler[s] EXCEPT !.todo = @ \ {y}, !.fresh = new]]
          BY <4>1
        <4> HIDE DEF new
        <4>4. handler'[s] = [handler[s] EXCEPT !.todo = handler[s].todo \ {y}, !.fresh = new]
          BY <3>1, <4>3
        <4> QED
          BY <4>2, <4>4
    <2>2. /\ handler'[s].host = handler[s].host
          /\ handler'[s].todo = handler[s].todo \ {y} /\ handler'[s].fresh = new
      BY <1>1, <2>1 DEF HandlerStates
    <2> QED
      BY <2>2
  <1>3. CASE SaveInsert(s) \/ DoTaskMetaMark(s)
    <2>1. /\ handler'[s].host = handler[s].host
          /\ handler'[s].todo = handler[s].todo /\ handler'[s].fresh \subseteq handler[s].fresh
      <3>1. handler \in [Handlers -> HandlerStates]
        BY DEF TypeInv, TypeOK, ServerTypeOK
      <3>2. CASE SaveInsert(s)
        <4>1. PICK y : handler' = [handler EXCEPT ![s] =
                            [handler[s] EXCEPT !.fresh = {}, !.added = @ \cup {y}]]
          BY <3>2 DEF SaveInsert
        <4>2. handler'[s] = [handler[s] EXCEPT !.fresh = {}, !.added = handler[s].added \cup {y}]
          BY <1>1, <3>1, <4>1
        <4> QED
          BY <1>1, <4>2 DEF HandlerStates
      <3>3. CASE DoTaskMetaMark(s)
        <4>1. PICK y : handler' = [handler EXCEPT ![s] = [handler[s] EXCEPT !.added = @ \ {y}]]
          BY <3>3 DEF DoTaskMetaMark
        <4>2. handler'[s] = [handler[s] EXCEPT !.added = handler[s].added \ {y}]
          BY <1>1, <3>1, <4>1
        <4> QED
          BY <1>1, <4>2 DEF HandlerStates
      <3> QED
        BY <1>3, <3>2, <3>3
    <2> QED
      BY <2>1
  <1>4. handler'[s] # FreeHandler
    BY DEF FreeHandler
  <1>5. CASE handler'[s] = handler[s]
    BY <1>5
  <1>6. ASSUME NEW h \in Hosts, loop[h].pc = "idle",
               handler'[s] = [busy |-> TRUE, host |-> h, todo |-> ReportTasks(h),
                              fresh |-> {}, added |-> {}]
        PROVE  loop[handler'[s].host].pc = "idle" /\ x \in ReportTasks(handler'[s].host)
    BY <1>6
  <1> QED
    BY <1>2, <1>3, <1>4, <1>5, <1>6, HandlerFlow

LEMMA ReportsEarnedStep ==
    ASSUME TypeInv, TypeInv', KnownTargeted, StatusBacked, BlankExplained, ReportsEarned, [Next]_vars
    PROVE  ReportsEarned'
  <1> SUFFICES ASSUME NEW s \in Handlers, NEW x \in handler'[s].todo \cup handler'[s].fresh
               PROVE  /\ x.id \in posted' /\ handler'[s].host \in HostsOf[x.id]
                      /\ Earned(x.status, seen'[handler'[s].host][x.id])
    BY DEF ReportsEarned, Targeted
  <1>1. handler[s] \in HandlerStates
    BY DEF TypeInv, TypeOK, ServerTypeOK
  <1>2. ASSUME NEW h \in Hosts, NEW r \in Reports, Targeted(h, r.id), Earned(r.status, seen[h][r.id])
        PROVE  r.id \in posted' /\ h \in HostsOf[r.id] /\ Earned(r.status, seen'[h][r.id])
    BY <1>2, PostedFlow, EarnedStays DEF Reports, Targeted
  <1>3. \A r \in handler[s].todo \cup handler[s].fresh :
            /\ r \in Reports /\ handler[s].host \in Hosts
            /\ Targeted(handler[s].host, r.id)
            /\ Earned(r.status, seen[handler[s].host][r.id])
    BY <1>1 DEF ReportsEarned, HandlerStates
  <1>4. ASSUME handler'[s].host = handler[s].host, x \in handler[s].todo \cup handler[s].fresh
        PROVE  /\ x.id \in posted' /\ handler'[s].host \in HostsOf[x.id]
               /\ Earned(x.status, seen'[handler'[s].host][x.id])
    BY <1>2, <1>3, <1>4
  <1>5. ASSUME NEW h \in Hosts, h = handler'[s].host, loop[h].pc = "idle", x \in ReportTasks(h)
        PROVE  /\ x.id \in posted' /\ handler'[s].host \in HostsOf[x.id]
               /\ Earned(x.status, seen'[handler'[s].host][x.id])
    <2>2. PICK t \in Tasks : /\ local[h][t].known /\ local[h][t].status \notin {"running", "killing"}
                             /\ x = [id |-> t, status |-> local[h][t].status]
      BY <1>5 DEF ReportTasks
    <2>3. Targeted(h, t)
      BY <2>2 DEF KnownTargeted
    <2>4. local[h][t].status = "" => seen[h][t] # {} \/ OtherPossible
      BY <1>5, <2>2 DEF BlankExplained
    <2>5. local[h][t].status \in Statuses
      BY DEF TypeInv, TypeOK, AgentTypeOK, LocalTasks
    <2>6. Backed(local[h][t].status, seen[h][t])
      BY DEF StatusBacked
    <2>7. Earned(local[h][t].status, seen[h][t])
      BY <2>2, <2>4, <2>5, <2>6 DEF Earned, Backed, Statuses
    <2>8. x \in Reports /\ x.id = t /\ x.status = local[h][t].status
      BY <2>2, <2>5 DEF Reports
    <2> QED
      BY <1>2, <1>5, <2>3, <2>7, <2>8
  <1>6. handler'[s].host \in Hosts
    BY DEF TypeInv, TypeOK, ServerTypeOK, HandlerStates
  <1> QED
    BY <1>4, <1>5, <1>6, ReportsFlow

\* A report on which a status is earned tells that something has happened.
LEMMA EarnedHappened ==
    ASSUME NEW status, NEW events, Earned(status, events)
    PROVE  events # {} \/ OtherPossible
  BY DEF Earned

LEMMA AddedClosableStep ==
    ASSUME TypeInv, ReportsEarned, AddedClosable, [Next]_vars
    PROVE  AddedClosable'
  <1> SUFFICES ASSUME NEW s \in Handlers, NEW t \in handler'[s].added
               PROVE  /\ t \in posted' /\ handler'[s].host \in HostsOf[t]
                      /\ seen'[handler'[s].host][t] # {} \/ OtherPossible
                      /\ rows'[t][handler'[s].host] # <<>> \/ "insertErr" \in Faults
    BY DEF AddedClosable, Closable, Targeted, OtherPossible
  <1>1. handler \in [Handlers -> HandlerStates]
    BY DEF TypeInv, TypeOK, ServerTypeOK
  <1>2. handler[s] \in HandlerStates
    BY <1>1
  <1>3. ASSUME handler'[s].host = handler[s].host, t \in handler[s].added
        PROVE  /\ t \in posted' /\ handler'[s].host \in HostsOf[t]
               /\ seen'[handler'[s].host][t] # {} \/ OtherPossible
               /\ rows'[t][handler'[s].host] # <<>> \/ "insertErr" \in Faults
    <2>1. /\ handler[s].host \in Hosts /\ t \in Tasks
          /\ Closable(handler[s].host, t)
      BY <1>2, <1>3 DEF AddedClosable, HandlerStates
    <2>2. ASSUME NEW h \in Hosts, Closable(h, t)
          PROVE  /\ t \in posted' /\ h \in HostsOf[t]
                 /\ seen'[h][t] # {} \/ OtherPossible
                 /\ rows'[t][h] # <<>> \/ "insertErr" \in Faults
      BY <2>1, <2>2, ClosableStays DEF Closable, Targeted, OtherPossible
    <2> QED
      BY <1>3, <2>1, <2>2
  <1>4. CASE SaveGet(s)
    <2>1. PICK y, new :
            handler' = [handler EXCEPT ![s] = [handler[s] EXCEPT !.todo = @ \ {y}, !.fresh = new]]
      BY <1>4 DEF SaveGet
    <2>2. handler'[s] = [handler[s] EXCEPT !.todo = handler[s].todo \ {y}, !.fresh = new]
      BY <1>1, <2>1
    <2> QED
      BY <1>2, <1>3, <2>2 DEF HandlerStates
  <1>5. CASE DoTaskMetaMark(s)
    <2>1. PICK y : handler' = [handler EXCEPT ![s] = [handler[s] EXCEPT !.added = @ \ {y}]]
      BY <1>5 DEF DoTaskMetaMark
    <2>2. handler'[s] = [handler[s] EXCEPT !.added = handler[s].added \ {y}]
      BY <1>1, <2>1
    <2> QED
      BY <1>2, <1>3, <2>2 DEF HandlerStates
  <1>6. CASE SaveInsert(s)
    <2>1. PICK x \in handler[s].fresh :
            /\ \/ rows' = [rows EXCEPT ![x.id][handler[s].host] = Append(@, x.status)]
               \/ "insertErr" \in Faults /\ UNCHANGED rows
            /\ handler' = [handler EXCEPT ![s] =
                    [handler[s] EXCEPT !.fresh = {}, !.added = @ \cup {x.id}]]
      BY <1>6 DEF SaveInsert
    <2>2. x.id \in Tasks /\ x.status \in Statuses /\ handler[s].host \in Hosts
      BY <1>2 DEF HandlerStates, Reports
    <2>3. handler'[s] = [handler[s] EXCEPT !.fresh = {}, !.added = handler[s].added \cup {x.id}]
      BY <1>1, <2>1
    <2>4. handler'[s].host = handler[s].host /\ handler'[s].added = handler[s].added \cup {x.id}
      BY <1>2, <2>3 DEF HandlerStates
    <2>5. CASE t \in handler[s].added
      BY <1>3, <2>4, <2>5
    <2>6. CASE t = x.id
      <3>0. Targeted(handler[s].host, t) /\ Earned(x.status, seen[handler[s].host][t])
        BY <2>6 DEF ReportsEarned
      <3>1. /\ t \in posted' /\ handler[s].host \in HostsOf[t]
            /\ Earned(x.status, seen'[handler[s].host][t])
        BY <2>2, <2>6, <3>0, PostedFlow, EarnedStays DEF Targeted
      <3>2. rows'[t][handler[s].host] # <<>> \/ "insertErr" \in Faults
        <4>1. rows \in [Tasks -> [Hosts -> Seq(Statuses)]]
          BY DEF TypeInv, TypeOK, ServerTypeOK
        <4>2. Append(rows[t][handler[s].host], x.status) # <<>>
          <5>1. rows[t][handler[s].host] \in Seq(Statuses)
            BY <2>2, <2>6, <4>1
          <5> QED
            BY <2>2, <5>1
        <4>3. CASE rows' = [rows EXCEPT ![x.id][handler[s].host] = Append(@, x.status)]
          <5>1. rows'[t][handler[s].host] = Append(rows[t][handler[s].host], x.status)
            BY <2>2, <2>6, <4>1, <4>3
          <5> QED
            BY <4>2, <5>1
        <4> QED
          BY <2>1, <4>3
      <3>3. seen'[handler[s].host][t] # {} \/ OtherPossible
        BY <3>1, EarnedHappened
      <3> QED
        BY <2>4, <3>1, <3>2, <3>3
    <2> QED
      BY <2>4, <2>5, <2>6
  <1>7. handler'[s] # FreeHandler
    BY DEF FreeHandler
  <1>8. \A h : handler'[s] # [busy |-> TRUE, host |-> h, todo |-> ReportTasks(h),
                              fresh |-> {}, added |-> {}]
    OBVIOUS
  <1>9. CASE handler'[s] = handler[s]
    BY <1>3, <1>9
  <1> QED
    BY <1>4, <1>5, <1>6, <1>7, <1>8, <1>9, HandlerFlow

LEMMA ResultEarnedStep ==
    ASSUME TypeInv, ReportsEarned, ResultEarned, [Next]_vars
    PROVE  ResultEarned'
  <1> SUFFICES ASSUME NEW t \in Tasks, NEW h \in Hosts, NEW i \in DOMAIN rows'[t][h]
               PROVE  Earned(rows'[t][h][i], seen'[h][t])
    BY DEF ResultEarned
  <1>1. \A j \in DOMAIN rows[t][h] : Earned(rows[t][h][j], seen'[h][t])
    BY EarnedStays DEF ResultEarned
  <1>2. CASE rows'[t][h] = rows[t][h]
    BY <1>1, <1>2
  <1>3. ASSUME NEW s \in Handlers, NEW x \in handler[s].fresh, handler[s].host = h, x.id = t,
               rows'[t][h] = Append(rows[t][h], x.status)
        PROVE  Earned(rows'[t][h][i], seen'[h][t])
    <2>1. rows[t][h] \in Seq(Statuses) /\ x.status \in Statuses
      BY DEF TypeInv, TypeOK, ServerTypeOK, HandlerStates, Reports
    <2>2. Earned(x.status, seen'[h][t])
      BY <1>3, EarnedStays DEF ReportsEarned
    <2>3. \/ i \in DOMAIN rows[t][h] /\ rows'[t][h][i] = rows[t][h][i]
          \/ rows'[t][h][i] = x.status
      BY <1>3, <2>1
    <2> QED
      BY <1>1, <2>2, <2>3
  <1> QED
    BY <1>2, <1>3, RowsFlow

LEMMA ClosedAfterEndStep ==
    ASSUME TypeInv, AddedClosable, ClosedAfterEnd, [Next]_vars
    PROVE  ClosedAfterEnd'
  <1> SUFFICES ASSUME NEW t \in done'
               PROVE  \E h \in HostsOf[t] : /\ seen'[h][t] # {} \/ OtherPossible
                                            /\ rows'[t][h] # <<>> \/ "insertErr" \in Faults
    BY DEF ClosedAfterEnd, OtherPossible
  <1>1. ASSUME NEW h \in Hosts, t \in Tasks, Closable(h, t)
        PROVE  /\ h \in HostsOf[t]
               /\ seen'[h][t] # {} \/ OtherPossible
               /\ rows'[t][h] # <<>> \/ "insertErr" \in Faults
    BY <1>1, ClosableStays DEF Closable, Targeted, OtherPossible
  <1>2. CASE t \in done
    <2>1. t \in posted /\ t \in Tasks
      BY <1>2 DEF TypeInv, TypeOK, ServerTypeOK
    <2>2. PICK h \in HostsOf[t] : /\ seen[h][t] # {} \/ OtherPossible
                                  /\ rows[t][h] # <<>> \/ "insertErr" \in Faults
      BY <1>2 DEF ClosedAfterEnd
    <2>3. h \in Hosts
      BY <2>1, HostsOfAssumption
    <2> QED
      BY <1>1, <2>1, <2>2, <2>3 DEF Closable, Targeted
  <1>3. ASSUME NEW s \in Handlers, t \in handler[s].added
        PROVE  \E h \in HostsOf[t] : /\ seen'[h][t] # {} \/ OtherPossible
                                     /\ rows'[t][h] # <<>> \/ "insertErr" \in Faults
    <2>1. handler[s].host \in Hosts /\ t \in Tasks
      BY <1>3 DEF TypeInv, TypeOK, ServerTypeOK, HandlerStates
    <2>2. Closable(handler[s].host, t)
      BY <1>3 DEF AddedClosable
    <2> QED
      <3> DEFINE h == handler[s].host
      <3>1. /\ h \in HostsOf[t]
            /\ seen'[h][t] # {} \/ OtherPossible
            /\ rows'[t][h] # <<>> \/ "insertErr" \in Faults
        BY <1>1, <2>1, <2>2
      <3> QED
        BY <3>1
  <1> QED
    BY <1>2, <1>3, DoneFlow

-----------------------------------------------------------------------------
(* Together.                                                               *)

LEMMA InitInv == Init => TypeInv /\ EarnedInv
  <1> SUFFICES ASSUME Init PROVE TypeInv /\ EarnedInv
    OBVIOUS
  <1>1. TypeInv
    BY InitType
  <1>2. LoadsFlag /\ WaitsInCall
    BY <1>1 DEF TypeInv, WaitsInCall, Init
  <1>3. HandedOut
    BY DEF Init, ServerInit, AgentInit, HandedOut, NoTasks, NoSync, Idle
  <1>4. UnknownActions
    BY StartValues DEF Init, ServerInit, AgentInit, UnknownActions, NoTasks, NoSync, Idle
  <1>5. KnownTargeted
    BY StartValues DEF Init, AgentInit, KnownTargeted, Idle
  <1>6. StatusBacked /\ RoutineBacked
    BY StartValues DEF Init, AgentInit, StatusBacked, RoutineBacked, Backed, NoFile
  <1>7. BlankExplained
    BY StartValues DEF Init, AgentInit, BlankExplained, NoFile
  <1>8. ReportsEarned /\ AddedClosable
    BY DEF Init, ServerInit, ReportsEarned, AddedClosable, FreeHandler
  <1>9. ResultEarned /\ ClosedAfterEnd
    <2>1. \A t \in Tasks, h \in Hosts : rows[t][h] = <<>>
      BY DEF Init, ServerInit
    <2>2. DOMAIN <<>> = {}
      OBVIOUS
    <2> QED
      BY <2>1, <2>2 DEF Init, ServerInit, ResultEarned, ClosedAfterEnd
  <1> QED
    BY <1>1, <1>2, <1>3, <1>4, <1>5, <1>6, <1>7, <1>8, <1>9 DEF EarnedInv

LEMMA StepInv == TypeInv /\ EarnedInv /\ [Next]_vars => TypeInv' /\ EarnedInv'
  <1> SUFFICES ASSUME TypeInv, EarnedInv, [Next]_vars PROVE TypeInv' /\ EarnedInv'
    OBVIOUS
  <1>1. TypeInv'
    BY StepType
  <1>2. LoadsFlag' /\ WaitsInCall'
    BY <1>1, WaitsInCallStep DEF TypeInv, EarnedInv
  <1>3. HandedOut' /\ UnknownActions' /\ KnownTargeted'
    BY <1>1, HandedOutStep, UnknownActionsStep, KnownTargetedStep DEF EarnedInv
  <1>4. StatusBacked' /\ RoutineBacked' /\ BlankExplained'
    BY StatusBackedStep, RoutineBackedStep, BlankExplainedStep DEF EarnedInv
  <1>5. ReportsEarned' /\ AddedClosable'
    BY <1>1, ReportsEarnedStep, AddedClosableStep DEF EarnedInv
  <1>6. ResultEarned' /\ ClosedAfterEnd'
    BY ResultEarnedStep, ClosedAfterEndStep DEF EarnedInv
  <1> QED
    BY <1>1, <1>2, <1>3, <1>4, <1>5, <1>6 DEF EarnedInv

(* EarnedInv follows a status from the event that earns it to the row that      *)
(* records it, through every cache, file, goroutine and handler on the way.   *)
THEOREM EarnedInvariantHolds == Spec => []EarnedInv
  <1>1. TypeInv /\ EarnedInv => EarnedInv
    OBVIOUS
  <1> QED
    BY <1>1, InitInv, StepInv, PTL DEF Spec

(* No row of task_result, written by TaskResult.Save for any host, claims     *)
(* what has not happened there, whatever fails, races or is delayed.          *)
THEOREM ResultsAreEarned == Spec => []ResultEarned
  <1>1. EarnedInv => ResultEarned
    BY DEF EarnedInv
  <1> QED
    BY <1>1, EarnedInvariantHolds, PTL

(* DoTaskMetaMark closes a task only after it has got somewhere on one of its *)
(* hosts, with a result on record unless an INSERT may fail unnoticed.        *)
THEOREM ClosedTasksEnded == Spec => []ClosedAfterEnd
  <1>1. EarnedInv => ClosedAfterEnd
    BY DEF EarnedInv
  <1> QED
    BY <1>1, EarnedInvariantHolds, PTL
=============================================================================
