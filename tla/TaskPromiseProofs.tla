------------------------- MODULE TaskPromiseProofs -------------------------
(***************************************************************************)
(* What remote tasks promise to the outside, for every number of tasks,    *)
(* hosts, handlers and goroutines:                                         *)
(*   - TaskSystem implements TaskPromise: seen through the tables and the  *)
(*     events of the hosts, every step of the server, an agent or a call   *)
(*     is a step of the promise or none at all;                            *)
(*   - a script is started once;                                           *)
(*   - a task has one row for a host, which says what the done flag says.  *)
(***************************************************************************)
EXTENDS TaskSafetyProofs

\* What the promise shows of the system.
ResultOf == [t \in Tasks |-> [h \in Hosts |->
                IF rows[t][h] = <<>> THEN NoResult ELSE rows[t][h][1]]]
EventsOf == [t \in Tasks |-> [h \in Hosts |-> seen[h][t]]]

LEMMA PromiseStarts == Init => Promise!Init
  <1> SUFFICES ASSUME Init PROVE Promise!Init
    OBVIOUS
  <1>1. posted = {} /\ done = {}
    BY DEF Init, ServerInit
  <1>2. ResultOf = [t \in Tasks |-> [h \in Hosts |-> NoResult]]
    BY DEF Init, ServerInit, ResultOf
  <1>3. EventsOf = [t \in Tasks |-> [h \in Hosts |-> {}]]
    BY DEF Init, AgentInit, EventsOf
  <1> QED
    BY <1>1, <1>2, <1>3 DEF Promise!Init, ResultOf, EventsOf

LEMMA PromiseStutters ==
    ASSUME UNCHANGED <<posted, done, rows, seen>>
    PROVE  UNCHANGED Promise!vars
  BY DEF Promise!vars

\* Something happens to a task on one of its hosts.
LEMMA PromiseHappens ==
    ASSUME TypeInv, NEW h \in Hosts, NEW t \in Tasks, NEW e \in Events, Targeted(h, t),
           UNCHANGED <<posted, done, rows>>, seen' = [seen EXCEPT ![h][t] = @ \cup {e}]
    PROVE  Promise!Next
  <1>1. seen \in [Hosts -> [Tasks -> SUBSET Events]]
    BY DEF TypeInv, TypeOK, AgentTypeOK
  <1>2. EventsOf' = [EventsOf EXCEPT ![t][h] = @ \cup {e}]
    BY <1>1 DEF EventsOf
  <1>3. Promise!Happen(t, h, e)
    BY <1>2 DEF Promise!Happen, Targeted, EventsOf
  <1> QED
    BY <1>3 DEF Promise!Next

\* Appending keeps the first element, or is the first one.
LEMMA FirstAppended ==
    ASSUME NEW S, NEW q \in Seq(S), NEW e \in S
    PROVE  Append(q, e) # <<>> /\ Append(q, e)[1] = IF q = <<>> THEN e ELSE q[1]
  <1>1. Len(Append(q, e)) = Len(q) + 1 /\ Len(q) \in Nat /\ Len(<<>>) = 0
    OBVIOUS
  <1>2. Append(q, e) # <<>>
    BY <1>1
  <1>3. CASE q = <<>>
    BY <1>1, <1>2, <1>3
  <1>4. CASE q # <<>>
    <2>1. 1 \in 1..Len(q)
      BY <1>1, <1>4
    <2> QED
      BY <1>2, <1>4, <2>1
  <1> QED
    BY <1>2, <1>3, <1>4

\* A handler inserts a row: the first one is the result, a later one does not show.
LEMMA PromiseRecords ==
    ASSUME TypeInv, ReportsEarned, NEW s \in Handlers, SaveInsert(s), UNCHANGED seen
    PROVE  [Promise!Next]_Promise!vars
  <1>1. UNCHANGED <<posted, done>>
    BY DEF SaveInsert
  <1>2. PICK x \in handler[s].fresh :
            \/ rows' = [rows EXCEPT ![x.id][handler[s].host] = Append(@, x.status)]
            \/ UNCHANGED rows
    BY DEF SaveInsert
  <1>3. handler[s].host \in Hosts /\ x.id \in Tasks /\ x.status \in Statuses
    BY DEF TypeInv, TypeOK, ServerTypeOK, HandlerStates, Reports
  <1>4. PICK h \in Hosts, t \in Tasks, st \in Statuses :
            h = handler[s].host /\ t = x.id /\ st = x.status
    BY <1>3
  <1>5. Targeted(h, t) /\ Earned(st, seen[h][t])
    BY <1>4 DEF ReportsEarned
  <1>6. rows \in [Tasks -> [Hosts -> Seq(Statuses)]]
    BY DEF TypeInv, TypeOK, ServerTypeOK
  <1>7. CASE UNCHANGED rows
    BY <1>1, <1>7, PromiseStutters
  <1>8. CASE rows' = [rows EXCEPT ![t][h] = Append(@, st)]
    <2>1. /\ Append(rows[t][h], st) # <<>>
          /\ Append(rows[t][h], st)[1] = IF rows[t][h] = <<>> THEN st ELSE rows[t][h][1]
      BY <1>6, FirstAppended
    <2>2. ResultOf' = [ResultOf EXCEPT ![t][h] = Append(rows[t][h], st)[1]]
      BY <1>6, <1>8, <2>1 DEF ResultOf
    <2>3. CASE rows[t][h] = <<>>
      <3>1. ResultOf[t][h] = NoResult /\ ResultOf' = [ResultOf EXCEPT ![t][h] = st]
        BY <2>1, <2>2, <2>3 DEF ResultOf
      <3>2. EventsOf[t][h] = seen[h][t] /\ UNCHANGED EventsOf
        BY DEF EventsOf
      <3>3. Promise!Record(t, h, st)
        BY <1>1, <1>5, <3>1, <3>2 DEF Promise!Record, Targeted, ResultOf, EventsOf
      <3> QED
        BY <3>3 DEF Promise!Next
    <2>4. CASE rows[t][h] # <<>>
      <3>1. ResultOf[t][h] = Append(rows[t][h], st)[1]
        BY <2>1, <2>4 DEF ResultOf
      <3>2. ResultOf \in [Tasks -> [Hosts -> Statuses \cup {NoResult}]]
        <4>1. \A u \in Tasks, i \in Hosts : rows[u][i] # <<>> => rows[u][i][1] \in Statuses
          BY <1>6
        <4> QED
          BY <4>1 DEF ResultOf
      <3>3. ASSUME NEW f \in [Tasks -> [Hosts -> Statuses \cup {NoResult}]], NEW v, f[t][h] = v
            PROVE  [f EXCEPT ![t][h] = v] = f
        <4>1. [f[t] EXCEPT ![h] = v] = f[t]
          BY <3>3
        <4>2. [f EXCEPT ![t] = f[t]] = f
          OBVIOUS
        <4> QED
          BY <4>1, <4>2
      <3>4. UNCHANGED ResultOf
        BY <2>2, <3>1, <3>2, <3>3
      <3> QED
        BY <1>1, <3>4 DEF Promise!vars, ResultOf
    <2> QED
      BY <2>3, <2>4
  <1> QED
    BY <1>2, <1>4, <1>7, <1>8

\* A handler marks a task done: it is closed, or has been before.
LEMMA PromiseCloses ==
    ASSUME TypeInv, AddedClosable, NEW s \in Handlers, DoTaskMetaMark(s), UNCHANGED seen
    PROVE  [Promise!Next]_Promise!vars
  <1>1. UNCHANGED <<posted, rows>>
    BY DEF DoTaskMetaMark
  <1>2. PICK t \in handler[s].added : done' = done \cup ({t} \cap posted)
    BY DEF DoTaskMetaMark
  <1> DEFINE h == handler[s].host
  <1>3. h \in Hosts /\ t \in Tasks
    BY DEF TypeInv, TypeOK, ServerTypeOK, HandlerStates
  <1>4. Closable(h, t)
    BY DEF AddedClosable
  <1>5. t \in posted /\ h \in HostsOf[t]
    BY <1>4 DEF Closable, Targeted
  <1>6. CASE t \in done
    <2>1. UNCHANGED done
      BY <1>2, <1>6
    <2> QED
      BY <1>1, <2>1, PromiseStutters
  <1>7. CASE t \notin done
    <2>1. ResultOf[t][h] # NoResult \/ "insertErr" \in Faults
      <3>1. CASE rows[t][h] # <<>>
        <4>1. rows[t][h] \in Seq(Statuses)
          BY <1>3 DEF TypeInv, TypeOK, ServerTypeOK
        <4>2. rows[t][h][1] \in Statuses
          BY <3>1, <4>1
        <4>3. NoResult \notin Statuses
          BY DEF NoResult, Statuses
        <4> QED
          BY <1>3, <3>1, <4>2, <4>3 DEF ResultOf
      <3> QED
        BY <1>4, <3>1 DEF Closable
    <2>2. Settles(ResultOf[t][h], EventsOf[t][h])
      BY <1>3, <1>4, <2>1 DEF Settles, Closable, EventsOf
    <2>3. done' = done \cup {t}
      BY <1>2, <1>5
    <2>4. Promise!Close(t)
      BY <1>1, <1>5, <1>7, <2>2, <2>3 DEF Promise!Close, ResultOf, EventsOf
    <2> QED
      BY <1>3, <2>4 DEF Promise!Next
  <1> QED
    BY <1>6, <1>7

LEMMA PromiseServer ==
    ASSUME TypeInv, EarnedInv, ServerStep, UNCHANGED seen
    PROVE  [Promise!Next]_Promise!vars
  <1>1. ASSUME NEW t \in Tasks, NEW a \in NewActions, TaskAdd(t, a)
        PROVE  [Promise!Next]_Promise!vars
    <2>1. Promise!Post(t)
      BY <1>1 DEF TaskAdd, Promise!Post
    <2> QED
      BY <2>1 DEF Promise!Next
  <1>2. ASSUME NEW t \in Tasks, NEW a \in Changes, SetAction(t, a)
        PROVE  UNCHANGED <<posted, done, rows>>
    BY <1>2 DEF SetAction
  <1>3. ASSUME SyncRead \/ SyncSwap
        PROVE  UNCHANGED <<posted, done, rows>>
    BY <1>3 DEF SyncRead, SyncSwap
  <1>4. ASSUME NEW s \in Handlers, SaveGet(s)
        PROVE  UNCHANGED <<posted, done, rows>>
    BY <1>4 DEF SaveGet
  <1>5. ASSUME NEW s \in Handlers, SaveInsert(s)
        PROVE  [Promise!Next]_Promise!vars
    BY <1>5, PromiseRecords DEF EarnedInv
  <1>6. ASSUME NEW s \in Handlers, DoTaskMetaMark(s)
        PROVE  [Promise!Next]_Promise!vars
    BY <1>6, PromiseCloses DEF EarnedInv
  <1> QED
    BY <1>1, <1>2, <1>3, <1>4, <1>5, <1>6, PromiseStutters DEF ServerStep

\* In one step of an agent nothing happens to its tasks, or one thing to one of them.
LEMMA EventFlow ==
    ASSUME TypeInv, KnownTargeted, NEW h \in Hosts, AgentStep(h)
    PROVE  \/ UNCHANGED seen
           \/ \E t \in Tasks, e \in Events :
                Targeted(h, t) /\ seen' = [seen EXCEPT ![h][t] = @ \cup {e}]
  <1>1. seen \in [Hosts -> [Tasks -> SUBSET Events]]
    BY DEF TypeInv, TypeOK, AgentTypeOK
  <1>2. loop[h].task \in Tasks /\ \A g \in Routines : routine[h][g].task \in Tasks
    BY DEF TypeInv, TypeOK, AgentTypeOK, LoopStates, RoutineStates
  <1>3. loop[h].pc = "start" => Targeted(h, loop[h].task)
    BY <1>2 DEF KnownTargeted
  <1>4. \A g \in Routines : routine[h][g].pc # "none" \/ routine[h][g].proc = "running"
                                => Targeted(h, routine[h][g].task)
    BY <1>2 DEF KnownTargeted
  <1>5. ASSUME NEW t \in Tasks, seen' = [seen EXCEPT ![h][t] = @ \cup {}]
        PROVE  UNCHANGED seen
    BY <1>1, <1>5
  <1>6. ASSUME NEW new, ReplaceCmd(h, new), loop[h].pc = "start"
        PROVE  \/ UNCHANGED seen
               \/ \E t \in Tasks, e \in Events :
                    Targeted(h, t) /\ seen' = [seen EXCEPT ![h][t] = @ \cup {e}]
    <2>1. PICK lost \in SUBSET Routines : ReplacedBy(h, new, lost)
      BY <1>6, Replaces
    <2>2. CASE lost = {}
      BY <1>2, <1>5, <2>1, <2>2 DEF ReplacedBy
    <2>3. CASE lost # {}
      BY <1>2, <1>3, <1>6, <2>1, <2>3 DEF ReplacedBy, Events
    <2> QED
      BY <2>2, <2>3
  <1>7. CASE AssignStep(h)
    <2>1. StartFails(h) \/ Start(h) \/ UNCHANGED seen
      BY <1>7 DEF AssignStep, AssignTask, LoadResult, Kill, SetRunning, UnknownAction, NotStarted,
         AssignedAll
    <2> QED
      BY <1>6, <2>1 DEF StartFails, Start
  <1>8. ASSUME NEW g \in Routines, RoutineStep(h, g)
        PROVE  \/ UNCHANGED seen
               \/ \E t \in Tasks, e \in Events :
                    Targeted(h, t) /\ seen' = [seen EXCEPT ![h][t] = @ \cup {e}]
    <2>1. KillBegin(h, g) \/ KillProcess(h, g) \/ UNCHANGED seen
      BY <1>8 DEF RoutineStep, RunBegin, RunWaited, KillStatus, PersistRead, PersistCreate,
         PersistWrite, PersistFails, RoutineEnd
    <2>2. CASE KillBegin(h, g)
      BY <1>2, <1>4, <2>2 DEF KillBegin, Goto, Saw, Events
    <2>3. CASE KillProcess(h, g)
      <3>1. PICK hit : seen' = [seen EXCEPT ![h][routine[h][g].task] =
                            @ \cup (IF hit = {} THEN {} ELSE {"exitErr"})]
        BY <2>3 DEF KillProcess
      <3>2. routine[h][g].pc = "signal"
        BY <2>3 DEF KillProcess
      <3>3. CASE hit = {}
        BY <1>2, <1>5, <3>1, <3>3
      <3>4. CASE hit # {}
        BY <1>2, <1>4, <3>1, <3>2, <3>4 DEF Events
      <3> QED
        BY <3>3, <3>4
    <2> QED
      BY <2>1, <2>2, <2>3
  <1>9. ASSUME NEW g \in Routines, ScriptEnds(h, g)
        PROVE  \E t \in Tasks, e \in Events :
                    Targeted(h, t) /\ seen' = [seen EXCEPT ![h][t] = @ \cup {e}]
    BY <1>2, <1>4, <1>9 DEF ScriptEnds, Saw, Events
  <1>10. ASSUME NEW t \in Tasks, OrphanEnds(h, t) PROVE UNCHANGED seen
    BY <1>10 DEF OrphanEnds
  <1> QED
    BY <1>7, <1>8, <1>9, <1>10 DEF AgentStep

LEMMA PromiseStep ==
    ASSUME TypeInv, EarnedInv, [Next]_vars
    PROVE  [Promise!Next]_Promise!vars
  <1>1. CASE ServerStep /\ UNCHANGED <<agentVars, conn>>
    BY <1>1, PromiseServer DEF agentVars
  <1>2. ASSUME NEW h \in Hosts, AgentStep(h), UNCHANGED <<serverVars, conn>>
        PROVE  [Promise!Next]_Promise!vars
    <2>1. UNCHANGED <<posted, done, rows>>
      BY <1>2 DEF serverVars
    <2>2. CASE UNCHANGED seen
      BY <2>1, <2>2, PromiseStutters
    <2>3. ASSUME NEW t \in Tasks, NEW e \in Events, Targeted(h, t),
                 seen' = [seen EXCEPT ![h][t] = @ \cup {e}]
          PROVE  Promise!Next
      BY <2>1, <2>3, PromiseHappens
    <2> QED
      BY <1>2, <2>2, <2>3, EventFlow DEF EarnedInv
  <1>3. ASSUME NEW h \in Hosts, NEW s \in Handlers, Call(h, s)
        PROVE  UNCHANGED <<posted, done, rows, seen>>
    BY <1>3 DEF Call, Receive
  <1>4. ASSUME NEW s \in Handlers, Replied(s) \/ Failed(s)
        PROVE  UNCHANGED <<posted, done, rows, seen>>
    BY <1>4 DEF Replied, Reply, Failed, HandlerErr, CallErrors
  <1>5. ASSUME NEW h \in Hosts, TimedOut(h) \/ AgentCrash(h)
        PROVE  UNCHANGED <<posted, done, rows, seen>>
    BY <1>5 DEF TimedOut, CallErrors, AgentCrash, Restarted, serverVars
  <1>6. CASE ServerCrash
    BY <1>6, PromiseStutters DEF ServerCrash, ServerRestart, CallErrors
  <1>7. CASE UNCHANGED vars
    BY <1>7, PromiseStutters DEF vars, serverVars, agentVars
  <1> QED
    BY <1>1, <1>2, <1>3, <1>4, <1>5, <1>6, <1>7, PromiseStutters DEF Next

(* The whole feature - server, agents, calls, with every fault and race it    *)
(* meets - keeps the promise of TaskPromise: a task is posted once; the first *)
(* result of a host stands and is backed by what happened there; a task is    *)
(* closed once, after it got somewhere on one of its hosts.                   *)
THEOREM PromiseKept == Spec => KeepsPromise
  <1>1. Init => Promise!Init
    BY PromiseStarts
  <1>2. TypeInv /\ EarnedInv /\ [Next]_vars => [Promise!Next]_Promise!vars
    BY PromiseStep
  <1> QED
    BY <1>1, <1>2, InitInv, StepInv, PTL DEF Spec, KeepsPromise, Promise!Spec

-----------------------------------------------------------------------------
(* One host in one step.                                                   *)

\* Nothing of host h moves but its call.
HostStays(h) ==
    /\ local'[h] = local[h] /\ disk'[h] = disk[h] /\ routine'[h] = routine[h]
    /\ ran'[h] = ran[h]
    /\ loop'[h] = loop[h] \/ loop'[h].pc \in {"idle", "call", "assign"}

\* A step of another host leaves h alone.
LEMMA OtherHost ==
    ASSUME TypeInv, NEW h \in Hosts, NEW i \in Hosts, i # h, AgentStep(i) \/ Restarted(i)
    PROVE  HostStays(h)
  <1>1. /\ local \in [Hosts -> [Tasks -> LocalTasks]] /\ disk \in [Hosts -> [Tasks -> DiskContents]]
        /\ routine \in [Hosts -> [Routines -> RoutineStates]]
        /\ ran \in [Hosts -> SUBSET Tasks] /\ loop \in [Hosts -> LoopStates]
    BY DEF TypeInv, TypeOK, AgentTypeOK
  <1>2. CASE Restarted(i)
    BY <1>1, <1>2 DEF Restarted, HostStays
  <1>3. CASE AssignStep(i)
    <2>1. ASSUME NEW new, ReplaceCmd(i, new) PROVE routine'[h] = routine[h]
      BY <1>1, <2>1 DEF ReplaceCmd
    <2>2. CASE StartFails(i) \/ Start(i)
      BY <1>1, <2>1, <2>2 DEF StartFails, Start, NextAssign, HostStays
    <2>3. CASE AssignTask(i)
      BY <1>1, <2>3 DEF AssignTask, HostStays
    <2>4. CASE LoadResult(i)
      BY <1>1, <2>4 DEF LoadResult, NextAssign, HostStays
    <2>5. CASE Kill(i)
      BY <1>1, <2>5 DEF Kill, NextAssign, HostStays
    <2>6. CASE SetRunning(i)
      BY <1>1, <2>6 DEF SetRunning, HostStays
    <2>7. CASE UnknownAction(i) \/ NotStarted(i) \/ AssignedAll(i)
      BY <1>1, <2>7 DEF UnknownAction, NotStarted, AssignedAll, NextAssign, HostStays
    <2> QED
      BY <1>3, <2>2, <2>3, <2>4, <2>5, <2>6, <2>7 DEF AssignStep
  <1>4. ASSUME NEW g \in Routines, RoutineStep(i, g) PROVE HostStays(h)
    <2>1. CASE RunBegin(i, g) \/ RunWaited(i, g)
      BY <1>1, <2>1 DEF RunBegin, RunWaited, Goto, SetAlive, SetStatus, HostStays
    <2>2. CASE KillBegin(i, g) \/ KillStatus(i, g)
      BY <1>1, <2>2 DEF KillBegin, KillStatus, Goto, SetAlive, SetStatus, HostStays
    <2>3. CASE KillProcess(i, g)
      BY <1>1, <2>3 DEF KillProcess, HostStays
    <2>4. CASE PersistRead(i, g) \/ PersistCreate(i, g) \/ PersistFails(i, g)
      BY <1>1, <2>4 DEF PersistRead, PersistCreate, PersistFails, Goto, HostStays
    <2>5. CASE PersistWrite(i, g)
      BY <1>1, <2>5 DEF PersistWrite, HostStays
    <2>6. CASE RoutineEnd(i, g)
      BY <1>1, <2>6 DEF RoutineEnd, SetAlive, HostStays
    <2> QED
      BY <1>4, <2>1, <2>2, <2>3, <2>4, <2>5, <2>6 DEF RoutineStep
  <1>5. ASSUME NEW g \in Routines, ScriptEnds(i, g) PROVE HostStays(h)
    BY <1>1, <1>5 DEF ScriptEnds, HostStays
  <1>6. ASSUME NEW t \in Tasks, OrphanEnds(i, t) PROVE HostStays(h)
    BY <1>1, <1>6 DEF OrphanEnds, HostStays
  <1> QED
    BY <1>2, <1>3, <1>4, <1>5, <1>6 DEF AgentStep

LEMMA HostFlow ==
    ASSUME TypeInv, [Next]_vars, NEW h \in Hosts
    PROVE  \/ HostStays(h)
           \/ AgentStep(h) /\ UNCHANGED <<serverVars, conn>>
           \/ AgentCrash(h)
  <1>1. loop \in [Hosts -> LoopStates]
    BY DEF TypeInv, TypeOK, AgentTypeOK
  <1>2. CASE ServerStep /\ UNCHANGED <<agentVars, conn>>
    BY <1>2 DEF agentVars, HostStays
  <1>3. ASSUME NEW i \in Hosts, AgentStep(i), UNCHANGED <<serverVars, conn>>
        PROVE  HostStays(h) \/ (AgentStep(h) /\ UNCHANGED <<serverVars, conn>>)
    BY <1>3, OtherHost
  <1>4. ASSUME NEW i \in Hosts, NEW s \in Handlers, Call(i, s) PROVE HostStays(h)
    BY <1>1, <1>4 DEF Call, HostStays, LoopStates
  <1>5. ASSUME NEW s \in Handlers, Replied(s) PROVE HostStays(h)
    <2>1. handler[s].host \in Hosts
      BY DEF TypeInv, TypeOK, ServerTypeOK, HandlerStates
    <2> QED
      BY <1>1, <1>5, <2>1 DEF Replied, HostStays, LoopStates
  <1>6. ASSUME NEW hs, CallErrors(hs) PROVE HostStays(h)
    BY <1>6 DEF CallErrors, HostStays, Idle
  <1>7. ASSUME NEW i \in Hosts, AgentCrash(i) PROVE HostStays(h) \/ AgentCrash(h)
    BY <1>7, OtherHost DEF AgentCrash
  <1>8. CASE UNCHANGED vars
    BY <1>8 DEF vars, agentVars, HostStays
  <1> QED
    BY <1>2, <1>3, <1>4, <1>5, <1>6, <1>7, <1>8 DEF Next, Failed, TimedOut, ServerCrash

(* A step of goroutine g of host h: it works on a task, and does nothing to   *)
(* other tasks; what it does to other goroutines is to end their scripts.     *)
OwnTaskOnly(h, g) ==
    LET u == routine[h][g].task IN
    /\ routine[h][g].pc # "none"
    /\ loop'[h] = loop[h] /\ ran'[h] = ran[h]
    /\ \A t \in Tasks : /\ local'[h][t].known = local[h][t].known
                        /\ local'[h][t].action = local[h][t].action
    /\ \A t \in Tasks \ {u} : disk'[h][t] = disk[h][t] /\ local'[h][t].status = local[h][t].status
    /\ \A k \in Routines :
        /\ routine'[h][k].pc # "none" => /\ routine[h][k].pc # "none"
                                         /\ routine'[h][k].task = routine[h][k].task
        /\ k # g => /\ routine'[h][k].pc = routine[h][k].pc
                    /\ routine'[h][k].status = routine[h][k].status

LEMMA RoutineLocal ==
    ASSUME TypeInv, KnownTargeted, NEW h \in Hosts, NEW g \in Routines,
           RoutineStep(h, g) \/ ScriptEnds(h, g)
    PROVE  OwnTaskOnly(h, g)
  <1>1. /\ local \in [Hosts -> [Tasks -> LocalTasks]] /\ disk \in [Hosts -> [Tasks -> DiskContents]]
        /\ routine \in [Hosts -> [Routines -> RoutineStates]]
    BY DEF TypeInv, TypeOK, AgentTypeOK
  <1>2. routine[h][g].task \in Tasks /\ routine[h][g] \in RoutineStates
    BY <1>1 DEF RoutineStates
  <1>3. routine[h][g].proc = "running" => routine[h][g].pc # "none"
    BY DEF KnownTargeted
  <1>4. CASE RunBegin(h, g)
    BY <1>1, <1>2, <1>4 DEF RunBegin, Goto, SetAlive, OwnTaskOnly, LocalTasks, RoutineStates
  <1>5. CASE RunWaited(h, g)
    BY <1>1, <1>2, <1>5 DEF RunWaited, SetStatus, OwnTaskOnly, LocalTasks, RoutineStates
  <1>6. CASE KillBegin(h, g)
    BY <1>1, <1>2, <1>6 DEF KillBegin, Goto, SetAlive, OwnTaskOnly, LocalTasks, RoutineStates
  <1>7. CASE KillStatus(h, g)
    <2>1. PICK st \in {"killed", "killfailed"} : SetStatus(h, g, st) /\ routine[h][g].pc # "none"
                /\ routine' = [routine EXCEPT ![h][g].pc = "read"]
      BY <1>7 DEF KillStatus, Goto
    <2> QED
      BY <1>1, <1>2, <1>7, <2>1 DEF KillStatus, SetStatus, OwnTaskOnly, LocalTasks, RoutineStates
  <1>8. CASE KillProcess(h, g)
    <2>1. PICK hit \in SUBSET Routines, pc \in {"signalled", "unkilled"} :
            /\ routine' = [routine EXCEPT ![h] = [r \in Routines |->
                    IF r = g THEN [routine[h][r] EXCEPT !.pc = pc]
                    ELSE IF r \in hit THEN [routine[h][r] EXCEPT !.proc = "exitErr"]
                    ELSE routine[h][r]]]
            /\ seen' = [seen EXCEPT ![h][routine[h][g].task] =
                    @ \cup (IF hit = {} THEN {} ELSE {"exitErr"})]
      BY <1>8 DEF KillProcess
    <2>2. \A k \in Routines :
            /\ routine'[h][k].task = routine[h][k].task
            /\ k # g => routine'[h][k].pc = routine[h][k].pc
            /\ routine'[h][k].status = routine[h][k].status
      BY <1>1, <2>1 DEF RoutineStates
    <2>3. routine[h][g].pc = "signal" /\ UNCHANGED <<local, disk, loop, ran>>
      BY <1>8 DEF KillProcess
    <2> QED
      BY <2>2, <2>3 DEF OwnTaskOnly
  <1>9. ASSUME NEW n, n.task = routine[h][g].task, routine' = [routine EXCEPT ![h][g] = n],
               routine[h][g].pc # "none", UNCHANGED <<local, loop, ran>>,
               \A t \in Tasks \ {routine[h][g].task} : disk'[h][t] = disk[h][t]
        PROVE  OwnTaskOnly(h, g)
    <2>1. routine'[h][g] = n /\ \A k \in Routines \ {g} : routine'[h][k] = routine[h][k]
      BY <1>1, <1>9
    <2> QED
      BY <1>9, <2>1 DEF OwnTaskOnly
  <1>10. CASE PersistRead(h, g)
    <2> DEFINE n == [routine[h][g] EXCEPT !.pc = "write", !.status = local[h][routine[h][g].task].status]
    <2>1. n.task = routine[h][g].task
      BY <1>2 DEF RoutineStates
    <2> QED
      BY <1>9, <1>10, <2>1 DEF PersistRead
  <1>11. CASE PersistFails(h, g) \/ PersistWrite(h, g)
    <2> DEFINE n == [routine[h][g] EXCEPT !.pc = "end", !.status = ""]
    <2>1. n.task = routine[h][g].task
      BY <1>2 DEF RoutineStates
    <2>2. CASE PersistFails(h, g)
      BY <1>9, <2>1, <2>2 DEF PersistFails
    <2>3. CASE PersistWrite(h, g)
      <3>1. PICK text : disk' = [disk EXCEPT ![h][routine[h][g].task] = text]
        BY <2>3 DEF PersistWrite
      <3>2. \A t \in Tasks \ {routine[h][g].task} : disk'[h][t] = disk[h][t]
        BY <1>1, <1>2, <3>1
      <3> QED
        BY <1>9, <2>1, <2>3, <3>2 DEF PersistWrite
    <2> QED
      BY <1>11, <2>2, <2>3
  <1>12. CASE PersistCreate(h, g)
    BY <1>1, <1>2, <1>12 DEF PersistCreate, Goto, OwnTaskOnly, RoutineStates
  <1>14. CASE RoutineEnd(h, g)
    <2>1. routine'[h][g].pc = "none" /\ \A k \in Routines \ {g} : routine'[h][k] = routine[h][k]
      BY <1>1, <1>14, StartValues DEF RoutineEnd
    <2>2. \A t \in Tasks : /\ local'[h][t].known = local[h][t].known
                           /\ local'[h][t].action = local[h][t].action
                           /\ local'[h][t].status = local[h][t].status
      BY <1>1, <1>2, <1>14 DEF RoutineEnd, SetAlive, LocalTasks
    <2> QED
      BY <1>14, <2>1, <2>2 DEF RoutineEnd, OwnTaskOnly
  <1>13. CASE ScriptEnds(h, g)
    BY <1>1, <1>2, <1>3, <1>13 DEF ScriptEnds, OwnTaskOnly, RoutineStates
  <1> QED
    BY <1>4, <1>5, <1>6, <1>7, <1>8, <1>9, <1>10, <1>11, <1>12, <1>13, <1>14 DEF RoutineStep

-----------------------------------------------------------------------------
(* A script is started once.                                               *)

LEMMA ActionStays ==
    ASSUME Changes = {}, TypeInv, [Next]_vars, NEW t \in posted
    PROVE  CachedAction(t)' = CachedAction(t)
  <1>0. posted \subseteq Tasks /\ action \in [Tasks -> ColumnActions]
    BY DEF TypeInv, TypeOK, ServerTypeOK
  <1>1. action'[t] = action[t]
    BY <1>0, ServerChanges DEF serverVars, ServerStep, TaskAdd, SetAction, SyncRead, SyncSwap, SaveGet,
       SaveInsert, DoTaskMetaMark, Call, Receive, Reply, HandlerErr, ServerRestart
  <1> QED
    BY <1>1 DEF CachedAction

LEMMA SameActionStep ==
    ASSUME Changes = {}, TypeInv, WaitsInCall, HandedOut, KnownTargeted, SameAction, [Next]_vars
    PROVE  SameAction'
  <1> SUFFICES ASSUME NEW h \in Hosts
               PROVE  /\ \A a \in cache'[h] : a.action = CachedAction(a.id)'
                      /\ \A a \in snap'.m[h] : a.action = CachedAction(a.id)'
                      /\ \A a \in loop'[h].todo : a.action = CachedAction(a.id)'
                      /\ \A t \in Tasks : local'[h][t].known => local'[h][t].action = CachedAction(t)'
    BY DEF SameAction
  <1>1. \A a \in cache[h] \cup snap.m[h] \cup loop[h].todo :
            a.id \in posted /\ a.action = CachedAction(a.id)
    BY DEF SameAction, HandedOut, Targeted
  <1>2. \A a \in TasksByHost[h] : a.id \in posted /\ a.action = CachedAction(a.id)
    BY DEF TasksByHost, UnDoTaskMeta
  <1>3. \A t \in Tasks : local[h][t].known => t \in posted /\ local[h][t].action = CachedAction(t)
    BY DEF SameAction, KnownTargeted, Targeted
  <1>4. \A t \in posted : CachedAction(t)' = CachedAction(t)
    BY ActionStays
  <1>5. \A a \in loop[h].todo : a.id \in Tasks
    BY DEF TypeInv, TypeOK, AgentTypeOK, LoopStates, Assigns
  <1>6. \A a \in cache[h] \cup snap.m[h] \cup loop[h].todo \cup TasksByHost[h] :
            a.action = CachedAction(a.id)'
    BY <1>1, <1>2, <1>4
  <1>7. ASSUME NEW t \in Tasks, local'[h][t].known PROVE local'[h][t].action = CachedAction(t)'
    <2>1. AnyLoopChange(h)
      BY LoopLocalFlow
    <2>2. local[h][t].known => local[h][t].action = CachedAction(t)'
      BY <1>3, <1>4
    <2>3. CASE LoopStays(h) \/ LoopWaits(h) \/ LoopStarts(h)
      BY <1>7, <2>2, <2>3 DEF LoopStays, LoopWaits, LoopStarts, SameTask
    <2>4. CASE LoopAccepts(h)
      BY <1>5, <1>6, <1>7, <2>2, <2>4 DEF LoopAccepts, SameTask
    <2>5. CASE LoopLoads(h) \/ LoopActs(h)
      BY <1>7, <2>2, <2>5 DEF LoopLoads, LoopActs, SameTask
    <2>6. CASE LoopForgets(h)
      BY <1>7, <2>6, StartValues DEF LoopForgets
    <2> QED
      BY <2>1, <2>3, <2>4, <2>5, <2>6 DEF AnyLoopChange
  <1> QED
    BY <1>6, <1>7, CacheFlow, LoopFlow

\* While nobody edits actions, AssignTask accepts only what it does not know.
LEMMA AcceptsNew ==
    ASSUME TypeInv, SameAction, NEW h \in Hosts, AssignTask(h), loop'[h].pc # "assign"
    PROVE  \E a \in loop[h].todo :
                /\ a.id \in Tasks /\ ~local[h][a.id].known /\ a.action # "kill"
                /\ loop'[h].task = a.id
                /\ loop'[h].pc = IF DoneBefore(h, a.id) THEN "load" ELSE "act"
                /\ local'[h][a.id].known /\ local'[h][a.id].action = a.action
                /\ local'[h][a.id].status = local[h][a.id].status
                /\ \A t \in Tasks \ {a.id} : local'[h][t] = local[h][t]
  <1>1. /\ local \in [Hosts -> [Tasks -> LocalTasks]] /\ loop \in [Hosts -> LoopStates]
    BY DEF TypeInv, TypeOK, AgentTypeOK
  <1>2. PICK a \in loop[h].todo :
            IF AssignIgnored(h, a)
            THEN loop' = [loop EXCEPT ![h].todo = @ \ {a}]
            ELSE /\ local' = [local EXCEPT ![h][a.id] =
                        [local[h][a.id] EXCEPT !.known = TRUE, !.action = a.action]]
                 /\ loop' = [loop EXCEPT ![h] = [loop[h] EXCEPT !.todo = @ \ {a}, !.task = a.id,
                                !.pc = IF DoneBefore(h, a.id) THEN "load" ELSE "act"]]
    BY DEF AssignTask
  <1>3. loop[h].pc = "assign"
    BY DEF AssignTask
  <1>4. a.id \in Tasks
    BY <1>1 DEF LoopStates, Assigns
  <1>5. ~AssignIgnored(h, a)
    BY <1>1, <1>2, <1>3 DEF LoopStates
  <1>6. a.action = CachedAction(a.id) /\ (local[h][a.id].known => local[h][a.id].action = CachedAction(a.id))
    BY <1>4 DEF SameAction
  <1>7. ~local[h][a.id].known /\ a.action # "kill"
    BY <1>5, <1>6 DEF AssignIgnored
  <1> DEFINE n == [loop[h] EXCEPT !.todo = @ \ {a}, !.task = a.id,
                                !.pc = IF DoneBefore(h, a.id) THEN "load" ELSE "act"]
  <1>8. n.task = a.id /\ n.pc = IF DoneBefore(h, a.id) THEN "load" ELSE "act"
    BY <1>1 DEF LoopStates
  <1>9. loop' = [loop EXCEPT ![h] = n]
    BY <1>2, <1>5
  <1>10. loop'[h] = n
    <2> HIDE DEF n
    <2> QED
      BY <1>1, <1>9
  <1> DEFINE m == [local[h][a.id] EXCEPT !.known = TRUE, !.action = a.action]
  <1>11. m.known /\ m.action = a.action /\ m.status = local[h][a.id].status
    BY <1>1, <1>4 DEF LocalTasks
  <1>12. local' = [local EXCEPT ![h][a.id] = m]
    BY <1>2, <1>5
  <1>13. local'[h][a.id] = m /\ \A t \in Tasks \ {a.id} : local'[h][t] = local[h][t]
    <2> HIDE DEF m
    <2> QED
      BY <1>1, <1>4, <1>12
  <1> HIDE DEF n, m
  <1> QED
    BY <1>4, <1>7, <1>8, <1>10, <1>11, <1>13

\* Which scripts count as started by this run of the agent.
LEMMA RanFlow ==
    ASSUME TypeInv, NEW h \in Hosts, AgentStep(h), NEW t \in ran'[h]
    PROVE  t \in ran[h] \/ (loop[h].pc = "start" /\ t = loop[h].task)
  <1>1. ran \in [Hosts -> SUBSET Tasks]
    BY DEF TypeInv, TypeOK, AgentTypeOK
  <1>2. UNCHANGED ran \/ Start(h)
    BY DEF AgentStep, AssignStep, AssignTask, LoadResult, Kill, SetRunning, UnknownAction, NotStarted,
       StartFails, AssignedAll, RoutineStep, RunBegin, RunWaited, KillBegin, KillProcess, KillStatus,
       PersistRead, PersistCreate, PersistWrite, PersistFails, RoutineEnd, ScriptEnds, OrphanEnds
  <1> QED
    BY <1>1, <1>2 DEF Start

\* The loop forgets nothing.
LEMMA KnownStays ==
    ASSUME TypeInv, NEW h \in Hosts, AssignStep(h), NEW t \in Tasks, local[h][t].known
    PROVE  local'[h][t].known
  <1>1. local \in [Hosts -> [Tasks -> LocalTasks]] /\ loop[h].task \in Tasks
        /\ loop[h].todo \subseteq Assigns
    BY DEF TypeInv, TypeOK, AgentTypeOK, LoopStates
  <1>2. ASSUME NEW u \in Tasks, NEW n, n.known = local[h][u].known \/ n.known = TRUE,
               local' = [local EXCEPT ![h][u] = n]
        PROVE  local'[h][t].known
    BY <1>1, <1>2
  <1>3. CASE AssignTask(h)
    <2>1. CASE UNCHANGED local
      BY <2>1
    <2>2. CASE ~UNCHANGED local
      <3>1. PICK a \in loop[h].todo : local' = [local EXCEPT ![h][a.id] =
                    [local[h][a.id] EXCEPT !.known = TRUE, !.action = a.action]]
        BY <1>3, <2>2 DEF AssignTask
      <3>2. a.id \in Tasks
        BY <1>1 DEF Assigns
      <3>3. [local[h][a.id] EXCEPT !.known = TRUE, !.action = a.action].known = TRUE
        BY <1>1, <3>2 DEF LocalTasks
      <3> QED
        BY <1>2, <3>1, <3>2, <3>3
    <2> QED
      BY <2>1, <2>2
  <1>4. CASE LoadResult(h) \/ Kill(h) \/ SetRunning(h)
    <2>1. PICK st : local' = [local EXCEPT ![h][loop[h].task].status = st]
      BY <1>4 DEF LoadResult, Kill, SetRunning
    <2> QED
      BY <1>1, <2>1 DEF LocalTasks
  <1> QED
    BY <1>3, <1>4 DEF AssignStep, UnknownAction, NotStarted, StartFails, Start, AssignedAll

LEMMA CarriedOutNewStep ==
    ASSUME TypeInv, TypeInv', WaitsInCall, KnownTargeted, SameAction, CarriedOutNew, [Next]_vars
    PROVE  CarriedOutNew'
  <1> SUFFICES ASSUME NEW h \in Hosts, NEW t \in Tasks
               PROVE  /\ t \in ran'[h] => local'[h][t].known
                      /\ loop'[h].pc \in {"act", "start"} /\ loop'[h].task = t =>
                            /\ t \notin ran'[h] /\ disk'[h][t] = NoFile
                            /\ \A g \in Routines : ~WorksOn(h, g, t)'
    BY DEF CarriedOutNew
  <1>1. t \in ran[h] => local[h][t].known
    BY DEF CarriedOutNew
  <1>2. loop[h].pc \in {"act", "start"} /\ loop[h].task = t =>
            /\ t \notin ran[h] /\ disk[h][t] = NoFile
            /\ \A g \in Routines : ~WorksOn(h, g, t)
    BY DEF CarriedOutNew
  <1>3. CASE HostStays(h)
    BY <1>1, <1>2, <1>3 DEF HostStays, WorksOn
  <1>4. CASE AgentCrash(h)
    <2>1. ran \in [Hosts -> SUBSET Tasks] /\ loop \in [Hosts -> LoopStates]
      BY DEF TypeInv, TypeOK, AgentTypeOK
    <2> QED
      BY <1>4, <2>1 DEF AgentCrash, Restarted, Idle
  <1>5. ASSUME NEW g \in Routines, RoutineStep(h, g) \/ ScriptEnds(h, g)
        PROVE  /\ t \in ran'[h] => local'[h][t].known
               /\ loop'[h].pc \in {"act", "start"} /\ loop'[h].task = t =>
                    /\ t \notin ran'[h] /\ disk'[h][t] = NoFile
                    /\ \A k \in Routines : ~WorksOn(h, k, t)'
    <2>1. OwnTaskOnly(h, g)
      BY <1>5, RoutineLocal
    <2> QED
      BY <1>1, <1>2, <2>1 DEF OwnTaskOnly, WorksOn
  <1>6. CASE OrphanEnds(h, t) \/ \E u \in Tasks : OrphanEnds(h, u)
    BY <1>1, <1>2, <1>6 DEF OrphanEnds, WorksOn
  <1>7. CASE AssignStep(h)
    <2>1. loop \in [Hosts -> LoopStates] /\ loop[h].task \in Tasks
      BY DEF TypeInv, TypeOK, AgentTypeOK, LoopStates
    <2>2. t \in ran'[h] => local'[h][t].known
      BY <1>1, <1>7, RanFlow, KnownStays DEF AgentStep, KnownTargeted
    <2>3. ASSUME loop'[h].pc \in {"act", "start"}, loop'[h].task = t
          PROVE  /\ t \notin ran'[h] /\ disk'[h][t] = NoFile
                 /\ \A g \in Routines : ~WorksOn(h, g, t)'
      <3>1. AssignTask(h) \/ SetRunning(h)
        <4>1. CASE LoadResult(h) \/ Kill(h) \/ UnknownAction(h) \/ NotStarted(h) \/ StartFails(h) \/ Start(h)
          BY <2>1, <2>3, <4>1 DEF LoadResult, Kill, UnknownAction, NotStarted, StartFails, Start,
             NextAssign, LoopStates
        <4>2. CASE AssignedAll(h)
          BY <2>1, <2>3, <4>2 DEF AssignedAll, Idle
        <4> QED
          BY <1>7, <4>1, <4>2 DEF AssignStep
      <3>2. UNCHANGED <<ran, disk, routine>>
        BY <3>1 DEF AssignTask, SetRunning
      <3>3. CASE SetRunning(h)
        <4>1. loop[h].pc = "act" /\ loop'[h].task = loop[h].task
          BY <2>1, <3>3 DEF SetRunning, LoopStates
        <4> QED
          BY <1>2, <2>3, <3>2, <4>1 DEF WorksOn
      <3>4. CASE AssignTask(h)
        <4>1. ~local[h][t].known /\ ~DoneBefore(h, t)
          BY <2>3, <3>4, AcceptsNew
        <4> QED
          BY <1>1, <3>2, <4>1 DEF DoneBefore, WorksOn, KnownTargeted
      <3> QED
        BY <3>1, <3>3, <3>4
    <2> QED
      BY <2>2, <2>3
  <1> QED
    BY <1>3, <1>4, <1>5, <1>6, <1>7, HostFlow DEF AgentStep

\* Only a task that is carried out, hence a new one, is launched.
LEMMA LaunchesNew ==
    ASSUME TypeInv, KnownTargeted, CarriedOutNew, [Next]_vars, NEW h \in Hosts, NEW t \in Tasks,
           Launches(h, t)
    PROVE  t \notin ran[h] /\ disk[h][t] = NoFile
  <1>1. PICK g \in Routines : routine[h][g].pc = "none" /\ routine'[h][g] = Runner(t)
    BY DEF Launches
  <1>2. routine'[h][g].pc = "run" /\ routine'[h][g].task = t
    BY <1>1, StartValues
  <1>3. routine'[h][g] # routine[h][g] /\ routine'[h][g] # NoRoutine /\ ~RoutineGoesOn(h, g)
    BY <1>1, <1>2, StartValues DEF RoutineGoesOn
  <1>4. /\ loop[h].pc \in {"act", "start"}
        /\ routine'[h][g] \in {Runner(loop[h].task), Killer(loop[h].task)}
    BY <1>3, RoutineFlow
  <1>5. t = loop[h].task
    BY <1>2, <1>4, StartValues
  <1> QED
    BY <1>4, <1>5 DEF CarriedOutNew

-----------------------------------------------------------------------------
(* One row for a task and host, as long as nobody gives up on a call.      *)

LEMMA FreeIsEmptyStep ==
    ASSUME TypeInv, FreeIsEmpty, [Next]_vars
    PROVE  FreeIsEmpty'
  <1> SUFFICES ASSUME NEW s \in Handlers, ~handler'[s].busy
               PROVE  handler'[s].todo = {} /\ handler'[s].fresh = {}
    BY DEF FreeIsEmpty
  <1>1. handler \in [Handlers -> HandlerStates]
    BY DEF TypeInv, TypeOK, ServerTypeOK
  <1>2. CASE SaveGet(s) \/ SaveInsert(s) \/ DoTaskMetaMark(s)
    <2>1. handler[s].busy /\ handler[s] \in HandlerStates
      BY <1>1, <1>2 DEF SaveGet, SaveInsert, DoTaskMetaMark
    <2>2. CASE SaveGet(s)
      <3>1. PICK x, new : handler' = [handler EXCEPT ![s] =
                            [handler[s] EXCEPT !.todo = @ \ {x}, !.fresh = new]]
        BY <2>2 DEF SaveGet
      <3> QED
        BY <1>1, <2>1, <3>1 DEF HandlerStates
    <2>3. CASE SaveInsert(s)
      <3>1. PICK id : handler' = [handler EXCEPT ![s] =
                            [handler[s] EXCEPT !.fresh = {}, !.added = @ \cup {id}]]
        BY <2>3 DEF SaveInsert
      <3> QED
        BY <1>1, <2>1, <3>1 DEF HandlerStates
    <2>4. CASE DoTaskMetaMark(s)
      BY <1>1, <2>1, <2>4 DEF DoTaskMetaMark, HandlerStates
    <2> QED
      BY <1>2, <2>2, <2>3, <2>4
  <1>3. CASE handler'[s] = handler[s]
    BY <1>3 DEF FreeIsEmpty
  <1>4. CASE handler'[s] = FreeHandler
    BY <1>4 DEF FreeHandler
  <1>5. ASSUME NEW h \in Hosts, handler'[s] = [busy |-> TRUE, host |-> h,
                                    todo |-> ReportTasks(h), fresh |-> {}, added |-> {}]
        PROVE  FALSE
    BY <1>5
  <1> QED
    BY <1>2, <1>3, <1>4, <1>5, HandlerFlow

\* A handler goes on for the host it was called by, and only if it was called.
LEMMA OwnHost ==
    ASSUME TypeInv, NEW s \in Handlers, SaveGet(s) \/ SaveInsert(s) \/ DoTaskMetaMark(s)
    PROVE  handler[s].busy /\ handler'[s].busy /\ handler'[s].host = handler[s].host
  <1>1. handler \in [Handlers -> HandlerStates]
    BY DEF TypeInv, TypeOK, ServerTypeOK
  <1>2. handler[s].busy /\ handler[s] \in HandlerStates
    BY <1>1 DEF SaveGet, SaveInsert, DoTaskMetaMark
  <1>3. \/ \E x, new : handler' = [handler EXCEPT ![s] =
                            [handler[s] EXCEPT !.todo = @ \ {x}, !.fresh = new]]
        \/ \E id : handler' = [handler EXCEPT ![s] =
                            [handler[s] EXCEPT !.fresh = {}, !.added = @ \cup {id}]]
        \/ \E id : handler' = [handler EXCEPT ![s] = [handler[s] EXCEPT !.added = @ \ {id}]]
    BY DEF SaveGet, SaveInsert, DoTaskMetaMark
  <1> QED
    BY <1>1, <1>2, <1>3 DEF HandlerStates

LEMMA AgentWaitsStep ==
    ASSUME Faults \cap {"timeout", "agentCrash"} = {}, TypeInv, WaitsInCall, AgentWaits, [Next]_vars
    PROVE  AgentWaits'
  <1> SUFFICES ASSUME NEW s \in Handlers, handler'[s].busy
               PROVE  s \in conn'[handler'[s].host]
    BY DEF AgentWaits
  <1>1. handler \in [Handlers -> HandlerStates] /\ conn \in [Hosts -> SUBSET Handlers]
    BY DEF TypeInv, TypeOK, ServerTypeOK
  <1>2. handler[s].busy => s \in conn[handler[s].host]
    BY DEF AgentWaits
  <1>3. handler[s].host \in Hosts
    BY <1>1 DEF HandlerStates
  <1>4. ~FreeHandler.busy
    BY DEF FreeHandler
  <1>5. CASE ServerStep /\ UNCHANGED <<agentVars, conn>>
    <2>1. UNCHANGED handler \/ \E r \in Handlers : SaveGet(r) \/ SaveInsert(r) \/ DoTaskMetaMark(r)
      BY <1>5 DEF ServerStep, TaskAdd, SetAction, SyncRead, SyncSwap
    <2>2. ASSUME NEW r \in Handlers, SaveGet(r) \/ SaveInsert(r) \/ DoTaskMetaMark(r), r # s
          PROVE  handler'[s] = handler[s]
      BY <1>1, <2>2 DEF SaveGet, SaveInsert, DoTaskMetaMark
    <2> QED
      BY <1>2, <1>5, <2>1, <2>2, OwnHost
  <1>6. ASSUME NEW h \in Hosts, AgentStep(h), UNCHANGED <<serverVars, conn>>
        PROVE  s \in conn'[handler'[s].host]
    BY <1>2, <1>6 DEF serverVars
  <1>7. ASSUME NEW h \in Hosts, NEW r \in Handlers, Call(h, r)
        PROVE  s \in conn'[handler'[s].host]
    <2>1. /\ handler' = [handler EXCEPT ![r] = [busy |-> TRUE, host |-> h,
                            todo |-> ReportTasks(h), fresh |-> {}, added |-> {}]]
          /\ conn' = [conn EXCEPT ![h] = {r}]
      BY <1>7 DEF Call, Receive
    <2>2. conn[h] = {}
      BY <1>7 DEF Call, WaitsInCall
    <2>3. CASE r = s
      BY <1>1, <2>1, <2>3
    <2>4. CASE r # s
      BY <1>1, <1>2, <1>3, <2>1, <2>2, <2>4
    <2> QED
      BY <2>3, <2>4
  <1>8. ASSUME NEW r \in Handlers, Replied(r) PROVE s \in conn'[handler'[s].host]
    <2>1. handler' = [handler EXCEPT ![r] = FreeHandler]
      BY <1>8 DEF Replied, Reply, Finish
    <2>2. r # s /\ handler'[s] = handler[s]
      BY <1>1, <1>4, <2>1
    <2>3. conn' = [conn EXCEPT ![handler[r].host] = @ \ {r}]
      BY <1>8 DEF Replied
    <2> QED
      BY <1>1, <1>2, <1>3, <2>2, <2>3
  <1>9. ASSUME NEW r \in Handlers, Failed(r) PROVE s \in conn'[handler'[s].host]
    <2>1. handler' = [handler EXCEPT ![r] = FreeHandler]
      BY <1>9 DEF Failed, HandlerErr, Finish
    <2>2. r # s /\ handler'[s] = handler[s]
      BY <1>1, <1>4, <2>1
    <2>3. r \notin conn[handler[s].host]
      BY <1>2, <1>3, <2>2 DEF WaitsInCall
    <2>4. conn'[handler[s].host] = conn[handler[s].host]
      BY <1>3, <1>9, <2>3 DEF Failed, CallErrors
    <2> QED
      BY <1>2, <2>2, <2>4
  <1>10. ASSUME NEW h \in Hosts, TimedOut(h) \/ AgentCrash(h) PROVE FALSE
    BY <1>10 DEF TimedOut, AgentCrash, Restarted
  <1>11. CASE ServerCrash
    BY <1>4, <1>11 DEF ServerCrash, ServerRestart
  <1>12. CASE UNCHANGED vars
    BY <1>2, <1>12 DEF vars, serverVars
  <1> QED
    BY <1>5, <1>6, <1>7, <1>8, <1>9, <1>10, <1>11, <1>12 DEF Next

\* Two handlers do not work for the same host.
LEMMA OneHandler ==
    ASSUME WaitsInCall, AgentWaits, TypeInv, NEW s \in Handlers, NEW r \in Handlers,
           handler[s].busy, handler[r].busy, handler[s].host = handler[r].host
    PROVE  s = r
  <1>1. handler[s].host \in Hosts
    BY DEF TypeInv, TypeOK, ServerTypeOK, HandlerStates
  <1> QED
    BY <1>1 DEF WaitsInCall, AgentWaits

LEMMA FreshFirstStep ==
    ASSUME TypeInv, FreeIsEmpty, WaitsInCall, AgentWaits, FreshFirst, [Next]_vars
    PROVE  FreshFirst'
  <1> SUFFICES ASSUME NEW s \in Handlers, NEW x \in handler'[s].fresh
               PROVE  rows'[x.id][handler'[s].host] = <<>>
    BY DEF FreshFirst
  <1>1. handler \in [Handlers -> HandlerStates] /\ rows \in [Tasks -> [Hosts -> Seq(Statuses)]]
    BY DEF TypeInv, TypeOK, ServerTypeOK
  <1>2. \A y \in handler[s].todo \cup handler[s].fresh : y.id \in Tasks
    BY <1>1 DEF HandlerStates, Reports
  <1>3. handler[s].host \in Hosts
    BY <1>1 DEF HandlerStates
  <1>4. CASE handler'[s] = handler[s]
    <2>1. rows[x.id][handler[s].host] = <<>> /\ x \in handler[s].fresh
      BY <1>4 DEF FreshFirst
    <2>2. handler[s].busy
      BY <2>1 DEF FreeIsEmpty
    <2>3. CASE rows'[x.id][handler[s].host] = rows[x.id][handler[s].host]
      BY <1>4, <2>1, <2>3
    <2>4. ASSUME NEW r \in Handlers, NEW y \in handler[r].fresh, handler[r].host = handler[s].host,
                 rows'[x.id][handler[s].host] # rows[x.id][handler[s].host]
          PROVE  FALSE
      <3>1. handler[r].busy
        BY <2>4 DEF FreeIsEmpty
      <3>2. r = s
        BY <2>2, <2>4, <3>1, OneHandler
      <3>3. UNCHANGED rows \/ SaveInsert(s)
        <4>1. UNCHANGED rows \/ \E q \in Handlers : SaveInsert(q)
          BY ServerChanges DEF serverVars, ServerStep, TaskAdd, SetAction, SyncRead, SyncSwap, SaveGet,
             DoTaskMetaMark, Call, Receive, Reply, HandlerErr, ServerRestart
        <4>2. ASSUME NEW q \in Handlers, SaveInsert(q), q # s PROVE UNCHANGED rows
          <5>1. PICK z \in handler[q].fresh :
                    \/ rows' = [rows EXCEPT ![z.id][handler[q].host] = Append(@, z.status)]
                    \/ UNCHANGED rows
            BY <4>2 DEF SaveInsert
          <5>2. handler[q].busy /\ handler[q].host \in Hosts
            BY <1>1, <4>2 DEF SaveInsert, HandlerStates
          <5>3. handler[q].host # handler[s].host
            BY <2>2, <4>2, <5>2, OneHandler
          <5>4. rows'[x.id][handler[s].host] = rows[x.id][handler[s].host]
            <6>1. z.id \in Tasks
              BY <1>1 DEF HandlerStates, Reports
            <6>2. x.id \in Tasks
              BY <1>2, <2>1
            <6>3. CASE rows' = [rows EXCEPT ![z.id][handler[q].host] = Append(@, z.status)]
              <7> DEFINE v == Append(rows[z.id][handler[q].host], z.status)
              <7>1. rows' = [rows EXCEPT ![z.id][handler[q].host] = v]
                BY <6>3
              <7> HIDE DEF v
              <7> QED
                BY <1>1, <1>3, <5>2, <5>3, <6>1, <6>2, <7>1
            <6> QED
              BY <5>1, <6>3
          <5> QED
            BY <2>4, <5>4
        <4> QED
          BY <4>1, <4>2
      <3>4. SaveInsert(s)
        BY <2>4, <3>3
      <3>5. handler'[s].fresh = {}
        <4>1. PICK id : handler' = [handler EXCEPT ![s] =
                            [handler[s] EXCEPT !.fresh = {}, !.added = @ \cup {id}]]
          BY <3>4 DEF SaveInsert
        <4>2. handler[s] \in HandlerStates
          BY <1>1
        <4> QED
          BY <1>1, <4>1, <4>2 DEF HandlerStates
      <3> QED
        BY <3>5
    <2>5. x.id \in Tasks
      BY <1>2, <2>1
    <2>6. \A r \in Handlers : \A y \in handler[r].fresh : handler[r].host = handler[s].host =>
                rows'[x.id][handler[s].host] = rows[x.id][handler[s].host]
      BY <2>4
    <2> QED
      BY <1>3, <1>4, <2>1, <2>5, <2>6, RowsFlow
  <1>5. CASE SaveGet(s)
    <2>1. PICK y \in handler[s].todo :
            handler' = [handler EXCEPT ![s] = [handler[s] EXCEPT !.todo = @ \ {y},
                      !.fresh = IF HasRow(y.id, handler[s].host) THEN {} ELSE {y}]]
      BY <1>5 DEF SaveGet
    <2>2. handler'[s].fresh = IF HasRow(y.id, handler[s].host) THEN {} ELSE {y}
      <3>1. handler[s] \in HandlerStates
        BY <1>1
      <3> QED
        BY <1>1, <2>1, <3>1 DEF HandlerStates
    <2>3. x = y /\ ~HasRow(y.id, handler[s].host) /\ UNCHANGED rows
      BY <1>5, <2>2 DEF SaveGet
    <2> QED
      BY <1>5, <2>3, OwnHost DEF HasRow
  <1>6. CASE SaveInsert(s)
    <2>1. PICK id : handler' = [handler EXCEPT ![s] =
                        [handler[s] EXCEPT !.fresh = {}, !.added = @ \cup {id}]]
      BY <1>6 DEF SaveInsert
    <2>2. handler[s] \in HandlerStates
      BY <1>1
    <2>3. handler'[s].fresh = {}
      BY <1>1, <2>1, <2>2 DEF HandlerStates
    <2> QED
      BY <2>3
  <1>7. CASE DoTaskMetaMark(s)
    <2>1. handler[s].fresh = {} /\ \E id : handler' = [handler EXCEPT ![s] =
                                            [handler[s] EXCEPT !.added = @ \ {id}]]
      BY <1>7 DEF DoTaskMetaMark
    <2>2. handler[s] \in HandlerStates
      BY <1>1
    <2>3. handler'[s].fresh = {}
      BY <1>1, <2>1, <2>2 DEF HandlerStates
    <2> QED
      BY <2>3
  <1>8. CASE handler'[s] = FreeHandler
    BY <1>8 DEF FreeHandler
  <1>9. ASSUME NEW h \in Hosts, handler'[s] = [busy |-> TRUE, host |-> h,
                                    todo |-> ReportTasks(h), fresh |-> {}, added |-> {}]
        PROVE  FALSE
    BY <1>9
  <1> QED
    BY <1>4, <1>5, <1>6, <1>7, <1>8, <1>9, HandlerFlow

LEMMA AtMostOneRowStep ==
    ASSUME TypeInv, FreshFirst, AtMostOneRow, [Next]_vars
    PROVE  AtMostOneRow'
  <1> SUFFICES ASSUME NEW t \in Tasks, NEW h \in Hosts PROVE Len(rows'[t][h]) <= 1
    BY DEF AtMostOneRow
  <1>1. rows \in [Tasks -> [Hosts -> Seq(Statuses)]]
    BY DEF TypeInv, TypeOK, ServerTypeOK
  <1>2. CASE rows'[t][h] = rows[t][h]
    BY <1>2 DEF AtMostOneRow
  <1>3. ASSUME NEW s \in Handlers, NEW x \in handler[s].fresh, handler[s].host = h, x.id = t,
               rows'[t][h] = Append(rows[t][h], x.status)
        PROVE  Len(rows'[t][h]) <= 1
    <2>1. rows[t][h] = <<>>
      BY <1>3 DEF FreshFirst
    <2>2. Len(Append(rows[t][h], x.status)) = 1
      BY <2>1
    <2> QED
      BY <1>3, <2>2
  <1> QED
    BY <1>2, <1>3, RowsFlow

-----------------------------------------------------------------------------
(* What the rows and the done flag say is the same.                        *)

\* One goroutine, at its own step, keeps its task, the status and the flag in line.
LEMMA RunnerStep ==
    ASSUME "fileErr" \notin Faults, TypeInv, KnownTargeted,
           NEW h \in Hosts, NEW g \in Routines, RoutineStep(h, g) \/ ScriptEnds(h, g),
           NEW t \in Tasks, t = routine[h][g].task,
           RunnerKeeps(routine[h][g], local[h][t].status, disk[h][t])
    PROVE  /\ \/ routine'[h][g].pc = "none" /\ disk'[h][t] = local'[h][t].status
              \/ RunnerKeeps(routine'[h][g], local'[h][t].status, disk'[h][t])
           /\ local'[h][t].status = local[h][t].status \/ local[h][t].status = "running"
  <1>1. /\ local \in [Hosts -> [Tasks -> LocalTasks]] /\ disk \in [Hosts -> [Tasks -> DiskContents]]
        /\ routine \in [Hosts -> [Routines -> RoutineStates]]
    BY DEF TypeInv, TypeOK, AgentTypeOK
  <1>2. routine[h][g] \in RoutineStates /\ local[h][t] \in LocalTasks
    BY <1>1
  <1> USE DEF RunnerKeeps
  <1>3. routine[h][g].pc \in {"run", "wait", "read", "write", "writing", "end"}
    OBVIOUS
  <1>4. CASE RunBegin(h, g)
    <2>1. routine[h][g].pc = "run" /\ routine'[h][g].pc = "wait"
      BY <1>1, <1>2, <1>4 DEF RunBegin, Goto, RoutineStates
    <2>2. local'[h][t].status = local[h][t].status /\ UNCHANGED disk
      BY <1>1, <1>2, <1>4 DEF RunBegin, SetAlive, LocalTasks
    <2> QED
      BY <2>1, <2>2
  <1>5. CASE RunWaited(h, g)
    <2>1. routine[h][g].pc = "wait" /\ routine'[h][g].pc = "read" /\ UNCHANGED disk
      BY <1>1, <1>2, <1>5 DEF RunWaited, RoutineStates
    <2>2. local'[h][t].status \in Final
      BY <1>1, <1>2, <1>5 DEF RunWaited, SetStatus, LocalTasks, ExitStatus, Final
    <2> QED
      BY <2>1, <2>2
  <1>6. ~KillBegin(h, g) /\ ~KillProcess(h, g) /\ ~KillStatus(h, g) /\ ~PersistFails(h, g)
    BY <1>3 DEF KillBegin, KillProcess, KillStatus, PersistFails, Goto
  <1>7. CASE PersistRead(h, g)
    <2> DEFINE n == [routine[h][g] EXCEPT !.pc = "write", !.status = local[h][t].status]
    <2>1. n.pc = "write" /\ n.status = local[h][t].status
      BY <1>2 DEF RoutineStates
    <2>2. routine' = [routine EXCEPT ![h][g] = n] /\ UNCHANGED <<local, disk>>
      BY <1>7 DEF PersistRead
    <2>3. routine'[h][g] = n
      <3> HIDE DEF n
      <3> QED
        BY <1>1, <2>2
    <2>4. routine[h][g].pc = "read"
      BY <1>7 DEF PersistRead
    <2> HIDE DEF n
    <2> QED
      BY <2>1, <2>2, <2>3, <2>4
  <1>8. CASE PersistCreate(h, g)
    <2>1. routine[h][g].pc = "write" /\ routine'[h][g].pc = "writing" /\ UNCHANGED local
          /\ routine'[h][g].status = routine[h][g].status
      BY <1>1, <1>2, <1>8 DEF PersistCreate, Goto, RoutineStates
    <2>2. disk'[h][t] = ""
      BY <1>1, <1>8 DEF PersistCreate
    <2> QED
      BY <2>1, <2>2
  <1>9. CASE PersistWrite(h, g)
    <2>1. routine[h][g].pc = "writing" /\ UNCHANGED local
      BY <1>9 DEF PersistWrite
    <2>2. disk' = [disk EXCEPT ![h][t] = routine[h][g].status]
      BY <1>9, <2>1 DEF PersistWrite
    <2> DEFINE n == [routine[h][g] EXCEPT !.pc = "end", !.status = ""]
    <2>3. routine' = [routine EXCEPT ![h][g] = n]
      BY <1>9 DEF PersistWrite
    <2>4. n.pc = "end"
      BY <1>2 DEF RoutineStates
    <2>5. routine'[h][g] = n
      <3> HIDE DEF n
      <3> QED
        BY <1>1, <2>3
    <2>6. disk'[h][t] = routine[h][g].status
      BY <1>1, <2>2
    <2> HIDE DEF n
    <2> QED
      BY <2>1, <2>4, <2>5, <2>6
  <1>10. CASE RoutineEnd(h, g)
    <2>1. routine[h][g].pc = "end" /\ routine'[h][g].pc = "none" /\ UNCHANGED disk
      BY <1>1, <1>10, StartValues DEF RoutineEnd
    <2>2. local'[h][t].status = local[h][t].status
      BY <1>1, <1>2, <1>10 DEF RoutineEnd, SetAlive, LocalTasks
    <2> QED
      BY <2>1, <2>2
  <1>11. CASE ScriptEnds(h, g)
    <2>0. PICK e : routine' = [routine EXCEPT ![h][g].proc = e]
      BY <1>11 DEF ScriptEnds
    <2>1. routine'[h][g].pc = routine[h][g].pc /\ routine'[h][g].status = routine[h][g].status
      BY <1>1, <1>2, <2>0 DEF RoutineStates
    <2>2. UNCHANGED <<local, disk>>
      BY <1>11 DEF ScriptEnds
    <2> QED
      BY <2>1, <2>2
  <1> QED
    BY <1>4, <1>5, <1>6, <1>7, <1>8, <1>9, <1>10, <1>11 DEF RoutineStep

(* A step of the loop, when the actions stay and nothing is ever loaded or     *)
(* killed: it accepts a new task, sets the status of the one it carries out,   *)
(* launches it, or leaves everything but its own state alone.                  *)
AcceptsStep(h) ==
    /\ UNCHANGED <<disk, routine>> /\ loop'[h].pc = "act"
    /\ loop'[h].task \in Tasks
    /\ LET u == loop'[h].task IN
        /\ ~local[h][u].known /\ local'[h][u].known /\ local'[h][u].action # "kill"
        /\ local'[h][u].status = local[h][u].status
        /\ \A t \in Tasks \ {u} : local'[h][t] = local[h][t]

MarksStep(h) ==
    /\ UNCHANGED <<disk, routine>> /\ loop[h].pc = "act" /\ loop'[h].pc = "start"
    /\ loop'[h].task = loop[h].task
    /\ LET u == loop[h].task IN
        /\ local'[h][u].known = local[h][u].known /\ local'[h][u].action = local[h][u].action
        /\ local'[h][u].status = "running"
        /\ \A t \in Tasks \ {u} : local'[h][t] = local[h][t]

LaunchesStep(h) ==
    /\ UNCHANGED <<disk, local>> /\ loop[h].pc = "start" /\ loop'[h].pc = "assign"
    /\ \E g \in Routines :
        /\ routine[h][g].pc = "none" /\ routine'[h][g] = Runner(loop[h].task)
        /\ \A k \in Routines \ {g} : routine'[h][k] = routine[h][k]

MovesOn(h) ==
    /\ UNCHANGED <<disk, local>> /\ loop'[h].pc \in {"assign", "idle"}
    /\ \A k \in Routines : routine'[h][k] = routine[h][k]

LEMMA LoopStep ==
    ASSUME "fileErr" \notin Faults, TypeInv, KnownTargeted, SameAction, CarriedOutNew, OneRunner,
           NEW h \in Hosts, AssignStep(h)
    PROVE  AcceptsStep(h) \/ MarksStep(h) \/ LaunchesStep(h) \/ MovesOn(h)
  <1>1. /\ local \in [Hosts -> [Tasks -> LocalTasks]] /\ loop \in [Hosts -> LoopStates]
        /\ routine \in [Hosts -> [Routines -> RoutineStates]] /\ loop[h].task \in Tasks
    BY DEF TypeInv, TypeOK, AgentTypeOK, LoopStates
  <1>2. ~LoadResult(h) /\ ~Kill(h)
    <2>1. OneRunnerAt(h, loop[h].task)
      BY <1>1 DEF OneRunner
    <2>2. loop[h].pc # "load"
      BY <2>1 DEF OneRunnerAt
    <2>3. loop[h].pc = "act" => local[h][loop[h].task].action # "kill"
      BY <2>1 DEF OneRunnerAt, KnownTargeted
    <2> QED
      BY <2>2, <2>3 DEF LoadResult, Kill
  <1>3. CASE AssignTask(h)
    <2>1. CASE loop'[h].pc = "assign"
      <3>1. UNCHANGED local
        <4>1. PICK a \in loop[h].todo :
                IF AssignIgnored(h, a)
                THEN UNCHANGED local
                ELSE loop' = [loop EXCEPT ![h] = [loop[h] EXCEPT !.todo = @ \ {a}, !.task = a.id,
                                !.pc = IF DoneBefore(h, a.id) THEN "load" ELSE "act"]]
          BY <1>3 DEF AssignTask
        <4> DEFINE n == [loop[h] EXCEPT !.todo = @ \ {a}, !.task = a.id,
                                !.pc = IF DoneBefore(h, a.id) THEN "load" ELSE "act"]
        <4>2. n.pc # "assign"
          BY <1>1 DEF LoopStates
        <4>3. ~AssignIgnored(h, a) => loop' = [loop EXCEPT ![h] = n]
          BY <4>1
        <4>4. AssignIgnored(h, a)
          <5> HIDE DEF n
          <5> QED
            BY <1>1, <2>1, <4>2, <4>3
        <4> QED
          BY <4>1, <4>4
      <3> QED
        BY <1>3, <2>1, <3>1 DEF AssignTask, MovesOn
    <2>2. CASE loop'[h].pc # "assign"
      <3>1. PICK a \in loop[h].todo :
                /\ a.id \in Tasks /\ ~local[h][a.id].known /\ a.action # "kill"
                /\ loop'[h].task = a.id
                /\ loop'[h].pc = IF DoneBefore(h, a.id) THEN "load" ELSE "act"
                /\ local'[h][a.id].known /\ local'[h][a.id].action = a.action
                /\ local'[h][a.id].status = local[h][a.id].status
                /\ \A t \in Tasks \ {a.id} : local'[h][t] = local[h][t]
        BY <1>3, <2>2, AcceptsNew
      <3>2. ~DoneBefore(h, a.id)
        BY <3>1 DEF OneRunner, OneRunnerAt, DoneBefore
      <3>3. UNCHANGED <<disk, routine>>
        BY <1>3 DEF AssignTask
      <3> QED
        BY <3>1, <3>2, <3>3 DEF AcceptsStep
    <2> QED
      BY <2>1, <2>2
  <1>4. CASE SetRunning(h)
    <2>1. loop[h].pc = "act" /\ loop'[h].pc = "start" /\ loop'[h].task = loop[h].task
      BY <1>1, <1>4 DEF SetRunning, LoopStates
    <2>2. local' = [local EXCEPT ![h][loop[h].task].status = "running"] /\ UNCHANGED <<disk, routine>>
      BY <1>4 DEF SetRunning
    <2> QED
      BY <1>1, <2>1, <2>2 DEF MarksStep, LocalTasks
  <1>5. CASE UnknownAction(h) \/ NotStarted(h) \/ AssignedAll(h)
    BY <1>1, <1>5 DEF UnknownAction, NotStarted, AssignedAll, NextAssign, Idle, MovesOn, LoopStates
  <1>6. ASSUME NEW new, ReplaceCmd(h, new), loop[h].pc = "start"
        PROVE  \A k \in Routines :
                 routine'[h][k] = IF k \in new THEN Runner(loop[h].task) ELSE routine[h][k]
    <2>1. PICK lost \in SUBSET Routines : ReplacedBy(h, new, lost)
      BY <1>6, Replaces
    <2>2. \A r \in lost : WorksOn(h, r, loop[h].task)
      BY <2>1 DEF ReplacedBy, WorksOn
    <2>3. lost = {}
      BY <1>1, <1>6, <2>2 DEF CarriedOutNew
    <2> QED
      BY <1>1, <2>1, <2>3 DEF ReplacedBy
  <1>7. CASE StartFails(h)
    BY <1>1, <1>6, <1>7 DEF StartFails, NextAssign, MovesOn, LoopStates
  <1>8. CASE Start(h)
    <2>1. PICK g \in Routines : routine[h][g].pc = "none" /\ ReplaceCmd(h, {g})
      BY <1>8 DEF Start
    <2>2. loop[h].pc = "start" /\ loop'[h].pc = "assign" /\ UNCHANGED <<disk, local>>
      BY <1>1, <1>8 DEF Start, NextAssign, LoopStates
    <2> QED
      BY <1>6, <2>1, <2>2 DEF LaunchesStep
  <1> QED
    BY <1>2, <1>3, <1>4, <1>5, <1>7, <1>8 DEF AssignStep

LEMMA OneRunnerStep ==
    ASSUME Changes = {}, Faults \cap {"agentCrash", "fileErr"} = {},
           TypeInv, KnownTargeted, SameAction, CarriedOutNew, OneRunner, [Next]_vars
    PROVE  OneRunner'
  <1> SUFFICES ASSUME NEW h \in Hosts, NEW t \in Tasks PROVE OneRunnerAt(h, t)'
    BY DEF OneRunner
  <1>1. OneRunnerAt(h, t)
    BY DEF OneRunner
  <1>2. \A g \in Routines : WorksOn(h, g, t) => local[h][t].known
    BY DEF KnownTargeted, WorksOn
  <1>3. loop[h].pc \in {"act", "start"} /\ loop[h].task = t =>
            disk[h][t] = NoFile /\ \A g \in Routines : ~WorksOn(h, g, t)
    BY DEF CarriedOutNew
  <1>4. CASE HostStays(h)
    BY <1>1, <1>4 DEF HostStays, OneRunnerAt, WorksOn, Writing
  <1>5. ASSUME AgentCrash(h) PROVE FALSE
    BY <1>5 DEF AgentCrash, Restarted
  <1>6. ASSUME NEW g \in Routines, RoutineStep(h, g) \/ ScriptEnds(h, g)
        PROVE  OneRunnerAt(h, t)'
    <2>1. OwnTaskOnly(h, g)
      BY <1>6, RoutineLocal
    <2>2. \A k \in Routines : WorksOn(h, k, t)' => WorksOn(h, k, t)
      BY <2>1 DEF OwnTaskOnly, WorksOn
    <2>3. CASE t # routine[h][g].task
      <3>1. local'[h][t].status = local[h][t].status /\ disk'[h][t] = disk[h][t]
        BY <2>1, <2>3 DEF OwnTaskOnly
      <3>2. \A k \in Routines : WorksOn(h, k, t)' =>
                /\ routine'[h][k].pc = routine[h][k].pc
                /\ routine'[h][k].status = routine[h][k].status
        BY <2>1, <2>2, <2>3 DEF OwnTaskOnly, WorksOn
      <3>3. Writing(h, t) => Writing(h, t)'
        BY <2>1, <2>3 DEF OwnTaskOnly, Writing
      <3> QED
        <4>1. \A k \in Routines : WorksOn(h, k, t)' =>
                RunnerKeeps(routine'[h][k], local'[h][t].status, disk'[h][t])
          <5>1. \A k \in Routines : WorksOn(h, k, t) =>
                    RunnerKeeps(routine[h][k], local[h][t].status, disk[h][t])
            BY <1>1 DEF OneRunnerAt
          <5> QED
            BY <2>2, <3>1, <3>2, <5>1 DEF RunnerKeeps
        <4> QED
          BY <1>1, <2>1, <2>2, <3>1, <3>3, <4>1 DEF OwnTaskOnly, OneRunnerAt
    <2>4. CASE t = routine[h][g].task
      <3>1. WorksOn(h, g, t) /\ \A k \in Routines : WorksOn(h, k, t) => k = g
        BY <1>1, <2>1, <2>4 DEF OneRunnerAt, OwnTaskOnly, WorksOn
      <3>2. RunnerKeeps(routine[h][g], local[h][t].status, disk[h][t])
        BY <1>1, <3>1 DEF OneRunnerAt
      <3>3. \/ routine'[h][g].pc = "none" /\ disk'[h][t] = local'[h][t].status
            \/ RunnerKeeps(routine'[h][g], local'[h][t].status, disk'[h][t])
        BY <1>6, <2>4, <3>2, RunnerStep
      <3>4. disk'[h][t] # NoFile => Writing(h, t)' \/ disk'[h][t] = local'[h][t].status
        <4>1. CASE routine'[h][g].pc = "writing"
          <5>1. routine'[h][g].task = t
            BY <2>1, <2>4, <4>1 DEF OwnTaskOnly
          <5> QED
            BY <4>1, <5>1 DEF Writing
        <4> QED
          BY <3>3, <4>1 DEF RunnerKeeps
      <3>5. \A k \in Routines : WorksOn(h, k, t)' => k = g /\ routine'[h][g].pc # "none"
        BY <2>2, <3>1 DEF WorksOn
      <3>6. local[h][t].known
        BY <1>2, <3>1
      <3>7. ~(loop[h].pc = "start" /\ loop[h].task = t)
        BY <1>3, <3>1
      <3> QED
        BY <1>1, <2>1, <3>3, <3>4, <3>5, <3>6, <3>7 DEF OneRunnerAt, OwnTaskOnly
    <2> QED
      BY <2>3, <2>4
  <1>7. ASSUME NEW u \in Tasks, OrphanEnds(h, u) PROVE OneRunnerAt(h, t)'
    BY <1>1, <1>7 DEF OrphanEnds, OneRunnerAt, WorksOn, Writing
  <1>8. CASE AssignStep(h)
    <2>1. CASE AcceptsStep(h)
      <3>1. loop'[h].pc = "act" /\ UNCHANGED <<disk, routine>>
        BY <2>1 DEF AcceptsStep
      <3>2. CASE t = loop'[h].task
        <4>1. /\ ~local[h][t].known /\ local'[h][t].known /\ local'[h][t].action # "kill"
              /\ disk'[h][t] = NoFile
          BY <1>1, <2>1, <3>2 DEF AcceptsStep, OneRunnerAt
        <4>2. \A g \in Routines : ~WorksOn(h, g, t)'
          BY <1>2, <3>1, <4>1 DEF WorksOn
        <4> QED
          BY <3>1, <4>1, <4>2 DEF OneRunnerAt
      <3>3. CASE t # loop'[h].task
        <4>1. local'[h][t] = local[h][t]
          BY <2>1, <3>3 DEF AcceptsStep
        <4> QED
          BY <1>1, <3>1, <4>1 DEF OneRunnerAt, WorksOn, Writing
      <3> QED
        BY <3>2, <3>3
    <2>2. CASE MarksStep(h)
      <3>1. loop'[h].pc = "start" /\ loop'[h].task = loop[h].task /\ UNCHANGED <<disk, routine>>
        BY <2>2 DEF MarksStep
      <3>2. CASE t = loop[h].task
        <4>1. disk'[h][t] = NoFile /\ \A g \in Routines : ~WorksOn(h, g, t)'
          BY <1>3, <2>2, <3>1, <3>2 DEF MarksStep, WorksOn
        <4>2. /\ local'[h][t].known = local[h][t].known /\ local'[h][t].action = local[h][t].action
              /\ local'[h][t].status = "running"
          BY <2>2, <3>2 DEF MarksStep
        <4> QED
          BY <1>1, <3>1, <4>1, <4>2 DEF OneRunnerAt
      <3>3. CASE t # loop[h].task
        <4>1. local'[h][t] = local[h][t]
          BY <2>2, <3>3 DEF MarksStep
        <4> QED
          BY <1>1, <3>1, <3>3, <4>1 DEF OneRunnerAt, WorksOn, Writing
      <3> QED
        BY <3>2, <3>3
    <2>3. CASE LaunchesStep(h)
      <3>1. /\ UNCHANGED <<disk, local>> /\ loop[h].pc = "start" /\ loop'[h].pc = "assign"
        BY <2>3 DEF LaunchesStep
      <3>2. PICK g \in Routines : /\ routine[h][g].pc = "none"
                                  /\ routine'[h][g] = Runner(loop[h].task)
                                  /\ \A k \in Routines \ {g} : routine'[h][k] = routine[h][k]
        BY <2>3 DEF LaunchesStep
      <3>3. /\ routine'[h][g].task = loop[h].task /\ routine'[h][g].pc = "run"
        <4>1. routine'[h][g] = Runner(loop[h].task)
          BY <3>2
        <4> QED
          BY <4>1, StartValues
      <3>4. CASE t = loop[h].task
        <4>1. disk'[h][t] = NoFile /\ local'[h][t].status = "running"
          BY <1>1, <1>3, <3>1, <3>4 DEF OneRunnerAt
        <4>2. \A k \in Routines : WorksOn(h, k, t)' => k = g
          BY <1>3, <3>1, <3>2, <3>4 DEF WorksOn
        <4>3. RunnerKeeps(routine'[h][g], local'[h][t].status, disk'[h][t])
          BY <3>3, <4>1 DEF RunnerKeeps
        <4> QED
          BY <1>1, <3>1, <4>1, <4>2, <4>3 DEF OneRunnerAt
      <3>5. CASE t # loop[h].task
        <4>1. \A k \in Routines : WorksOn(h, k, t)' =>
                    WorksOn(h, k, t) /\ routine'[h][k] = routine[h][k]
          BY <3>2, <3>3, <3>5 DEF WorksOn
        <4>2. Writing(h, t) => Writing(h, t)'
          BY <3>2 DEF Writing
        <4> QED
          BY <1>1, <3>1, <4>1, <4>2 DEF OneRunnerAt
      <3> QED
        BY <3>4, <3>5
    <2>4. CASE MovesOn(h)
      BY <1>1, <2>4 DEF MovesOn, OneRunnerAt, WorksOn, Writing
    <2> QED
      BY <1>8, <2>1, <2>2, <2>3, <2>4, LoopStep
  <1> QED
    BY <1>4, <1>5, <1>6, <1>7, <1>8, HostFlow DEF AgentStep

\* What is settled stays so.
LEMMA SettledStays ==
    ASSUME Changes = {}, Faults \cap {"agentCrash", "fileErr"} = {},
           TypeInv, KnownTargeted, SameAction, CarriedOutNew, OneRunner, [Next]_vars,
           NEW h \in Hosts, NEW t \in Tasks, NEW st, Settled(h, t, st)
    PROVE  Settled(h, t, st)'
  <1>1. /\ local[h][t].known /\ ~CarriesOut(h, t)
        /\ st = local[h][t].status /\ st \notin {"running", "killing"}
    BY DEF Settled
  <1>2. CASE HostStays(h)
    BY <1>1, <1>2 DEF HostStays, Settled, CarriesOut
  <1>3. ASSUME AgentCrash(h) PROVE FALSE
    BY <1>3 DEF AgentCrash, Restarted
  <1>4. ASSUME NEW g \in Routines, RoutineStep(h, g) \/ ScriptEnds(h, g)
        PROVE  Settled(h, t, st)'
    <2>1. OwnTaskOnly(h, g)
      BY <1>4, RoutineLocal
    <2>2. local'[h][t].status = local[h][t].status
      <3>1. CASE t # routine[h][g].task
        BY <2>1, <3>1 DEF OwnTaskOnly
      <3>2. CASE t = routine[h][g].task
        <4>1. RunnerKeeps(routine[h][g], local[h][t].status, disk[h][t])
          BY <2>1, <3>2 DEF OneRunner, OneRunnerAt, OwnTaskOnly, WorksOn
        <4> QED
          BY <1>1, <1>4, <3>2, <4>1, RunnerStep
      <3> QED
        BY <3>1, <3>2
    <2> QED
      BY <1>1, <2>1, <2>2 DEF OwnTaskOnly, Settled, CarriesOut
  <1>5. ASSUME NEW u \in Tasks, OrphanEnds(h, u) PROVE Settled(h, t, st)'
    BY <1>1, <1>5 DEF OrphanEnds, Settled, CarriesOut
  <1>6. CASE AssignStep(h)
    <2>1. CASE AcceptsStep(h)
      <3>1. t # loop'[h].task /\ local'[h][t] = local[h][t]
        BY <1>1, <2>1 DEF AcceptsStep
      <3> QED
        BY <1>1, <3>1 DEF Settled, CarriesOut
    <2>2. CASE MarksStep(h)
      <3>1. t # loop'[h].task /\ local'[h][t] = local[h][t]
        BY <1>1, <2>2 DEF MarksStep, CarriesOut
      <3> QED
        BY <1>1, <3>1 DEF Settled, CarriesOut
    <2>3. CASE LaunchesStep(h) \/ MovesOn(h)
      BY <1>1, <2>3 DEF LaunchesStep, MovesOn, Settled, CarriesOut
    <2> QED
      BY <1>6, <2>1, <2>2, <2>3, LoopStep
  <1> QED
    BY <1>2, <1>3, <1>4, <1>5, <1>6, HostFlow DEF AgentStep

LEMMA RecordsSettledStep ==
    ASSUME Changes = {}, Faults \cap {"agentCrash", "fileErr"} = {}, TypeInv, TypeInv',
           KnownTargeted, SameAction, CarriedOutNew, OneRunner, RecordsSettled, [Next]_vars
    PROVE  RecordsSettled'
  <1>1. \A h \in Hosts, t \in Tasks : \A st : Settled(h, t, st) => Settled(h, t, st)'
    BY SettledStays
  <1>2. ASSUME NEW s \in Handlers, NEW x \in handler'[s].todo \cup handler'[s].fresh,
               NEW h \in Hosts, NEW t \in Tasks, NEW st,
               h = handler'[s].host, t = x.id, st = x.status
        PROVE  Settled(h, t, st)'
    <2>1. CASE h = handler[s].host /\ x \in handler[s].todo \cup handler[s].fresh
      BY <1>1, <1>2, <2>1 DEF RecordsSettled
    <2>2. CASE loop[h].pc = "idle" /\ x \in ReportTasks(h)
      <3>1. PICK u \in Tasks : /\ local[h][u].known /\ local[h][u].status \notin {"running", "killing"}
                               /\ x = [id |-> u, status |-> local[h][u].status]
        BY <2>2 DEF ReportTasks
      <3>2. Settled(h, t, st)
        BY <1>2, <2>2, <3>1 DEF Settled, CarriesOut
      <3> QED
        BY <1>1, <3>2
    <2> QED
      BY <1>2, <2>1, <2>2, ReportsFlow
  <1>3. ASSUME NEW s \in Handlers, NEW x \in handler'[s].todo \cup handler'[s].fresh
        PROVE  Settled(handler[s].host, x.id, x.status)'
    <2>1. handler'[s].host \in Hosts /\ x.id \in Tasks
      BY DEF TypeInv, TypeOK, ServerTypeOK, HandlerStates, Reports
    <2>2. PICK h \in Hosts, t \in Tasks : h = handler'[s].host /\ t = x.id
      BY <2>1
    <2>3. PICK st : st = x.status
      OBVIOUS
    <2> QED
      BY <1>2, <2>2, <2>3 DEF Settled, CarriesOut
  <1>4. ASSUME NEW t \in Tasks, NEW h \in Hosts, NEW i \in DOMAIN rows'[t][h]
        PROVE  Settled(h, t, rows[t][h][i])'
    <2>1. rows \in [Tasks -> [Hosts -> Seq(Statuses)]]
      BY DEF TypeInv, TypeOK, ServerTypeOK
    <2>2. PICK st : st = rows'[t][h][i]
      OBVIOUS
    <2>3. CASE rows'[t][h] = rows[t][h]
      <3>1. Settled(h, t, st)
        BY <1>4, <2>2, <2>3 DEF RecordsSettled
      <3>2. Settled(h, t, st)'
        BY <1>1, <3>1
      <3> QED
        BY <2>2, <3>2 DEF Settled
    <2>4. ASSUME NEW s \in Handlers, NEW x \in handler[s].fresh, handler[s].host = h, x.id = t,
                 rows'[t][h] = Append(rows[t][h], x.status)
          PROVE  Settled(h, t, rows[t][h][i])'
      <3>1. rows[t][h] \in Seq(Statuses) /\ x.status \in Statuses
        BY <2>1 DEF TypeInv, TypeOK, ServerTypeOK, HandlerStates, Reports
      <3>2. \/ i \in DOMAIN rows[t][h] /\ rows'[t][h][i] = rows[t][h][i]
            \/ rows'[t][h][i] = x.status
        BY <2>4, <3>1
      <3>3. Settled(h, t, st)
        BY <2>2, <2>4, <3>2 DEF RecordsSettled
      <3>4. Settled(h, t, st)'
        BY <1>1, <3>3
      <3> QED
        BY <2>2, <3>4 DEF Settled
    <2> QED
      BY <2>3, <2>4, RowsFlow
  <1> QED
    BY <1>3, <1>4 DEF RecordsSettled

-----------------------------------------------------------------------------
(* Together.                                                               *)

LEMMA InitOnce == Init => OnceInv
  <1> SUFFICES ASSUME Init PROVE OnceInv
    OBVIOUS
  <1>1. FreeIsEmpty /\ AgentWaits /\ FreshFirst
    BY DEF Init, ServerInit, FreeIsEmpty, AgentWaits, FreshFirst, FreeHandler
  <1>2. SameAction /\ CarriedOutNew
    BY StartValues DEF Init, ServerInit, AgentInit, SameAction, CarriedOutNew, NoTasks, NoSync, Idle
  <1>3. \A t \in Tasks, h \in Hosts : rows[t][h] = <<>>
    BY DEF Init, ServerInit
  <1>4. AtMostOneRow
    BY <1>3 DEF AtMostOneRow
  <1>5. OneRunner
    BY StartValues DEF Init, AgentInit, OneRunner, OneRunnerAt, WorksOn, Idle
  <1>6. RecordsSettled
    <2>1. DOMAIN <<>> = {}
      OBVIOUS
    <2> QED
      BY <1>3, <2>1 DEF Init, ServerInit, RecordsSettled, FreeHandler
  <1> QED
    BY <1>1, <1>2, <1>4, <1>5, <1>6 DEF OnceInv

LEMMA StepOnce ==
    TypeInv /\ EarnedInv /\ OnceInv /\ [Next]_vars => OnceInv'
  <1> SUFFICES ASSUME TypeInv, EarnedInv, OnceInv, [Next]_vars PROVE OnceInv'
    OBVIOUS
  <1>1. TypeInv' /\ WaitsInCall /\ HandedOut /\ KnownTargeted
    BY StepInv DEF EarnedInv
  <1>2. FreeIsEmpty'
    BY FreeIsEmptyStep DEF OnceInv
  <1>3. ASSUME Changes = {} PROVE SameAction' /\ CarriedOutNew'
    BY <1>1, <1>3, SameActionStep, CarriedOutNewStep DEF OnceInv
  <1>4. ASSUME Faults \cap {"timeout", "agentCrash"} = {}
        PROVE  AgentWaits' /\ FreshFirst' /\ AtMostOneRow'
    BY <1>1, <1>4, AgentWaitsStep, FreshFirstStep, AtMostOneRowStep DEF OnceInv
  <1>5. ASSUME Changes = {}, Faults \cap {"agentCrash", "fileErr"} = {}
        PROVE  OneRunner' /\ RecordsSettled'
    BY <1>1, <1>5, OneRunnerStep, RecordsSettledStep DEF OnceInv
  <1> QED
    BY <1>2, <1>3, <1>4, <1>5 DEF OnceInv

(* The whole invariant: EarnedInv, and what the starts and the rows rest on.  *)
THEOREM TaskInvariantHolds == Spec => []TaskInv
  <1>1. Init => TypeInv /\ EarnedInv /\ OnceInv
    BY InitInv, InitOnce
  <1>2. TypeInv /\ EarnedInv /\ OnceInv /\ [Next]_vars => (TypeInv /\ EarnedInv /\ OnceInv)'
    BY StepInv, StepOnce
  <1>3. TypeInv /\ EarnedInv /\ OnceInv => TaskInv
    BY DEF TaskInv
  <1> QED
    BY <1>1, <1>2, <1>3, PTL DEF Spec

(* AssignTask, Start and the done flag start a script once in a run of the    *)
(* agent, and not again after a restart once its flag is on disk.             *)
THEOREM ScriptsStartOnce == Spec => StartedOnce
  <1>1. TypeInv /\ TaskInv /\ [Next]_vars =>
            [Changes = {} => \A h \in Hosts, t \in Tasks :
                (t \in ran[h] \/ disk[h][t] # NoFile) => ~Launches(h, t)]_vars
    BY LaunchesNew DEF TaskInv, EarnedInv, OnceInv
  <1>2. Spec => []TypeInv
    BY InitType, StepType, PTL DEF Spec
  <1> QED
    BY <1>1, <1>2, TaskInvariantHolds, PTL DEF Spec, StartedOnce

(* SELECT-then-INSERT of TaskResult.Save leaves one row for a task and host   *)
(* as long as no call overlaps an abandoned one, and it says what the agent   *)
(* keeps on disk.                                                             *)
THEOREM OneRowOnly == Spec => []OneRow
  <1>1. TaskInv => OneRow
    <2> SUFFICES ASSUME TaskInv, NEW t \in Tasks, NEW h \in Hosts
                 PROVE  /\ Faults \cap {"timeout", "agentCrash"} = {} => Len(rows[t][h]) <= 1
                        /\ (/\ Changes = {} /\ Faults \cap {"agentCrash", "fileErr"} = {}
                            /\ disk[h][t] # NoFile /\ ~Writing(h, t))
                           => \A i \in DOMAIN rows[t][h] : rows[t][h][i] = disk[h][t]
      BY DEF OneRow
    <2>1. ASSUME Faults \cap {"timeout", "agentCrash"} = {} PROVE Len(rows[t][h]) <= 1
      BY <2>1 DEF TaskInv, OnceInv, AtMostOneRow
    <2>2. ASSUME Changes = {}, Faults \cap {"agentCrash", "fileErr"} = {},
                 disk[h][t] # NoFile, ~Writing(h, t), NEW i \in DOMAIN rows[t][h]
          PROVE  rows[t][h][i] = disk[h][t]
      <3>1. OneRunnerAt(h, t) /\ Settled(h, t, rows[t][h][i])
        BY <2>2 DEF TaskInv, OnceInv, OneRunner, RecordsSettled
      <3> QED
        BY <2>2, <3>1 DEF OneRunnerAt, Settled
    <2> QED
      BY <2>1, <2>2
  <1> QED
    BY <1>1, TaskInvariantHolds, PTL

=============================================================================
