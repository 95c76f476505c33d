----------------------------- MODULE TaskSystem -----------------------------
(***************************************************************************)
(* Remote tasks end to end: the server (TaskServer), one agent per host    *)
(* (TaskAgent) and the calls between them (cmd/agent/rpc/task.go).         *)
(*                                                                         *)
(* Every five seconds an agent calls TaskReport with all its results and   *)
(* assigns the tasks of the reply.  The call returns the reply, an error,  *)
(* or times out; a timeout says nothing of the handler, which goes on      *)
(* while the agent calls again.  A request that never reaches the server   *)
(* is a tick at which nothing happens.                                     *)
(***************************************************************************)
EXTENDS TaskAgent

VARIABLE conn   \* conn[h]: the handler agent h waits for, as a set of at most one

vars == <<serverVars, agentVars, conn>>

TypeOK ==
    /\ ServerTypeOK
    /\ AgentTypeOK
    /\ conn \in [Hosts -> SUBSET Handlers]

Init == ServerInit /\ AgentInit /\ conn = [h \in Hosts |-> {}]

\* DoTaskReport sends the report of the agent.
Call(h, s) ==
    /\ loop[h].pc = "idle"
    /\ Receive(s, h, ReportTasks(h))
    /\ loop' = [loop EXCEPT ![h].pc = "call"]
    /\ conn' = [conn EXCEPT ![h] = {s}]
    /\ UNCHANGED <<local, disk, routine, orphan, ran, seen>>

\* The handler replies.  The agent goes on with the tasks it is given, if it
\* still waits for this reply.
Replied(s) ==
    LET h == handler[s].host
    IN  /\ Reply(s)
        /\ IF s \in conn[h]
           THEN loop' = [loop EXCEPT ![h] = [loop[h] EXCEPT !.pc = "assign", !.todo = GetTasksByIp(h)]]
           ELSE UNCHANGED loop
        /\ conn' = [conn EXCEPT ![h] = @ \ {s}]
        /\ UNCHANGED <<local, disk, routine, orphan, ran, seen>>

\* The call of every host in hs ends with an error: Close, wait for the next tick.
CallErrors(hs) ==
    /\ loop' = [h \in Hosts |-> IF h \in hs /\ loop[h].pc = "call" THEN Idle ELSE loop[h]]
    /\ conn' = [h \in Hosts |-> IF h \in hs THEN {} ELSE conn[h]]
    /\ UNCHANGED <<local, disk, routine, orphan, ran, seen>>

\* The handler returns an error.
Failed(s) ==
    /\ HandlerErr(s)
    /\ CallErrors({h \in Hosts : s \in conn[h]})

\* The agent gives up on the call (five seconds, or the connection breaks).
TimedOut(h) ==
    /\ "timeout" \in Faults
    /\ loop[h].pc = "call"
    /\ CallErrors({h})
    /\ UNCHANGED serverVars

\* The server process restarts: every call under way ends with an error.
ServerCrash ==
    /\ ServerRestart
    /\ CallErrors(Hosts)

\* An agent process restarts; a handler it has called goes on.
AgentCrash(h) ==
    /\ Restarted(h)
    /\ conn' = [conn EXCEPT ![h] = {}]
    /\ UNCHANGED serverVars

Next ==
    \/ ServerStep /\ UNCHANGED <<agentVars, conn>>
    \/ \E h \in Hosts : AgentStep(h) /\ UNCHANGED <<serverVars, conn>>
    \/ \E h \in Hosts, s \in Handlers : Call(h, s)
    \/ \E s \in Handlers : Replied(s) \/ Failed(s)
    \/ \E h \in Hosts : TimedOut(h) \/ AgentCrash(h)
    \/ ServerCrash

Spec == Init /\ [][Next]_vars

-----------------------------------------------------------------------------
(* Safety.                                                                 *)

\* An action the agents do not know leaves the status empty.
OtherPossible == "other" \in NewActions \cup Changes

\* What must have happened to a task on a host for a status to be recorded.
Earned(status, events) ==
    CASE status = "success"    -> "exit0" \in events
      [] status = "killed"     -> events \cap {"exitErr", "kill", "lost"} # {}
      [] status = "killfailed" -> "kill" \in events
      [] status = "torn"       -> events # {}
      [] status = ""           -> events # {} \/ OtherPossible
      [] OTHER                 -> FALSE

(* No row of task_result claims what did not happen on its host: "success"   *)
(* only if the script has exited with 0 there, "killed" only after an error, *)
(* a kill or a replaced command, nothing and nonsense only if the task got   *)
(* somewhere, never "running" or "killing" - through races of the wait and   *)
(* kill goroutines on Task.Status and on the done flag, flags reloaded half  *)
(* written or after a restart, and reports delayed in a handler.             *)
ResultEarned ==
    \A t \in Tasks, h \in Hosts : \A i \in DOMAIN rows[t][h] :
        Earned(rows[t][h][i], seen[h][t])

(* The server closes a task only when it has ended, or was to be killed, on  *)
(* one of the hosts it is for; and unless the INSERT may fail unnoticed, with *)
(* a result on record for such a host.                                       *)
ClosedAfterEnd ==
    \A t \in done : \E h \in HostsOf[t] :
        /\ seen[h][t] # {} \/ OtherPossible
        /\ rows[t][h] # <<>> \/ "insertErr" \in Faults

(* The system keeps the promise stated in TaskPromise: the result of a host  *)
(* is its first row.                                                         *)
NoResult == "none"
Settles(result, events) ==
    /\ events # {} \/ OtherPossible
    /\ result # NoResult \/ "insertErr" \in Faults

Promise == INSTANCE TaskPromise WITH
    Results <- Statuses,
    Backs <- Earned,
    closed <- done,
    result <- [t \in Tasks |-> [h \in Hosts |->
                IF rows[t][h] = <<>> THEN NoResult ELSE rows[t][h][1]]],
    events <- [t \in Tasks |-> [h \in Hosts |-> seen[h][t]]]

KeepsPromise == Promise!Spec

\* Start launches the script of task t on host h.
Launches(h, t) == \E g \in Routines : routine[h][g].pc = "none" /\ routine'[h][g] = Runner(t)

(* While nobody edits actions, one run of an agent starts the script of a    *)
(* task at most once, however often the task is assigned to it, and once the *)
(* done flag is on disk it is not started by a restarted agent either.       *)
StartedOnce == [][Changes = {} =>
    \A h \in Hosts, t \in Tasks : (t \in ran[h] \/ disk[h][t] # NoFile) => ~Launches(h, t)]_vars

Writing(h, t) == \E g \in Routines : routine[h][g].task = t /\ routine[h][g].pc = "writing"

(* As long as no call overlaps an abandoned one, SELECT-then-INSERT leaves   *)
(* at most one row for a task and host; and while nobody edits actions, and  *)
(* neither agents crash nor files fail, it says what the agent keeps on disk. *)
OneRow == \A t \in Tasks, h \in Hosts :
    /\ Faults \cap {"timeout", "agentCrash"} = {} => Len(rows[t][h]) <= 1
    /\ (/\ Changes = {} /\ Faults \cap {"agentCrash", "fileErr"} = {}
        /\ disk[h][t] # NoFile /\ ~Writing(h, t))
       => \A i \in DOMAIN rows[t][h] : rows[t][h][i] = disk[h][t]

-----------------------------------------------------------------------------
(* Progress.                                                               *)

(* Tickers, handlers and goroutines keep running: a step of theirs that     *)
(* stays possible is taken.                                                *)
Fairness ==
    /\ WF_vars((SyncRead \/ SyncSwap) /\ UNCHANGED <<agentVars, conn>>)
    /\ \A s \in Handlers :
        /\ WF_vars((SaveGet(s) \/ SaveInsert(s) \/ DoTaskMetaMark(s)) /\ UNCHANGED <<agentVars, conn>>)
        /\ WF_vars(Replied(s))
    /\ \A h \in Hosts :
        /\ WF_vars(\E s \in Handlers : Call(h, s))
        /\ WF_vars(AssignStep(h) /\ UNCHANGED <<serverVars, conn>>)
        /\ \A g \in Routines : WF_vars(RoutineStep(h, g) /\ UNCHANGED <<serverVars, conn>>)

(* Calls may time out, not all of them: an agent that keeps calling is      *)
(* answered in time again and again.                                        *)
Answered == \A h \in Hosts : SF_vars(\E s \in conn[h] : Replied(s))

\* Scripts end by themselves.
ScriptsEnd ==
    \A h \in Hosts, g \in Routines : WF_vars(ScriptEnds(h, g) /\ UNCHANGED <<serverVars, conn>>)

FairSpec == Spec /\ Fairness /\ Answered
EndingSpec == FairSpec /\ ScriptsEnd

(* The result of every script an agent starts gets on record, whatever       *)
(* calls time out and whichever host reports first.                          *)
Recorded == \A h \in Hosts, t \in Tasks : t \in ran[h] ~> rows[t][h] # <<>>

(* Once a task has got somewhere on a host - its script has ended, or a kill *)
(* went out - it is closed, whatever calls time out ...                      *)
Closed == \A t \in Tasks : (\E h \in Hosts : seen[h][t] # {}) ~> t \in done

(* ... and then the server stops handing it out, for good: a synchronisation *)
(* that read it before it was closed cannot bring it back for ever.          *)
Forgotten ==
    \A t \in Tasks : t \in done ~> [](\A h \in Hosts : \A a \in cache[h] : a.id # t)

Running(h, t) == \E g \in Routines : routine[h][g].task = t /\ routine[h][g].proc = "running"

(* A script whose task is switched to kill does not run for ever, even if it *)
(* never ends by itself: the kill reaches the agent that runs it, and if it  *)
(* fails the agent says so.                                                  *)
KillEnds ==
    \A h \in Hosts, t \in Tasks :
        (action[t] = "kill" /\ Running(h, t)) ~> (~Running(h, t) \/ local[h][t].status = "killfailed")
=============================================================================
