--------------------------- MODULE TaskInvariant ---------------------------
(***************************************************************************)
(* An inductive invariant of TaskSystem.  EarnedInv, strong enough for     *)
(* ResultEarned and ClosedAfterEnd, follows a task through the system: the *)
(* caches and replies that hand it out, the agent that runs it, the status *)
(* in memory and in the done flag, the report in a handler, the row.       *)
(* OnceInv is what the single start of a script and the single row of a    *)
(* host rest on, where nothing stands in their way.                        *)
(***************************************************************************)
EXTENDS TaskSystem

\* Task t exists and is for host h.
Targeted(h, t) == t \in posted /\ h \in HostsOf[t]

\* The loop is at LoadResult only after it has seen the done flag.
LoadsFlag == \A h \in Hosts : loop[h].pc = "load" => disk[h][loop[h].task] # NoFile

\* An agent waits for one handler at most, and only inside its call.
WaitsInCall ==
    \A h \in Hosts : conn[h] # {} => loop[h].pc = "call" /\ \E s \in Handlers : conn[h] = {s}

\* What a server hands to host h, or has handed to it, is a task for it.
HandedOut ==
    \A h \in Hosts :
        /\ \A a \in cache[h] : Targeted(h, a.id)
        /\ \A a \in snap.m[h] : Targeted(h, a.id)
        /\ \A a \in loop[h].todo : Targeted(h, a.id)

\* An action the agents do not know comes from the table.
UnknownActions ==
    \/ "other" \in NewActions \cup Changes
    \/ /\ \A t \in Tasks : action[t] # "other"
       /\ \A h \in Hosts :
            /\ \A a \in cache[h] : a.action # "other"
            /\ \A a \in snap.m[h] : a.action # "other"
            /\ \A a \in loop[h].todo : a.action # "other"
            /\ \A t \in Tasks : local[h][t].action # "other"

\* An agent knows, and works on, tasks for its host only.
KnownTargeted ==
    \A h \in Hosts :
        /\ \A t \in Tasks : local[h][t].known => Targeted(h, t)
        /\ loop[h].pc \in {"load", "act", "start"} => local[h][loop[h].task].known
        /\ \A g \in Routines :
            /\ routine[h][g].pc # "none" => local[h][routine[h][g].task].known
            /\ routine[h][g].pc = "none" => routine[h][g].proc = "none"

\* The events behind a status that is or may still become a result.
Backed(status, events) ==
    /\ status = "success" => "exit0" \in events
    /\ status = "killed" => events \cap {"exitErr", "kill", "lost"} # {}
    /\ status = "killfailed" => "kill" \in events
    /\ status = "torn" => events # {}

\* Every status an agent holds is backed: in memory, on disk, on its way there.
StatusBacked ==
    \A h \in Hosts :
        /\ \A t \in Tasks : Backed(local[h][t].status, seen[h][t])
        /\ \A t \in Tasks : Backed(disk[h][t], seen[h][t])
        /\ \A g \in Routines : Backed(routine[h][g].status, seen[h][routine[h][g].task])

\* A goroutine that has seen its script end or lost, or goes about killing one,
\* has the events to show for it, and so has a done flag.
RoutineBacked ==
    \A h \in Hosts :
        /\ \A g \in Routines :
            LET events == seen[h][routine[h][g].task]
            IN  /\ routine[h][g].proc \in {"exit0", "exitErr", "lost"} => routine[h][g].proc \in events
                /\ routine[h][g].pc \in {"signal", "signalled", "unkilled"} => "kill" \in events
                /\ routine[h][g].pc \in {"read", "write", "writing"} => events # {}
        /\ \A t \in Tasks : disk[h][t] # NoFile => seen[h][t] # {}

\* A task has an empty status only until AssignTask gets to it, or because its
\* done flag says nothing.
BlankExplained ==
    OtherPossible \/ \A h \in Hosts, t \in Tasks :
        local[h][t].known /\ local[h][t].status = "" =>
            \/ loop[h].pc \in {"load", "act"} /\ loop[h].task = t
            \/ seen[h][t] # {}

\* A report that a handler works on is true of the host that sent it.
ReportsEarned ==
    \A s \in Handlers : \A x \in handler[s].todo \cup handler[s].fresh :
        /\ Targeted(handler[s].host, x.id)
        /\ Earned(x.status, seen[handler[s].host][x.id])

\* A task that a handler is going to close has got somewhere on its host.
Closable(h, t) ==
    /\ Targeted(h, t)
    /\ seen[h][t] # {} \/ OtherPossible
    /\ rows[t][h] # <<>> \/ "insertErr" \in Faults

AddedClosable ==
    \A s \in Handlers : \A t \in handler[s].added : Closable(handler[s].host, t)

EarnedInv ==
    /\ LoadsFlag /\ WaitsInCall
    /\ HandedOut /\ UnknownActions /\ KnownTargeted
    /\ StatusBacked /\ RoutineBacked /\ BlankExplained
    /\ ReportsEarned /\ AddedClosable
    /\ ResultEarned /\ ClosedAfterEnd

-----------------------------------------------------------------------------
(* What StartedOnce and OneRow rest on besides: each part under the same    *)
(* conditions as the property it is for.                                    *)

\* Goroutine g of host h works on task t, and the RPC loop carries t out.
WorksOn(h, g, t) == routine[h][g].pc # "none" /\ routine[h][g].task = t
CarriesOut(h, t) == loop[h].pc \in {"load", "act", "start"} /\ loop[h].task = t

\* While nobody edits actions, whoever holds a task holds the action it was posted with.
SameAction ==
    \A h \in Hosts :
        /\ \A a \in cache[h] : a.action = CachedAction(a.id)
        /\ \A a \in snap.m[h] : a.action = CachedAction(a.id)
        /\ \A a \in loop[h].todo : a.action = CachedAction(a.id)
        /\ \A t \in Tasks : local[h][t].known => local[h][t].action = CachedAction(t)

\* So a task is carried out only when it is new: it has not run, no goroutine
\* works on it, and unless its result is about to be loaded there is no done flag.
CarriedOutNew ==
    \A h \in Hosts, t \in Tasks :
        /\ t \in ran[h] => local[h][t].known
        /\ loop[h].pc \in {"act", "start"} /\ loop[h].task = t =>
            /\ t \notin ran[h] /\ disk[h][t] = NoFile
            /\ \A g \in Routines : ~WorksOn(h, g, t)

\* A call nobody gives up on: while a handler works, its agent waits for it.
AgentWaits == \A s \in Handlers : handler[s].busy => s \in conn[handler[s].host]

\* A handler about to insert has found no row, and there still is none.
FreshFirst ==
    \A s \in Handlers : \A x \in handler[s].fresh : rows[x.id][handler[s].host] = <<>>

AtMostOneRow == \A t \in Tasks, h \in Hosts : Len(rows[t][h]) <= 1

\* A handler slot that is free has nothing in it.
FreeIsEmpty ==
    \A s \in Handlers : ~handler[s].busy => handler[s].todo = {} /\ handler[s].fresh = {}

Final == {"success", "killed"}

(* A task has one goroutine at most, which runs its script and writes the     *)
(* status it ended with; nothing else writes the status or the done flag.     *)
RunnerKeeps(r, status, flag) ==
    CASE r.pc \in {"run", "wait"} -> status = "running" /\ flag = NoFile
      [] r.pc = "read"    -> status \in Final /\ flag = NoFile
      [] r.pc = "write"   -> status \in Final /\ flag = NoFile /\ r.status = status
      [] r.pc = "writing" -> status \in Final /\ flag = "" /\ r.status = status
      [] r.pc = "end"     -> status \in Final /\ flag = status
      [] OTHER -> FALSE

OneRunnerAt(h, t) ==
    /\ local[h][t].known => local[h][t].action # "kill"
    /\ ~local[h][t].known => disk[h][t] = NoFile
    /\ loop[h].pc # "load"
    /\ loop[h].pc = "start" /\ loop[h].task = t => local[h][t].status = "running"
    /\ \A g, k \in Routines : WorksOn(h, g, t) /\ WorksOn(h, k, t) => g = k
    /\ \A g \in Routines : WorksOn(h, g, t) =>
        RunnerKeeps(routine[h][g], local[h][t].status, disk[h][t])
    /\ disk[h][t] # NoFile => Writing(h, t) \/ disk[h][t] = local[h][t].status

OneRunner == \A h \in Hosts, t \in Tasks : OneRunnerAt(h, t)

\* A status that stays: the agent has dealt with the task and its script has ended.
Settled(h, t, st) ==
    /\ local[h][t].known /\ ~CarriesOut(h, t)
    /\ st = local[h][t].status /\ st \notin {"running", "killing"}

\* What is reported or recorded is such a status.
RecordsSettled ==
    /\ \A s \in Handlers : \A x \in handler[s].todo \cup handler[s].fresh :
        Settled(handler[s].host, x.id, x.status)
    /\ \A t \in Tasks, h \in Hosts : \A i \in DOMAIN rows[t][h] : Settled(h, t, rows[t][h][i])

OnceInv ==
    /\ FreeIsEmpty
    /\ Changes = {} => SameAction /\ CarriedOutNew
    /\ Faults \cap {"timeout", "agentCrash"} = {} => AgentWaits /\ FreshFirst /\ AtMostOneRow
    /\ Changes = {} /\ Faults \cap {"agentCrash", "fileErr"} = {} => OneRunner /\ RecordsSettled

TaskInv == EarnedInv /\ OnceInv

=============================================================================
