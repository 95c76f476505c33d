---------------------------- MODULE TargetSystem ----------------------------
(***************************************************************************)
(* The agents ask the server every five seconds what to probe              *)
(* (TickerGetTargets, cmd/agent/xprober/target.go): the handler records    *)
(* the agent and then puts its answer together, each under the lock of     *)
(* the catalog; the agent takes over the answer (LocalTargetManager.       *)
(* refresh, which ProbeAgent has in detail) and keeps what it has when     *)
(* there is none.                                                          *)
(*                                                                         *)
(* Time advances by one polling interval.  A call ends within it, with an  *)
(* answer or without one: the timeout of the client is as long.            *)
(***************************************************************************)
EXTENDS TargetCatalog

CONSTANTS
    Supported, \* the protocols in the registry of the agents
    MaxFaults  \* bound: edits of the file, crashes, deaths and lost calls together

ASSUME TargetBounds == MaxFaults \in Nat

VARIABLES
    up,      \* agents that run
    targets, \* LocalTargetManager.targets of each agent: how each target is probed
    call,    \* the call of each agent; groups: the answer
    due,     \* agents whose ticker has fired
    faults,  \* counts edits, crashes, deaths and lost calls (bound)
    deadFor, \* history: for how long an agent has been down
    late,    \* history: agents that have not taken over an answer since the last tick
    steady,  \* history: the targets in every file so far that loads
    hasty    \* history: an answer was given before the server had read a file

historyVars == <<deadFor, late, steady, hasty>>
vars == <<catalogVars, up, targets, call, due, faults, historyVars>>

NoCall == [at |-> "idle", groups |-> {}]

\* targetUID
Uid(type, region, address) == <<type, region, address>>
UidsOf(g) == {Uid(g.type, g.region, x) : x \in g.target}

\* Target.Normalize: what is not set gets the default.
Settled(every) == IF every = "zero" THEN "15s" ELSE every

\* Of the groups with a target the last one counts.
Targets(groups) ==
    LET Naming(u) == {g \in groups : u \in UidsOf(g)}
        Latest(u) == CHOOSE g \in Naming(u) : \A o \in Naming(u) : o.at <= g.at
    IN [u \in UNION {UidsOf(g) : g \in groups} |-> Settled(Latest(u).every)]

\* The targets in an answer.
Desired(groups) == Targets({g \in groups : g.type \in Supported})

FileUids(f) == IF f = Broken THEN {} ELSE DOMAIN Desired(ReadGroups(f))

Init ==
    /\ CatalogInit
    /\ up = Agents
    /\ targets = [a \in Agents |-> << >>]
    /\ call = [a \in Agents |-> NoCall]
    /\ due = Agents
    /\ faults = 0
    /\ deadFor = [a \in Agents |-> 0] /\ late = {}
    /\ steady = IF file = Broken THEN UNION {FileUids(f) : f \in Files} ELSE FileUids(file)
    /\ hasty = FALSE

Fault == faults < MaxFaults /\ faults' = faults + 1

-----------------------------------------------------------------------------
(* A call.                                                                 *)

Ask(a) ==
    /\ a \in up \cap due /\ call[a].at = "idle"
    /\ due' = due \ {a}
    /\ call' = [call EXCEPT ![a].at = "record"]
    /\ UNCHANGED <<catalogVars, up, targets, faults, historyVars>>

HandlerRecords(a) ==
    /\ call[a].at = "record"
    /\ RecordAgent(a)
    /\ call' = [call EXCEPT ![a].at = "answer"]
    /\ UNCHANGED <<up, targets, due, faults, historyVars>>

HandlerAnswers(a) ==
    /\ call[a].at = "answer"
    /\ Forget
    /\ call' = [call EXCEPT ![a] = IF a \in up THEN [at |-> "done", groups |-> GetTargetsByRegion(Region[a])]
                                   ELSE NoCall]
    /\ hasty' = (hasty \/ ~ready)
    /\ UNCHANGED <<up, targets, due, faults, deadFor, late, steady>>

Answered(a) ==
    /\ call[a].at = "done"
    /\ targets' = [targets EXCEPT ![a] = Desired(call[a].groups)]
    /\ call' = [call EXCEPT ![a] = NoCall]
    /\ late' = late \ {a}
    /\ UNCHANGED <<catalogVars, up, due, faults, deadFor, steady, hasty>>

\* The request never arrives, or its answer is lost or late.
CallFails(a) ==
    /\ call[a].at \in {"record", "done"}
    /\ Fault
    /\ call' = [call EXCEPT ![a] = NoCall]
    /\ UNCHANGED <<catalogVars, up, targets, due, historyVars>>

-----------------------------------------------------------------------------
(* What else happens.                                                      *)

\* The process of an agent ends; the handler of its call goes on.
AgentDies(a) ==
    /\ a \in up
    /\ Fault
    /\ up' = up \ {a}
    /\ targets' = [targets EXCEPT ![a] = << >>]
    /\ call' = [call EXCEPT ![a] = IF @.at = "done" THEN NoCall ELSE @]
    /\ deadFor' = [deadFor EXCEPT ![a] = 0]
    /\ UNCHANGED <<catalogVars, due, late, steady, hasty>>

\* It starts again and asks at once.
AgentStarts(a) ==
    /\ a \notin up /\ call[a] = NoCall
    /\ up' = up \cup {a} /\ due' = due \cup {a}
    /\ late' = late \ {a}
    /\ UNCHANGED <<catalogVars, targets, call, faults, deadFor, steady, hasty>>

ServerCrash ==
    /\ Fault
    /\ CatalogRestart
    /\ call' = [a \in Agents |-> NoCall]
    /\ UNCHANGED <<up, targets, due, historyVars>>

Edit(f) ==
    /\ f # file
    /\ Fault
    /\ WriteFile(f)
    /\ steady' = IF f = Broken THEN steady ELSE steady \cap FileUids(f)
    /\ UNCHANGED <<up, targets, call, due, deadFor, late, hasty>>

Refresh ==
    /\ RefreshCatalog
    /\ UNCHANGED <<up, targets, call, due, faults, historyVars>>

\* deadFor counts no further than the properties look.
Tick ==
    /\ due \cap up = {} /\ \A a \in Agents : call[a] = NoCall
    /\ agents' = Older(agents)
    /\ due' = Agents
    /\ deadFor' = [a \in Agents |-> IF a \notin up /\ deadFor[a] < TTL + 1 THEN deadFor[a] + 1 ELSE deadFor[a]]
    /\ late' = Agents
    /\ UNCHANGED <<configured, file, ready, up, targets, call, faults, steady, hasty>>

CallStep(a) == Ask(a) \/ HandlerRecords(a) \/ HandlerAnswers(a) \/ Answered(a)

Next ==
    \/ \E a \in Agents : CallStep(a) \/ CallFails(a) \/ AgentDies(a) \/ AgentStarts(a)
    \/ ServerCrash
    \/ \E f \in Files : Edit(f)
    \/ Refresh
    \/ Tick

(* The tickers fire, calls end and the file is read again and again.  That *)
(* an agent starts again, the file changes or a call fails is not assumed. *)
Fairness ==
    /\ WF_vars(\E a \in Agents : CallStep(a))
    /\ WF_vars(Refresh) /\ WF_vars(Tick)

Spec == Init /\ [][Next]_vars /\ Fairness
-----------------------------------------------------------------------------
(* Properties.                                                             *)

\* The target by which the agents of other regions ping b.
Pinged(b) == Uid("icmp", Region[b], b)

\* No agent ever pings an address of its own region, however the file spells the
\* type and whichever agents are registered.
NoPingAtHome == \A a \in Agents : \A u \in DOMAIN targets[a] : u[1] = "icmp" => u[2] # Region[a]

\* An agent that is gone is pinged for no longer than TTL, by every
\* agent whose last poll was answered, unless the file names its address.
StaleIsBounded == \A a, b \in Agents :
    (/\ a \in up /\ a \notin late
     /\ b \notin up /\ deadFor[b] > TTL
     /\ \A f \in Files : Pinged(b) \notin FileUids(f))
    => Pinged(b) \notin DOMAIN targets[a]

\* A target in every version of the file is never taken from an agent that has it,
\* by files that do not load, lost answers, edits or agents that come and go;
\* only by a server that answers before it has read the file.
KeptWhileConfigured ==
    [][~hasty' => \A a \in up \cap up' : \A u \in DOMAIN targets[a] : u \in steady' => u \in DOMAIN targets'[a]]_vars

\* What an agent should probe: the targets of the file, but for pings of its own
\* region, and every agent of another region that runs.  (Where two groups name a
\* target differently, either may count; the ping between agents comes last.)
Right(a) ==
    LET groups == ReadGroups(file)
        mesh == {Pinged(b) : b \in {b \in up : Region[b] # Region[a]}}
        Hows(u) == {Settled(g.every) : g \in {g \in groups : u \in UidsOf(g)}}
        listed == {u \in UNION {UidsOf(g) : g \in groups} :
                      u[1] \in Supported /\ ~(u[1] = "icmp" /\ u[2] = Region[a])}
    IN /\ DOMAIN targets[a] = listed \cup mesh
       /\ \A u \in listed \cup mesh : targets[a][u] \in (IF u \in mesh THEN {"15s"} ELSE Hows(u))

\* When files, processes and calls are left alone, every agent that runs ends up
\* with what it should probe, and keeps it.
Converges == <>[](file # Broken => \A a \in up : Right(a))
=============================================================================
