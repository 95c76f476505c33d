---------------------------- MODULE ProbeSystem ----------------------------
(***************************************************************************)
(* Probe results end to end: the engine of one agent (ProbeAgent), the     *)
(* loop that pushes its results (TickerPushResults), and the server        *)
(* (ProbeServer).                                                          *)
(*                                                                         *)
(* A push takes everything out of the buffer.  If the call fails or times  *)
(* out, what has not been replaced meanwhile goes back into it; a timeout  *)
(* says nothing of the handler, which may store the results all the same,  *)
(* and later than those of the next push.                                  *)
(***************************************************************************)
EXTENDS ProbeAgent

VARIABLE pusher   \* the goroutine of TickerPushResults; conn: the handler it waits for

PusherStates == [pc : {"idle", "send", "wait", "restore", "ended"},
                 batch : Batches, conn : SUBSET Handlers]
IdlePusher == [pc |-> "idle", batch |-> EmptyBatch, conn |-> {}]

vars == <<serverVars, agentVars, pusher>>

TypeOK == ServerTypeOK /\ AgentTypeOK /\ pusher \in PusherStates

Init == ServerInit /\ AgentInit /\ pusher = IdlePusher

\* pushProbeResults: Results.Drain.  If there was nothing it returns.
Drain ==
    /\ pusher.pc = "idle" /\ results # EmptyBatch
    /\ pusher' = [pusher EXCEPT !.pc = "send", !.batch = results]
    /\ results' = EmptyBatch
    /\ UNCHANGED <<serverVars, engineVars, probeVars, last, late>>

Send(s) ==
    /\ pusher.pc = "send"
    /\ Receive(s, pusher.batch)
    /\ pusher' = [pusher EXCEPT !.pc = "wait", !.conn = {s}]
    /\ UNCHANGED agentVars

\* No connection, or the request is lost.
Unsent ==
    /\ "unsent" \in Faults
    /\ pusher.pc = "send"
    /\ pusher' = [pusher EXCEPT !.pc = "restore"]
    /\ UNCHANGED <<serverVars, agentVars>>

\* The handler replies, to an agent that may have given up.
Replied(s) ==
    /\ Reply(s)
    /\ pusher' = IF s \in pusher.conn THEN IdlePusher ELSE pusher
    /\ UNCHANGED agentVars

\* The call ends with an error.
CallFails == [pusher EXCEPT !.pc = IF @ = "wait" THEN "restore" ELSE @, !.conn = {}]

TimedOut ==
    /\ "timeout" \in Faults
    /\ pusher.pc = "wait"
    /\ pusher' = CallFails
    /\ UNCHANGED <<serverVars, agentVars>>

ServerCrash ==
    /\ ServerRestart
    /\ pusher' = CallFails
    /\ UNCHANGED agentVars

\* Mistakes in Restore a run must notice: older results replace newer ones; nothing is restored.
RestoreOver ==
    /\ pusher.pc = "restore"
    /\ results' = [u \in Uids |-> IF pusher.batch[u] # NoSample THEN pusher.batch[u] ELSE results[u]]
    /\ pusher' = IdlePusher
    /\ UNCHANGED <<serverVars, engineVars, probeVars, last, late>>
RestoreNothing ==
    /\ pusher.pc = "restore"
    /\ pusher' = IdlePusher
    /\ UNCHANGED <<serverVars, agentVars>>

\* resultBuffer.Restore: what is newer stays.
Restore ==
    /\ pusher.pc = "restore"
    /\ results' = [u \in Uids |-> IF results[u] = NoSample THEN pusher.batch[u] ELSE results[u]]
    /\ pusher' = IdlePusher
    /\ UNCHANGED <<serverVars, engineVars, probeVars, last, late>>

\* The loop returns when the agent stops; the buffer is not flushed.
PushLoopReturns ==
    /\ cancelled /\ pusher.pc = "idle"
    /\ pusher' = [pusher EXCEPT !.pc = "ended"]
    /\ UNCHANGED <<serverVars, agentVars>>

ServerStep ==
    \/ \E s \in Handlers : StoreResults(s)
    \/ Publish
    \/ Age(clock)

Next ==
    \/ AgentStep /\ UNCHANGED <<serverVars, pusher>>
    \/ ServerStep /\ UNCHANGED <<agentVars, pusher>>
    \/ Drain \/ Unsent \/ TimedOut \/ Restore \/ PushLoopReturns
    \/ \E s \in Handlers : Send(s) \/ Replied(s)
    \/ ServerCrash

Spec == Init /\ [][Next]_vars

-----------------------------------------------------------------------------
(* Safety.                                                                 *)

Jobs(w) ==
    Cardinality({i \in DOMAIN queue : queue[i] = w}) + Cardinality({p \in Slots : w \in pool[p].lt})

(* Workers probe one at a time, and none is stuck: running is set exactly    *)
(* while a probe of the worker is in the pool - through ticks during a       *)
(* probe, submissions to a closed scheduler, stopped targets and probes      *)
(* without samples.                                                          *)
OneProbeEach == \A w \in Workers : Jobs(w) = (IF lt[w].running THEN 1 ELSE 0)

(* At no time two workers that are not stopped probe the same target: those  *)
(* that run are the ones of the map, or about to be stopped before any new   *)
(* one is started.                                                           *)
OneWorkerPerTarget ==
    /\ \A v, w \in Workers :
        (lt[v].pc \in {"started", "loop"} /\ lt[w].pc \in {"started", "loop"} /\ lt[v].live /\ lt[w].live
            /\ lt[v].uid = lt[w].uid) => v = w
    /\ \A w \in Workers : lt[w].live => (w \in targets[lt[w].uid] \/ w \in manager.stop)

(* When LocalTargetManager.Stop has returned, no probe is under way and none *)
(* can come: StopWait has closed the scheduler first.                        *)
QuietWhenStopped ==
    manager.pc = "stopped" => \A w \in Workers : ~lt[w].live /\ Jobs(w) = 0

(* The last samples stored for a target are not lost, whatever happens to    *)
(* the pushes: they are in the buffer, or in the push under way that will    *)
(* put them back, or the server has stored them.                             *)
NothingLost ==
    \A u \in Uids : last[u] # NoSample =>
        \/ results[u] = last[u]
        \/ /\ results[u] = NoSample
           /\ pusher.pc \in {"send", "wait", "restore"} /\ pusher.batch[u] = last[u]
        \/ last[u] \in received[u]

(* Whatever the server publishes was measured for that target and metric: a  *)
(* failed probe, which has fewer metrics, a stale copy, or a push of several *)
(* targets never puts a value where it does not belong.                      *)
ShownWasMeasured ==
    \A u \in Uids, m \in Metrics : shown[u][m] # 0 =>
        \E s \in measured[u] : s.n = shown[u][m] /\ m \in s.metrics

(* Samples are stored in the order they were measured, but for those of a    *)
(* worker stopped between its look at the context and its Store.             *)
OnlyStoppedWorkersOvertake ==
    [][\A u \in Uids : last'[u].n < last[u].n =>
        \E p \in Slots : pool[p].pc = "store" /\ \E w \in pool[p].lt : ~lt[w].live]_vars

(* A result in the collector gives way to an older one only at the hands of  *)
(* a push the agent has given up, or where a stopped worker has overtaken    *)
(* its successor.                                                            *)
OnlyAbandonedPushesOvertake ==
    [][\A u \in Uids, m \in Metrics :
        (collector'[u][m] # 0 /\ collector'[u][m] < collector[u][m]) =>
            \/ u \in late
            \/ \E s \in Handlers \ pusher.conn : handler[s].pc = "store" /\ handler'[s].pc = "reply"]_vars

-----------------------------------------------------------------------------
(* Progress.                                                               *)

Quiet(A) == A /\ UNCHANGED <<serverVars, pusher>>

(* Goroutines and tickers keep running.  Probes end: each has a timeout.    *)
(* A select with both cases ready picks either, so that the end of a        *)
(* context is noticed (SF) although tickers keep ticking.                   *)
EngineFairness ==
    /\ WF_vars(Quiet(ManagerWorks))
    /\ SF_vars(Quiet(StopAll))
    /\ \A w \in Workers :
        /\ WF_vars(Quiet(FirstProbe(w) \/ Tick(w)))
        /\ SF_vars(Quiet(WorkerReturns(w)))
    /\ \A p \in Slots :
        /\ SF_vars(Quiet(Take(p)))
        /\ WF_vars(Quiet(Probe(p) \/ ProbeEmpty(p) \/ Callback(p) \/ Report(p) \/ Store(p) \/ Release(p)))

(* So does the push loop, except that calls may time out and fail, not all  *)
(* of them; the server handles what it receives, and publishes.             *)
PushFairness ==
    /\ WF_vars(Drain \/ Restore)
    /\ SF_vars(\E s \in Handlers : Send(s))
    /\ SF_vars(\E s \in pusher.conn : Replied(s))
    /\ \A s \in Handlers :
        /\ WF_vars(Replied(s))
        /\ WF_vars(StoreResults(s) /\ UNCHANGED <<agentVars, pusher>>)
    /\ WF_vars(Publish /\ UNCHANGED <<agentVars, pusher>>)
    /\ WF_vars(Age(clock) /\ UNCHANGED <<agentVars, pusher>>)

FairSpec == Spec /\ EngineFairness /\ PushFairness

(* What is stored in the buffer reaches the server, unless newer samples     *)
(* take its place or the agent stops: however often pushes fail or time out. *)
Delivered ==
    \A u \in Uids : \A n \in 1 .. MaxProbes :
        last[u].n = n ~> (last[u].n # n \/ last[u] \in received[u] \/ cancelled)

(* A target is probed again and again, as long as its worker is not stopped: *)
(* no failure leaves it marked as running.                                   *)
KeepsProbing ==
    \A w \in Workers :
        /\ (lt[w].live /\ lt[w].pc \in {"started", "loop"}) ~> (lt[w].running \/ ~lt[w].live)
        /\ lt[w].running ~> ~lt[w].running

(* The agent can be stopped at any time: Stop waits for the pool, the pool   *)
(* for the callbacks, and the workers for neither.                           *)
Stops == cancelled ~> (manager.pc = "stopped" /\ \A w \in Workers : lt[w].pc = "none")

(* A target that is no longer probed disappears from the metrics for good:   *)
(* late callbacks, restored and late pushes cannot keep it there.            *)
Vanishes ==
    \A u \in Uids : (<>[](targets[u] = {})) => <>[](\A m \in Metrics : shown[u][m] = 0)
=============================================================================
