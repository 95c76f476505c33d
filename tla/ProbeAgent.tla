----------------------------- MODULE ProbeAgent -----------------------------
(***************************************************************************)
(* The probe engine of an agent: the target manager and its workers and    *)
(* the result buffer (cmd/agent/xprober/target.go), and the scheduler with *)
(* its worker pool (pkg/prober/scheduler.go).                              *)
(*                                                                         *)
(* The manager keeps one worker (LocalTarget) per target.  The goroutine   *)
(* of a worker submits a probe at every tick unless the last one is still  *)
(* under way; the pool runs the probe and then the callback of the worker, *)
(* which stores the samples in the buffer.  Manager, worker goroutines and *)
(* pool run concurrently: a worker may be stopped and replaced while its   *)
(* probe waits, runs, or is about to store its samples.                    *)
(***************************************************************************)
EXTENDS ProbeServer, Functions, SequencesExt

CONSTANTS
    Options, \* what else sameTarget compares: interval, timeout, options
    Workers, \* bound: LocalTarget objects in use at the same time
    Slots    \* the goroutines of the worker pool

ASSUME OptionsAssumption == Options # {}

WorkerStates == [uid : Uids, options : Options, live : BOOLEAN, running : BOOLEAN,
                 pc : {"none", "created", "started", "loop"}]
SlotStates == [pc : {"idle", "probe", "callback", "report", "store", "release"},
               lt : SUBSET Workers, sample : Samples]
ManagerStates == [pc : {"idle", "apply", "closing", "waiting", "stopped"},
                  stop : SUBSET Workers, start : SUBSET Workers]

VARIABLES
    targets,   \* LocalTargetManager.targets: the worker of a target, if any
    manager,   \* the goroutine of TickerGetTargets: refresh and Stop
    lt,        \* the workers; live: its context is not cancelled
    queue,     \* workers whose probe waits in the pool
    pool,      \* the goroutines of the pool; lt: the worker it serves, if any
    closed,    \* Scheduler.closed
    cancelled, \* the context of the agent is done
    results,   \* the result buffer
    gauge,     \* infraops_agent_probe_value: the probe each metric shows
    clock,     \* the number of probes that have returned samples
    measured,  \* history: the samples measured for each target
    last,      \* history: the last samples stored in the buffer for it
    late       \* history: targets for which they came out of order

engineVars == <<targets, manager, lt, queue, pool, closed, cancelled>>
resultVars == <<results, last, late>>
probeVars == <<gauge, clock, measured>>
agentVars == <<engineVars, resultVars, probeVars>>

AgentTypeOK ==
    /\ targets \in [Uids -> SUBSET Workers]
    /\ manager \in ManagerStates
    /\ lt \in [Workers -> WorkerStates]
    /\ queue \in Seq(Workers)
    /\ pool \in [Slots -> SlotStates]
    /\ closed \in BOOLEAN /\ cancelled \in BOOLEAN
    /\ results \in Batches
    /\ gauge \in Tables
    /\ clock \in 0 .. MaxProbes
    /\ measured \in [Uids -> SUBSET Samples]
    /\ last \in Batches
    /\ late \in SUBSET Uids

NoWorker == [uid |-> CHOOSE u \in Uids : TRUE, options |-> CHOOSE o \in Options : TRUE,
             live |-> FALSE, running |-> FALSE, pc |-> "none"]
IdleSlot == [pc |-> "idle", lt |-> {}, sample |-> NoSample]
IdleManager == [pc |-> "idle", stop |-> {}, start |-> {}]

AgentInit ==
    /\ targets = [u \in Uids |-> {}]
    /\ manager = IdleManager
    /\ lt = [w \in Workers |-> NoWorker]
    /\ queue = <<>>
    /\ pool = [p \in Slots |-> IdleSlot]
    /\ closed = FALSE /\ cancelled = FALSE
    /\ results = EmptyBatch /\ last = EmptyBatch /\ late = {}
    /\ gauge = EmptyTable
    /\ clock = 0
    /\ measured = [u \in Uids |-> {}]

-----------------------------------------------------------------------------
(* The target manager.                                                     *)

\* The probe of w waits in the pool, or the pool is busy with it.
InPool(w) == w \in ToSet(queue) \/ \E p \in Slots : w \in pool[p].lt

Unused == {w \in Workers : lt[w].pc = "none" /\ ~InPool(w)}

(* The critical section of refresh: workers of targets that are gone or    *)
(* have changed leave the map, and new ones enter it.  wanted are the      *)
(* targets of the reply; no reply, no refresh.                             *)
Refresh(wanted) ==
    LET kept(u) == {w \in targets[u] : u \in DOMAIN wanted /\ lt[w].options = wanted[u]}
        missing == {u \in DOMAIN wanted : kept(u) = {}}
    IN  /\ manager.pc = "idle"
        /\ \E new \in Injection(missing, Unused) :
            /\ targets' = [u \in Uids |-> IF u \in missing THEN {new[u]} ELSE kept(u)]
            /\ lt' = [w \in Workers |->
                        IF w \in Range(new)
                        THEN LET u == CHOOSE u \in missing : new[u] = w
                             IN  [uid |-> u, options |-> wanted[u], live |-> TRUE,
                                  running |-> FALSE, pc |-> "created"]
                        ELSE lt[w]]
            /\ manager' = [pc |-> "apply",
                           stop |-> UNION {targets[u] \ kept(u) : u \in Uids},
                           start |-> Range(new)]
        /\ UNCHANGED <<queue, pool, closed, cancelled, resultVars, probeVars>>

\* After the critical section: LocalTarget.Stop for each worker to stop ...
StopWorker(w) ==
    /\ manager.pc = "apply" /\ w \in manager.stop
    /\ lt' = [lt EXCEPT ![w].live = FALSE]
    /\ manager' = [manager EXCEPT !.stop = @ \ {w}]
    /\ UNCHANGED <<targets, queue, pool, closed, cancelled, resultVars, probeVars>>

\* A mistake in StartWorker a run must notice: new workers are started before old ones are stopped.
StartBeforeStop(w) ==
    /\ manager.pc = "apply" /\ w \in manager.start
    /\ lt' = [lt EXCEPT ![w].pc = "started"]
    /\ manager' = [manager EXCEPT !.start = @ \ {w}]
    /\ UNCHANGED <<targets, queue, pool, closed, cancelled, resultVars, probeVars>>

\* ... and then LocalTarget.Start for each new one.
StartWorker(w) ==
    /\ manager.pc = "apply" /\ manager.stop = {} /\ w \in manager.start
    /\ lt' = [lt EXCEPT ![w].pc = "started"]
    /\ manager' = [manager EXCEPT !.start = @ \ {w}]
    /\ UNCHANGED <<targets, queue, pool, closed, cancelled, resultVars, probeVars>>

RefreshDone ==
    /\ manager.pc = "apply" /\ manager.stop = {} /\ manager.start = {}
    /\ manager' = IdleManager
    /\ UNCHANGED <<targets, lt, queue, pool, closed, cancelled, resultVars, probeVars>>

\* The context of the agent is cancelled (external).
Cancel ==
    /\ "shutdown" \in Faults /\ ~cancelled
    /\ cancelled' = TRUE
    /\ UNCHANGED <<targets, manager, lt, queue, pool, closed, resultVars, probeVars>>

\* A mistake in StopAll a run must notice: the contexts of the workers are left alone.
StopAllKeepsContexts ==
    /\ cancelled /\ manager.pc = "idle"
    /\ targets' = [u \in Uids |-> {}]
    /\ manager' = [manager EXCEPT !.pc = "closing"]
    /\ UNCHANGED <<lt, queue, pool, closed, cancelled, resultVars, probeVars>>

\* LocalTargetManager.Stop: cancels the context all workers derive theirs from.
StopAll ==
    /\ cancelled /\ manager.pc = "idle"
    /\ lt' = [w \in Workers |-> [lt[w] EXCEPT !.live = FALSE]]
    /\ targets' = [u \in Uids |-> {}]
    /\ manager' = [manager EXCEPT !.pc = "closing"]
    /\ UNCHANGED <<queue, pool, closed, cancelled, resultVars, probeVars>>

\* A mistake in CloseScheduler a run must notice: submissions go on.
LeaveSchedulerOpen ==
    /\ manager.pc = "closing"
    /\ manager' = [manager EXCEPT !.pc = "waiting"]
    /\ UNCHANGED <<targets, lt, queue, pool, closed, cancelled, resultVars, probeVars>>

\* Scheduler.StopWait: no more submissions ...
CloseScheduler ==
    /\ manager.pc = "closing"
    /\ closed' = TRUE
    /\ manager' = [manager EXCEPT !.pc = "waiting"]
    /\ UNCHANGED <<targets, lt, queue, pool, cancelled, resultVars, probeVars>>

\* ... and it returns when the pool has served what it had.
PoolDrained ==
    /\ manager.pc = "waiting"
    /\ queue = <<>> /\ \A p \in Slots : pool[p].pc = "idle"
    /\ manager' = [manager EXCEPT !.pc = "stopped"]
    /\ UNCHANGED <<targets, lt, queue, pool, closed, cancelled, resultVars, probeVars>>

-----------------------------------------------------------------------------
(* The goroutine of a worker.                                              *)

\* A mistake in Schedule a run must notice: running stays set when the scheduler refuses the probe.
ScheduleStaysRunning(w) ==
    LET submits == ~lt[w].running /\ ~closed
    IN  /\ lt' = [lt EXCEPT ![w] = [lt[w] EXCEPT !.pc = "loop", !.running = TRUE]]
        /\ queue' = IF submits THEN Append(queue, w) ELSE queue
        /\ UNCHANGED <<targets, manager, pool, closed, cancelled, resultVars, probeVars>>

(* schedule: submit a probe unless one is under way.  A closed scheduler   *)
(* refuses it, and running is reset.                                       *)
Schedule(w) ==
    LET submits == ~lt[w].running /\ ~closed
    IN  /\ lt' = [lt EXCEPT ![w] = [lt[w] EXCEPT !.pc = "loop",
                                                 !.running = lt[w].running \/ submits]]
        /\ queue' = IF submits THEN Append(queue, w) ELSE queue
        /\ UNCHANGED <<targets, manager, pool, closed, cancelled, resultVars, probeVars>>

FirstProbe(w) == lt[w].pc = "started" /\ Schedule(w)

\* select may choose the tick although the context is done.
Tick(w) == lt[w].pc = "loop" /\ Schedule(w)

WorkerReturns(w) ==
    /\ lt[w].pc = "loop" /\ ~lt[w].live
    /\ lt' = [lt EXCEPT ![w].pc = "none"]
    /\ UNCHANGED <<targets, manager, queue, pool, closed, cancelled, resultVars, probeVars>>

-----------------------------------------------------------------------------
(* A goroutine of the pool: the probe, then the callback of schedule.      *)

Goto(p, pc) == pool' = [pool EXCEPT ![p].pc = pc]

Take(p) ==
    /\ pool[p].pc = "idle" /\ queue # <<>>
    /\ pool' = [pool EXCEPT ![p] = [pc |-> "probe", lt |-> {Head(queue)}, sample |-> NoSample]]
    /\ queue' = Tail(queue)
    /\ UNCHANGED <<targets, manager, lt, closed, cancelled, resultVars, probeVars>>

\* The probe returns; a failure, and a cancelled or expired context, have samples too.
Probe(p) ==
    /\ pool[p].pc = "probe" /\ clock < MaxProbes
    /\ clock' = clock + 1
    /\ \E ms \in {Metrics, FailMetrics}, w \in pool[p].lt :
        LET s == [n |-> clock + 1, metrics |-> ms]
        IN  /\ pool' = [pool EXCEPT ![p] = [pool[p] EXCEPT !.pc = "callback", !.sample = s]]
            /\ measured' = [measured EXCEPT ![lt[w].uid] = @ \cup {s}]
    /\ UNCHANGED <<targets, manager, lt, queue, closed, cancelled, resultVars, gauge>>

ProbeEmpty(p) ==
    /\ "noSamples" \in Faults
    /\ pool[p].pc = "probe"
    /\ Goto(p, "callback")
    /\ UNCHANGED <<targets, manager, lt, queue, closed, cancelled, resultVars, probeVars>>

\* Mistakes in Callback a run must notice: running is reset before the samples are stored ...
CallbackReleases(p) ==
    /\ pool[p].pc = "callback"
    /\ Goto(p, IF pool[p].sample # NoSample /\ \A w \in pool[p].lt : lt[w].live
               THEN "report" ELSE "release")
    /\ lt' = [w \in Workers |-> IF w \in pool[p].lt THEN [lt[w] EXCEPT !.running = FALSE] ELSE lt[w]]
    /\ UNCHANGED <<targets, manager, queue, closed, cancelled, resultVars, probeVars>>

\* ... and not at all by an early return.
CallbackForgets(p) ==
    /\ pool[p].pc = "callback"
    /\ pool' = [pool EXCEPT ![p] =
                IF pool[p].sample # NoSample /\ \A w \in pool[p].lt : lt[w].live
                THEN [pool[p] EXCEPT !.pc = "report"] ELSE IdleSlot]
    /\ UNCHANGED <<targets, manager, lt, queue, closed, cancelled, resultVars, probeVars>>

\* The callback looks at the context of the worker, once.
Callback(p) ==
    /\ pool[p].pc = "callback"
    /\ Goto(p, IF pool[p].sample # NoSample /\ \A w \in pool[p].lt : lt[w].live
               THEN "report" ELSE "release")
    /\ UNCHANGED <<targets, manager, lt, queue, closed, cancelled, resultVars, probeVars>>

\* LocalProbeValue.Set for the samples.
Report(p) ==
    /\ pool[p].pc = "report"
    /\ \E w \in pool[p].lt : gauge' = [gauge EXCEPT ![lt[w].uid] = Put(gauge[lt[w].uid], pool[p].sample)]
    /\ Goto(p, "store")
    /\ UNCHANGED <<targets, manager, lt, queue, closed, cancelled, resultVars, clock, measured>>

\* resultBuffer.Store.
Store(p) ==
    /\ pool[p].pc = "store"
    /\ \E w \in pool[p].lt :
        LET u == lt[w].uid
        IN  /\ results' = [results EXCEPT ![u] = pool[p].sample]
            /\ last' = [last EXCEPT ![u] = pool[p].sample]
            /\ late' = IF pool[p].sample.n < last[u].n THEN late \cup {u} ELSE late
    /\ Goto(p, "release")
    /\ UNCHANGED <<targets, manager, lt, queue, closed, cancelled, probeVars>>

\* The deferred running.Store(false).
Release(p) ==
    /\ pool[p].pc = "release"
    /\ lt' = [w \in Workers |-> IF w \in pool[p].lt THEN [lt[w] EXCEPT !.running = FALSE] ELSE lt[w]]
    /\ pool' = [pool EXCEPT ![p] = IdleSlot]
    /\ UNCHANGED <<targets, manager, queue, closed, cancelled, resultVars, probeVars>>

-----------------------------------------------------------------------------
ManagerWorks ==
    \/ \E w \in Workers : StopWorker(w) \/ StartWorker(w)
    \/ RefreshDone \/ StopAll \/ CloseScheduler \/ PoolDrained

\* What GetTargets may answer: any targets with any settings (external).
Replies == UNION {[us -> Options] : us \in SUBSET Uids}

PoolStep(p) ==
    \/ Take(p) \/ Probe(p) \/ ProbeEmpty(p)
    \/ Callback(p) \/ Report(p) \/ Store(p) \/ Release(p)

AgentStep ==
    \/ \E wanted \in Replies : Refresh(wanted)
    \/ ManagerWorks \/ Cancel
    \/ \E w \in Workers : FirstProbe(w) \/ Tick(w) \/ WorkerReturns(w)
    \/ \E p \in Slots : PoolStep(p)
=============================================================================
