---------------------------- MODULE ProbeProofs ----------------------------
(***************************************************************************)
(* Proofs about ProbeSystem, for every set of targets, options, workers,   *)
(* pool goroutines, metrics and handlers, every number of probes and every *)
(* choice of faults: types, and that ProbeInv is inductive.  So results    *)
(* are not lost, only measured values are published, no target has two     *)
(* workers, no worker two probes, Stop leaves nothing behind, and nothing  *)
(* overtakes what it should not.                                           *)
(*                                                                         *)
(* First what each part of the system does to the data the invariant is    *)
(* about, then each part of the invariant from that.                       *)
(***************************************************************************)
EXTENDS ProbeInvariant, FiniteSetTheorems, TLAPS

-----------------------------------------------------------------------------
(* Type correctness.                                                       *)

Numbers == 0 .. MaxProbes

LEMMA NoSampleTyped == NoSample \in Samples /\ 0 \in Numbers
  BY MaxProbesAssumption DEF NoSample, Samples, Numbers

LEMMA EmptyTyped ==
    /\ EmptyBatch \in Batches
    /\ EmptyTable \in Tables
    /\ FreeHandler \in HandlerStates
    /\ IdlePublisher \in PublisherStates
    /\ IdlePusher \in PusherStates
  <1>1. EmptyBatch \in Batches
    BY NoSampleTyped DEF EmptyBatch, Batches
  <1>2. EmptyTable \in Tables
    BY NoSampleTyped DEF EmptyTable, Tables, Numbers
  <1> QED
    BY <1>1, <1>2 DEF FreeHandler, HandlerStates, IdlePublisher, PublisherStates,
       IdlePusher, PusherStates

LEMMA IdleTyped ==
    /\ NoWorker \in WorkerStates
    /\ IdleSlot \in SlotStates
    /\ IdleManager \in ManagerStates
  <1>1. (CHOOSE u \in Uids : TRUE) \in Uids
    BY UidsAssumption
  <1>2. (CHOOSE o \in Options : TRUE) \in Options
    BY OptionsAssumption
  <1> QED
    BY <1>1, <1>2, NoSampleTyped DEF NoWorker, WorkerStates, IdleSlot, SlotStates,
       IdleManager, ManagerStates

\* A sample put into a table keeps its type.
LEMMA PutTyped ==
    ASSUME NEW shown0 \in [Metrics -> Numbers], NEW s \in Samples
    PROVE  Put(shown0, s) \in [Metrics -> Numbers]
  BY DEF Put, Samples, Numbers

LEMMA InitType == Init => TypeOK
  <1> SUFFICES ASSUME Init PROVE TypeOK
    OBVIOUS
  <1>1. ServerTypeOK
    BY EmptyTyped, NoSampleTyped DEF Init, ServerInit, ServerTypeOK, Numbers
  <1>2. AgentTypeOK
    <2>1. queue \in Seq(Workers)
      BY DEF Init, AgentInit
    <2> QED
      BY <2>1, EmptyTyped, IdleTyped, NoSampleTyped DEF Init, AgentInit, AgentTypeOK, Numbers
  <1> QED
    BY <1>1, <1>2, EmptyTyped DEF Init, TypeOK

\* The steps of the server.
LEMMA ReceiveType ==
    ASSUME ServerTypeOK, NEW s \in Handlers, NEW b \in Batches, Receive(s, b)
    PROVE  ServerTypeOK'
  <1> DEFINE r == [pc |-> "store", batch |-> b]
  <1>1. r \in HandlerStates
    BY DEF HandlerStates
  <1>2. handler' = [handler EXCEPT ![s] = r]
    BY DEF Receive
  <1> HIDE DEF r
  <1> QED
    BY <1>1, <1>2 DEF Receive, ServerTypeOK

LEMMA StoreResultsType ==
    ASSUME ServerTypeOK, NEW s \in Handlers, StoreResults(s)
    PROVE  ServerTypeOK'
  <1>1. handler[s] \in HandlerStates /\ collector \in Tables
    BY DEF ServerTypeOK
  <1>2. handler[s].batch \in Batches
    BY <1>1 DEF HandlerStates
  <1>3. collector' \in Tables
    <2>1. \A u \in Uids : collector[u] \in [Metrics -> Numbers] /\ handler[s].batch[u] \in Samples
      BY <1>1, <1>2 DEF Tables, Batches, Numbers
    <2>2. \A u \in Uids : Put(collector[u], handler[s].batch[u]) \in [Metrics -> Numbers]
      BY <2>1, PutTyped
    <2> QED
      BY <2>2 DEF StoreResults, Tables, Numbers
  <1>4. received' \in [Uids -> SUBSET Samples]
    BY <1>2 DEF StoreResults, ServerTypeOK, Batches
  <1>5. handler' \in [Handlers -> HandlerStates]
    <2> DEFINE r == [handler[s] EXCEPT !.pc = "reply"]
    <2>1. r \in HandlerStates
      BY <1>1 DEF HandlerStates
    <2>2. handler' = [handler EXCEPT ![s] = r]
      BY DEF StoreResults
    <2> HIDE DEF r
    <2> QED
      BY <2>1, <2>2 DEF ServerTypeOK
  <1> QED
    BY <1>3, <1>4, <1>5 DEF StoreResults, ServerTypeOK

LEMMA ReplyType ==
    ASSUME ServerTypeOK, NEW s \in Handlers, Reply(s)
    PROVE  ServerTypeOK'
  BY EmptyTyped DEF Reply, ServerTypeOK

LEMMA AgeType ==
    ASSUME ServerTypeOK, clock \in Numbers, Age(clock)
    PROVE  ServerTypeOK'
  BY MaxProbesAssumption DEF Age, ServerTypeOK, Numbers

LEMMA PublishType ==
    ASSUME ServerTypeOK, Publish
    PROVE  ServerTypeOK'
  <1>1. /\ collector \in Tables /\ shown \in Tables /\ horizon \in Numbers
        /\ publisher \in PublisherStates
    BY DEF ServerTypeOK, Numbers
  <1>2. publisher.current \in Tables
    BY <1>1 DEF PublisherStates
  <1>3. CASE PublishCopy
    <2>1. Fresh(collector) \in Tables
      BY <1>1, NoSampleTyped DEF Fresh, Tables, Numbers
    <2> DEFINE r == [pc |-> "reset", current |-> Fresh(collector), left |-> Uids]
    <2>2. r \in PublisherStates
      BY <2>1 DEF PublisherStates
    <2>3. publisher' = r
      BY <1>3 DEF PublishCopy
    <2> HIDE DEF r
    <2> QED
      BY <1>3, <2>1, <2>2, <2>3 DEF PublishCopy, ServerTypeOK
  <1>4. CASE PublishReset
    <2>1. [publisher EXCEPT !.pc = "set"] \in PublisherStates
      BY <1>1 DEF PublisherStates
    <2> QED
      BY <1>4, <2>1, EmptyTyped DEF PublishReset, ServerTypeOK
  <1>5. ASSUME NEW u \in Uids, PublishSet(u) PROVE ServerTypeOK'
    <2>1. [publisher EXCEPT !.left = @ \ {u}] \in PublisherStates
      BY <1>1 DEF PublisherStates
    <2>2. shown' \in Tables
      <3> DEFINE r == [m \in Metrics |->
                    IF publisher.current[u][m] # 0 THEN publisher.current[u][m] ELSE shown[u][m]]
      <3>1. r \in [Metrics -> Numbers]
        BY <1>1, <1>2 DEF Tables, Numbers
      <3>2. shown' = [shown EXCEPT ![u] = r]
        BY <1>5 DEF PublishSet
      <3> HIDE DEF r
      <3> QED
        BY <1>1, <3>1, <3>2 DEF Tables, Numbers
    <2> QED
      BY <1>5, <2>1, <2>2 DEF PublishSet, ServerTypeOK
  <1>6. CASE PublishDone
    BY <1>6, EmptyTyped DEF PublishDone, ServerTypeOK
  <1> QED
    BY <1>3, <1>4, <1>5, <1>6 DEF Publish

LEMMA ServerRestartType ==
    ASSUME ServerTypeOK, ServerRestart
    PROVE  ServerTypeOK'
  BY EmptyTyped DEF ServerRestart, ServerTypeOK

\* The steps of the target manager.
LEMMA RefreshType ==
    ASSUME AgentTypeOK, NEW wanted \in Replies, Refresh(wanted)
    PROVE  AgentTypeOK'
  <1> DEFINE kept(u) == {w \in targets[u] : u \in DOMAIN wanted /\ lt[w].options = wanted[u]}
             missing == {u \in DOMAIN wanted : kept(u) = {}}
  <1>1. PICK us \in SUBSET Uids : wanted \in [us -> Options]
    BY DEF Replies
  <1>2. PICK new \in Injection(missing, Unused) :
            /\ targets' = [u \in Uids |-> IF u \in missing THEN {new[u]} ELSE kept(u)]
            /\ lt' = [w \in Workers |->
                        IF w \in Range(new)
                        THEN LET u == CHOOSE u \in missing : new[u] = w
                             IN  [uid |-> u, options |-> wanted[u], live |-> TRUE,
                                  running |-> FALSE, pc |-> "created"]
                        ELSE lt[w]]
            /\ manager' = [pc |-> "apply",
                           stop |-> UNION {targets[u] \ kept(u) : u \in Uids},
                           start |-> Range(new)]
    BY DEF Refresh
  <1>3. missing \subseteq Uids /\ \A u \in missing : wanted[u] \in Options
    BY <1>1
  <1>4. new \in [missing -> Unused] /\ Unused \subseteq Workers
    BY DEF Injection, Unused
  <1>5. \A u \in Uids : kept(u) \subseteq targets[u] /\ targets[u] \subseteq Workers
    BY DEF AgentTypeOK
  <1> HIDE DEF kept, missing
  <1>6. targets' \in [Uids -> SUBSET Workers]
    BY <1>2, <1>4, <1>5
  <1>7. Range(new) \subseteq Workers
    BY <1>4 DEF Range
  <1>8. manager' \in ManagerStates
    BY <1>2, <1>5, <1>7 DEF ManagerStates
  <1>9. lt' \in [Workers -> WorkerStates]
    <2> SUFFICES ASSUME NEW w \in Workers PROVE lt'[w] \in WorkerStates
      BY <1>2
    <2>1. CASE w \in Range(new)
      <3> DEFINE v == CHOOSE u \in missing : new[u] = w
      <3>1. v \in missing
        BY <1>4, <2>1 DEF Range
      <3>2. lt'[w] = [uid |-> v, options |-> wanted[v], live |-> TRUE,
                      running |-> FALSE, pc |-> "created"]
        BY <1>2, <2>1
      <3> HIDE DEF v
      <3> QED
        BY <1>3, <3>1, <3>2 DEF WorkerStates
    <2>2. CASE w \notin Range(new)
      BY <1>2, <2>2 DEF AgentTypeOK
    <2> QED
      BY <2>1, <2>2
  <1> QED
    BY <1>6, <1>8, <1>9 DEF Refresh, AgentTypeOK, resultVars, probeVars

\* A worker that changes one field keeps its type.
LEMMA WorkerTyped ==
    ASSUME AgentTypeOK, NEW w \in Workers
    PROVE  /\ lt[w] \in WorkerStates
           /\ \A b \in BOOLEAN : [lt[w] EXCEPT !.live = b] \in WorkerStates
           /\ \A b \in BOOLEAN : [lt[w] EXCEPT !.running = b] \in WorkerStates
           /\ \A pc \in {"none", "created", "started", "loop"} : [lt[w] EXCEPT !.pc = pc] \in WorkerStates
  BY DEF AgentTypeOK, WorkerStates

LEMMA ManagerType ==
    ASSUME AgentTypeOK, ManagerWorks \/ Cancel
    PROVE  AgentTypeOK'
  <1>0. manager \in ManagerStates
    BY DEF AgentTypeOK
  <1>1. ASSUME NEW w \in Workers, StopWorker(w) PROVE AgentTypeOK'
    <2>1. [manager EXCEPT !.stop = @ \ {w}] \in ManagerStates
      BY <1>0 DEF ManagerStates
    <2>2. lt' = [lt EXCEPT ![w] = [lt[w] EXCEPT !.live = FALSE]]
      BY <1>1 DEF StopWorker
    <2>3. lt' \in [Workers -> WorkerStates]
      BY <2>2, WorkerTyped DEF AgentTypeOK
    <2> QED
      BY <1>1, <2>1, <2>3 DEF StopWorker, AgentTypeOK, resultVars, probeVars
  <1>2. ASSUME NEW w \in Workers, StartWorker(w) PROVE AgentTypeOK'
    <2>1. [manager EXCEPT !.start = @ \ {w}] \in ManagerStates
      BY <1>0 DEF ManagerStates
    <2>2. lt' = [lt EXCEPT ![w] = [lt[w] EXCEPT !.pc = "started"]]
      BY <1>2 DEF StartWorker
    <2>3. lt' \in [Workers -> WorkerStates]
      BY <2>2, WorkerTyped DEF AgentTypeOK
    <2> QED
      BY <1>2, <2>1, <2>3 DEF StartWorker, AgentTypeOK, resultVars, probeVars
  <1>3. CASE RefreshDone
    BY <1>3, IdleTyped DEF RefreshDone, AgentTypeOK, resultVars, probeVars
  <1>4. CASE StopAll
    <2>1. [manager EXCEPT !.pc = "closing"] \in ManagerStates
      BY <1>0 DEF ManagerStates
    <2>2. lt' \in [Workers -> WorkerStates]
      BY <1>4, WorkerTyped DEF StopAll
    <2>3. targets' \in [Uids -> SUBSET Workers]
      BY <1>4 DEF StopAll
    <2> QED
      BY <1>4, <2>1, <2>2, <2>3 DEF StopAll, AgentTypeOK, resultVars, probeVars
  <1>5. CASE CloseScheduler
    <2>1. [manager EXCEPT !.pc = "waiting"] \in ManagerStates
      BY <1>0 DEF ManagerStates
    <2> QED
      BY <1>5, <2>1 DEF CloseScheduler, AgentTypeOK, resultVars, probeVars
  <1>6. CASE PoolDrained
    <2>1. [manager EXCEPT !.pc = "stopped"] \in ManagerStates
      BY <1>0 DEF ManagerStates
    <2> QED
      BY <1>6, <2>1 DEF PoolDrained, AgentTypeOK, resultVars, probeVars
  <1>7. CASE Cancel
    BY <1>7 DEF Cancel, AgentTypeOK, resultVars, probeVars
  <1> QED
    BY <1>1, <1>2, <1>3, <1>4, <1>5, <1>6, <1>7 DEF ManagerWorks

\* The steps of the goroutine of a worker.
LEMMA ScheduleType ==
    ASSUME AgentTypeOK, NEW w \in Workers, Schedule(w)
    PROVE  AgentTypeOK'
  <1> DEFINE submits == ~lt[w].running /\ ~closed
             r == [lt[w] EXCEPT !.pc = "loop", !.running = lt[w].running \/ submits]
  <1>1. lt[w] \in WorkerStates /\ (lt[w].running \/ submits) \in BOOLEAN
    BY WorkerTyped
  <1>2. r \in WorkerStates
    BY <1>1 DEF WorkerStates
  <1>3. lt' = [lt EXCEPT ![w] = r]
    BY DEF Schedule
  <1>4. queue' = IF submits THEN Append(queue, w) ELSE queue
    BY DEF Schedule
  <1> HIDE DEF r, submits
  <1>5. lt' \in [Workers -> WorkerStates]
    BY <1>2, <1>3 DEF AgentTypeOK
  <1>6. queue' \in Seq(Workers)
    BY <1>4 DEF AgentTypeOK
  <1> QED
    BY <1>5, <1>6 DEF Schedule, AgentTypeOK, resultVars, probeVars

LEMMA WorkerType ==
    ASSUME AgentTypeOK, NEW w \in Workers, FirstProbe(w) \/ Tick(w) \/ WorkerReturns(w)
    PROVE  AgentTypeOK'
  <1>1. CASE Schedule(w)
    BY <1>1, ScheduleType
  <1>2. CASE WorkerReturns(w)
    <2>1. lt' = [lt EXCEPT ![w] = [lt[w] EXCEPT !.pc = "none"]]
      BY <1>2 DEF WorkerReturns
    <2>2. lt' \in [Workers -> WorkerStates]
      BY <2>1, WorkerTyped DEF AgentTypeOK
    <2> QED
      BY <1>2, <2>2 DEF WorkerReturns, AgentTypeOK, resultVars, probeVars
  <1> QED
    BY <1>1, <1>2 DEF FirstProbe, Tick

\* The steps of a goroutine of the pool.
LEMMA SlotTyped ==
    ASSUME AgentTypeOK, NEW p \in Slots
    PROVE  /\ pool[p] \in SlotStates
           /\ pool[p].sample \in Samples
           /\ \A w \in pool[p].lt : w \in Workers /\ lt[w].uid \in Uids
           /\ \A pc \in {"callback", "report", "store", "release"} : [pool[p] EXCEPT !.pc = pc] \in SlotStates
  BY DEF AgentTypeOK, SlotStates, WorkerStates

LEMMA GotoType ==
    ASSUME AgentTypeOK, NEW p \in Slots, NEW pc \in {"callback", "report", "store", "release"}, Goto(p, pc)
    PROVE  pool' \in [Slots -> SlotStates]
  <1>1. pool' = [pool EXCEPT ![p] = [pool[p] EXCEPT !.pc = pc]]
    BY DEF Goto
  <1> QED
    BY <1>1, SlotTyped DEF AgentTypeOK

LEMMA TakeType ==
    ASSUME AgentTypeOK, NEW p \in Slots, Take(p)
    PROVE  AgentTypeOK'
  <1> DEFINE r == [pc |-> "probe", lt |-> {Head(queue)}, sample |-> NoSample]
  <1>1. queue \in Seq(Workers) /\ queue # <<>>
    BY DEF Take, AgentTypeOK
  <1>2. Head(queue) \in Workers /\ Tail(queue) \in Seq(Workers)
    BY <1>1
  <1>3. r \in SlotStates
    BY <1>2, NoSampleTyped DEF SlotStates
  <1>4. pool' = [pool EXCEPT ![p] = r] /\ queue' = Tail(queue)
    BY DEF Take
  <1> HIDE DEF r
  <1> QED
    BY <1>2, <1>3, <1>4 DEF Take, AgentTypeOK, resultVars, probeVars

LEMMA ProbeType ==
    ASSUME AgentTypeOK, NEW p \in Slots, Probe(p)
    PROVE  AgentTypeOK'
  <1>1. PICK ms \in {Metrics, FailMetrics} : \E w \in pool[p].lt :
            LET s == [n |-> clock + 1, metrics |-> ms]
            IN  /\ pool' = [pool EXCEPT ![p] = [pool[p] EXCEPT !.pc = "callback", !.sample = s]]
                /\ measured' = [measured EXCEPT ![lt[w].uid] = @ \cup {s}]
    BY DEF Probe
  <1> DEFINE s == [n |-> clock + 1, metrics |-> ms]
             r == [pool[p] EXCEPT !.pc = "callback", !.sample = s]
  <1>2. PICK w \in pool[p].lt :
            /\ pool' = [pool EXCEPT ![p] = r]
            /\ measured' = [measured EXCEPT ![lt[w].uid] = @ \cup {s}]
    BY <1>1
  <1>3. clock + 1 \in Numbers
    BY MaxProbesAssumption DEF Probe, AgentTypeOK, Numbers
  <1>4. s \in Samples
    BY <1>3, MetricsAssumption DEF Samples, Numbers
  <1> HIDE DEF s
  <1>5. r \in SlotStates
    BY <1>4, SlotTyped DEF SlotStates
  <1> HIDE DEF r
  <1>6. pool' \in [Slots -> SlotStates]
    BY <1>2, <1>5 DEF AgentTypeOK
  <1>7. measured' \in [Uids -> SUBSET Samples]
    BY <1>2, <1>4 DEF AgentTypeOK
  <1>8. clock' \in 0 .. MaxProbes
    BY <1>3 DEF Probe, Numbers
  <1> QED
    BY <1>6, <1>7, <1>8 DEF Probe, AgentTypeOK, resultVars

LEMMA CallbackType ==
    ASSUME AgentTypeOK, NEW p \in Slots, ProbeEmpty(p) \/ Callback(p)
    PROVE  AgentTypeOK'
  <1>1. pool' \in [Slots -> SlotStates]
    BY GotoType DEF ProbeEmpty, Callback
  <1> QED
    BY <1>1 DEF ProbeEmpty, Callback, AgentTypeOK, resultVars, probeVars

LEMMA ReportType ==
    ASSUME AgentTypeOK, NEW p \in Slots, Report(p)
    PROVE  AgentTypeOK'
  <1>1. PICK w \in pool[p].lt : gauge' = [gauge EXCEPT ![lt[w].uid] = Put(gauge[lt[w].uid], pool[p].sample)]
    BY DEF Report
  <1>2. lt[w].uid \in Uids
    BY SlotTyped
  <1>3. gauge[lt[w].uid] \in [Metrics -> Numbers]
    BY <1>2 DEF AgentTypeOK, Tables, Numbers
  <1>4. Put(gauge[lt[w].uid], pool[p].sample) \in [Metrics -> Numbers]
    BY <1>3, PutTyped, SlotTyped
  <1>5. gauge' \in Tables
    BY <1>1, <1>4 DEF AgentTypeOK, Tables, Numbers
  <1>6. pool' \in [Slots -> SlotStates]
    BY GotoType DEF Report
  <1> QED
    BY <1>5, <1>6 DEF Report, AgentTypeOK, resultVars

LEMMA StoreType ==
    ASSUME AgentTypeOK, NEW p \in Slots, Store(p)
    PROVE  AgentTypeOK'
  <1>1. PICK w \in pool[p].lt :
            /\ results' = [results EXCEPT ![lt[w].uid] = pool[p].sample]
            /\ last' = [last EXCEPT ![lt[w].uid] = pool[p].sample]
            /\ late' = IF pool[p].sample.n < last[lt[w].uid].n THEN late \cup {lt[w].uid} ELSE late
    BY DEF Store
  <1>2. lt[w].uid \in Uids /\ pool[p].sample \in Samples
    BY SlotTyped
  <1>3. results' \in Batches /\ last' \in Batches /\ late' \in SUBSET Uids
    BY <1>1, <1>2 DEF AgentTypeOK, Batches
  <1>4. pool' \in [Slots -> SlotStates]
    BY GotoType DEF Store
  <1> QED
    BY <1>3, <1>4 DEF Store, AgentTypeOK, probeVars

LEMMA ReleaseType ==
    ASSUME AgentTypeOK, NEW p \in Slots, Release(p)
    PROVE  AgentTypeOK'
  <1>1. lt' \in [Workers -> WorkerStates]
    BY WorkerTyped DEF Release
  <1>2. pool' \in [Slots -> SlotStates]
    BY IdleTyped DEF Release, AgentTypeOK
  <1> QED
    BY <1>1, <1>2 DEF Release, AgentTypeOK, resultVars, probeVars

LEMMA AgentType ==
    ASSUME AgentTypeOK, AgentStep
    PROVE  AgentTypeOK'
  <1>1. ASSUME NEW p \in Slots, PoolStep(p) PROVE AgentTypeOK'
    BY <1>1, TakeType, ProbeType, CallbackType, ReportType, StoreType, ReleaseType DEF PoolStep
  <1> QED
    BY <1>1, RefreshType, ManagerType, WorkerType DEF AgentStep

\* The steps of the push loop, with the buffer.
LEMMA PushType ==
    ASSUME TypeOK, Drain \/ Restore \/ Unsent \/ PushLoopReturns
    PROVE  TypeOK'
  <1>1. results \in Batches /\ pusher \in PusherStates
    BY DEF TypeOK, AgentTypeOK
  <1>2. pusher.batch \in Batches
    BY <1>1 DEF PusherStates
  <1>3. CASE Drain
    <2> DEFINE r == [pusher EXCEPT !.pc = "send", !.batch = results]
    <2>1. r \in PusherStates
      BY <1>1 DEF PusherStates
    <2>2. pusher' = r
      BY <1>3 DEF Drain
    <2> HIDE DEF r
    <2> QED
      BY <1>3, <2>1, <2>2, EmptyTyped DEF Drain, TypeOK, ServerTypeOK, AgentTypeOK, serverVars, engineVars, probeVars
  <1>4. CASE Restore
    <2>1. results' \in Batches
      BY <1>1, <1>2, <1>4 DEF Restore, Batches
    <2> QED
      BY <1>4, <2>1, EmptyTyped DEF Restore, TypeOK, ServerTypeOK, AgentTypeOK, serverVars, engineVars, probeVars
  <1>5. CASE Unsent \/ PushLoopReturns
    <2>1. \A pc \in {"restore", "ended"} : [pusher EXCEPT !.pc = pc] \in PusherStates
      BY <1>1 DEF PusherStates
    <2>2. pusher' \in PusherStates
      BY <1>5, <2>1 DEF Unsent, PushLoopReturns
    <2> QED
      BY <1>5, <2>2 DEF Unsent, PushLoopReturns, TypeOK, ServerTypeOK, AgentTypeOK,
         serverVars, agentVars, engineVars, resultVars, probeVars
  <1> QED
    BY <1>3, <1>4, <1>5

LEMMA CallType ==
    ASSUME TypeOK,
           (\E s \in Handlers : Send(s) \/ Replied(s)) \/ TimedOut \/ ServerCrash
    PROVE  TypeOK'
  <1>1. pusher \in PusherStates /\ ServerTypeOK
    BY DEF TypeOK
  <1>2. pusher.batch \in Batches
    BY <1>1 DEF PusherStates
  <1>3. CallFails \in PusherStates
    BY <1>1 DEF CallFails, PusherStates
  <1>4. ASSUME NEW s \in Handlers, Send(s) PROVE ServerTypeOK' /\ pusher' \in PusherStates
    <2>1. [pusher EXCEPT !.pc = "wait", !.conn = {s}] \in PusherStates
      BY <1>1 DEF PusherStates
    <2> QED
      BY <1>1, <1>2, <1>4, <2>1, ReceiveType DEF Send
  <1>5. ASSUME NEW s \in Handlers, Replied(s) PROVE ServerTypeOK' /\ pusher' \in PusherStates
    BY <1>1, <1>5, ReplyType, EmptyTyped DEF Replied
  <1>6. ASSUME TimedOut PROVE ServerTypeOK' /\ pusher' \in PusherStates
    BY <1>1, <1>3, <1>6 DEF TimedOut, ServerTypeOK, serverVars
  <1>7. ASSUME ServerCrash PROVE ServerTypeOK' /\ pusher' \in PusherStates
    BY <1>1, <1>3, <1>7, ServerRestartType DEF ServerCrash
  <1>8. UNCHANGED agentVars
    BY DEF Send, Replied, TimedOut, ServerCrash
  <1>9. AgentTypeOK'
    BY <1>8 DEF TypeOK, AgentTypeOK, agentVars, engineVars, resultVars, probeVars
  <1>10. ServerTypeOK' /\ pusher' \in PusherStates
    BY <1>4, <1>5, <1>6, <1>7
  <1> QED
    BY <1>9, <1>10 DEF TypeOK

LEMMA NextType == TypeOK /\ [Next]_vars => TypeOK'
  <1> SUFFICES ASSUME TypeOK, [Next]_vars PROVE TypeOK'
    OBVIOUS
  <1>1. CASE AgentStep /\ UNCHANGED <<serverVars, pusher>>
    BY <1>1, AgentType DEF TypeOK, ServerTypeOK, serverVars
  <1>2. CASE ServerStep /\ UNCHANGED <<agentVars, pusher>>
    <2>1. clock \in Numbers
      BY DEF TypeOK, AgentTypeOK, Numbers
    <2>2. ServerTypeOK'
      BY <1>2, <2>1, StoreResultsType, PublishType, AgeType DEF TypeOK, ServerStep
    <2> QED
      BY <1>2, <2>2 DEF TypeOK, AgentTypeOK, agentVars, engineVars, resultVars, probeVars
  <1>3. CASE UNCHANGED vars
    BY <1>3 DEF TypeOK, ServerTypeOK, AgentTypeOK, vars, serverVars, agentVars, engineVars,
       resultVars, probeVars
  <1> QED
    BY <1>1, <1>2, <1>3, PushType, CallType DEF Next

(* Every variable of the probe engine, the push loop and the server keeps    *)
(* its type, for all values of the constants.                                *)
THEOREM ProbeTypeCorrect == Spec => []TypeOK
  BY InitType, NextType, PTL DEF Spec


-----------------------------------------------------------------------------
(* Nothing is lost.                                                        *)

\* Only StoreResults adds to what the server has received.
LEMMA ReceivedGrows ==
    ASSUME TypeOK, [Next]_vars
    PROVE  \A u \in Uids : received[u] \subseteq received'[u]
  <1>1. ASSUME NEW s \in Handlers, StoreResults(s)
        PROVE  \A u \in Uids : received[u] \subseteq received'[u]
    BY <1>1 DEF StoreResults
  <1>2. CASE UNCHANGED received
    BY <1>2
  <1> QED
    BY <1>1, <1>2 DEF Next, ServerStep, Publish, PublishCopy, PublishReset, PublishDone, PublishSet,
       Age, Drain, Unsent, TimedOut, Restore, PushLoopReturns, Send, Receive, Replied, Reply,
       ServerCrash, ServerRestart, vars, serverVars

\* A handler is left alone, freed, given the batch of the push, or stores what it has.
LEMMA HandlerFlow ==
    ASSUME TypeOK, [Next]_vars, NEW s \in Handlers
    PROVE  \/ handler'[s] = handler[s]
           \/ handler'[s] = FreeHandler
           \/ handler'[s] = [pc |-> "store", batch |-> pusher.batch]
           \/ /\ handler[s].pc = "store"
              /\ handler'[s].pc = "reply"
              /\ handler'[s].batch = handler[s].batch
              /\ \A u \in Uids : handler[s].batch[u] \in received'[u] \cup {NoSample}
  <1>1. handler \in [Handlers -> HandlerStates]
    BY DEF TypeOK, ServerTypeOK
  <1>2. ASSUME NEW t \in Handlers, StoreResults(t)
        PROVE  \/ handler'[s] = handler[s]
               \/ /\ handler[s].pc = "store"
                  /\ handler'[s].pc = "reply"
                  /\ handler'[s].batch = handler[s].batch
                  /\ \A u \in Uids : handler[s].batch[u] \in received'[u] \cup {NoSample}
    <2>1. CASE s = t
      <3>1. handler'[s] = [handler[s] EXCEPT !.pc = "reply"] /\ handler[s] \in HandlerStates
        BY <1>1, <1>2, <2>1 DEF StoreResults
      <3>2. \A u \in Uids : handler[s].batch[u] \in received'[u] \cup {NoSample}
        BY <1>2, <2>1 DEF StoreResults
      <3>3. handler[s].pc = "store"
        BY <1>2, <2>1 DEF StoreResults
      <3> QED
        BY <3>1, <3>2, <3>3 DEF HandlerStates
    <2>2. CASE s # t
      BY <1>1, <1>2, <2>2 DEF StoreResults
    <2> QED
      BY <2>1, <2>2
  <1>3. ASSUME NEW t \in Handlers, Send(t)
        PROVE  handler'[s] = handler[s] \/ handler'[s] = [pc |-> "store", batch |-> pusher.batch]
    BY <1>1, <1>3 DEF Send, Receive
  <1>4. ASSUME NEW t \in Handlers, Replied(t)
        PROVE  handler'[s] = handler[s] \/ handler'[s] = FreeHandler
    BY <1>1, <1>4 DEF Replied, Reply
  <1>5. CASE ServerCrash
    BY <1>5 DEF ServerCrash, ServerRestart
  <1>6. CASE UNCHANGED handler
    BY <1>6
  <1> QED
    BY <1>2, <1>3, <1>4, <1>5, <1>6 DEF Next, ServerStep, Publish, PublishCopy, PublishReset,
       PublishDone, PublishSet, Age, Drain, Unsent, TimedOut, Restore, PushLoopReturns, vars, serverVars

LEMMA RepliesStoredStep ==
    ASSUME TypeOK, RepliesStored, [Next]_vars
    PROVE  RepliesStored'
  <1> SUFFICES ASSUME NEW s \in Handlers, handler'[s].pc = "reply", NEW u \in Uids
               PROVE  handler'[s].batch[u] \in received'[u] \cup {NoSample}
    BY DEF RepliesStored
  <1>1. received[u] \subseteq received'[u]
    BY ReceivedGrows
  <1>2. CASE handler'[s] = handler[s]
    BY <1>1, <1>2 DEF RepliesStored
  <1>3. handler'[s] # FreeHandler /\ handler'[s] # [pc |-> "store", batch |-> pusher.batch]
    BY DEF FreeHandler
  <1> QED
    BY <1>2, <1>3, HandlerFlow

LEMMA ConnServedStep ==
    ASSUME TypeOK, ConnServed, [Next]_vars
    PROVE  ConnServed'
  <1> SUFFICES ASSUME NEW s \in pusher'.conn
               PROVE  /\ pusher'.pc = "wait"
                      /\ handler'[s].pc \in {"store", "reply"}
                      /\ handler'[s].batch = pusher'.batch
    BY DEF ConnServed
  <1>1. pusher \in PusherStates /\ handler \in [Handlers -> HandlerStates]
    BY DEF TypeOK, ServerTypeOK
  <1>2. CASE UNCHANGED <<pusher, handler>>
    BY <1>2 DEF ConnServed
  <1>3. ASSUME NEW t \in Handlers, StoreResults(t), UNCHANGED pusher
        PROVE  /\ pusher'.pc = "wait"
               /\ handler'[s].pc \in {"store", "reply"}
               /\ handler'[s].batch = pusher'.batch
    <2>1. s \in Handlers /\ s \in pusher.conn
      BY <1>1, <1>3 DEF PusherStates
    <2>2. handler'[s].batch = handler[s].batch /\ handler'[s].pc \in {handler[s].pc, "reply"}
      <3>1. handler' = [handler EXCEPT ![t] = [handler[t] EXCEPT !.pc = "reply"]]
        BY <1>3 DEF StoreResults
      <3>2. handler[t] \in HandlerStates
        BY <1>1
      <3> QED
        BY <1>1, <2>1, <3>1, <3>2 DEF HandlerStates
    <2> QED
      BY <1>3, <2>1, <2>2 DEF ConnServed
  <1>4. ASSUME NEW t \in Handlers, Send(t)
        PROVE  /\ pusher'.pc = "wait"
               /\ handler'[s].pc \in {"store", "reply"}
               /\ handler'[s].batch = pusher'.batch
    <2>1. /\ pusher'.pc = "wait" /\ pusher'.conn = {t} /\ pusher'.batch = pusher.batch
          /\ handler'[t] = [pc |-> "store", batch |-> pusher.batch]
      BY <1>1, <1>4 DEF Send, Receive, PusherStates
    <2> QED
      BY <2>1
  <1>5. ASSUME NEW t \in Handlers, Replied(t)
        PROVE  /\ pusher'.pc = "wait"
               /\ handler'[s].pc \in {"store", "reply"}
               /\ handler'[s].batch = pusher'.batch
    <2>1. t \notin pusher.conn /\ pusher' = pusher
      BY <1>5 DEF Replied, IdlePusher
    <2>2. s \in pusher.conn /\ s # t
      BY <2>1
    <2>3. handler'[s] = handler[s]
      BY <1>1, <1>5, <2>2 DEF Replied, Reply, PusherStates
    <2> QED
      BY <2>1, <2>2, <2>3 DEF ConnServed
  <1>6. CASE TimedOut \/ ServerCrash
    BY <1>1, <1>6 DEF TimedOut, ServerCrash, CallFails, PusherStates
  <1>7. CASE Drain \/ Unsent \/ PushLoopReturns
    <2>1. pusher'.conn = pusher.conn
      BY <1>1, <1>7 DEF Drain, Unsent, PushLoopReturns, PusherStates
    <2>2. pusher.pc # "wait"
      BY <1>7 DEF Drain, Unsent, PushLoopReturns
    <2> QED
      BY <2>1, <2>2 DEF ConnServed
  <1>8. CASE Restore
    BY <1>8 DEF Restore, IdlePusher
  <1> QED
    BY <1>2, <1>3, <1>4, <1>5, <1>6, <1>7, <1>8 DEF Next, ServerStep, Publish, PublishCopy,
       PublishReset, PublishDone, PublishSet, Age, vars, serverVars

\* Whatever else the agent does, only Store touches the buffer.
LEMMA BufferFlow ==
    ASSUME AgentStep
    PROVE  (\E p \in Slots : Store(p)) \/ UNCHANGED <<results, last, late>>
  BY DEF AgentStep, Refresh, ManagerWorks, StopWorker, StartWorker, RefreshDone, StopAll,
     CloseScheduler, PoolDrained, Cancel, FirstProbe, Tick, Schedule, WorkerReturns, PoolStep, Take,
     Probe, ProbeEmpty, Callback, Report, Release, resultVars

LEMMA NothingLostStep ==
    ASSUME TypeOK, ConnServed, RepliesStored, NothingLost, [Next]_vars
    PROVE  NothingLost'
  <1> SUFFICES ASSUME NEW u \in Uids, last'[u] # NoSample
               PROVE  \/ results'[u] = last'[u]
                      \/ /\ results'[u] = NoSample
                         /\ pusher'.pc \in {"send", "wait", "restore"} /\ pusher'.batch[u] = last'[u]
                      \/ last'[u] \in received'[u]
    BY DEF NothingLost
  <1>1. received[u] \subseteq received'[u]
    BY ReceivedGrows
  <1>2. /\ pusher \in PusherStates /\ results \in Batches /\ last \in Batches
    BY DEF TypeOK, AgentTypeOK
  <1>3. last[u] # NoSample =>
            \/ results[u] = last[u]
            \/ /\ results[u] = NoSample
               /\ pusher.pc \in {"send", "wait", "restore"} /\ pusher.batch[u] = last[u]
            \/ last[u] \in received[u]
    BY DEF NothingLost
  <1>4. CASE UNCHANGED <<results, last, pusher>>
    BY <1>1, <1>3, <1>4
  <1>5. ASSUME NEW p \in Slots, Store(p), UNCHANGED pusher
        PROVE  \/ results'[u] = last'[u]
               \/ UNCHANGED <<results[u], last[u], pusher>>
    BY <1>2, <1>5 DEF Store, Batches
  <1>6. CASE Drain
    <2>1. /\ pusher.pc = "idle" /\ results' = EmptyBatch /\ last' = last
          /\ pusher'.pc = "send" /\ pusher'.batch = results
      BY <1>2, <1>6 DEF Drain, PusherStates
    <2>2. results'[u] = NoSample
      BY <2>1 DEF EmptyBatch
    <2> QED
      BY <1>1, <1>3, <2>1, <2>2
  <1>7. CASE Restore
    <2>1. /\ last' = last
          /\ results'[u] = IF results[u] = NoSample THEN pusher.batch[u] ELSE results[u]
      BY <1>7 DEF Restore
    <2> QED
      BY <1>1, <1>3, <2>1
  <1>8. ASSUME UNCHANGED <<results, last>>,
               pusher'.batch = pusher.batch, pusher'.pc \in {"send", "wait", "restore"}
        PROVE  \/ results'[u] = last'[u]
               \/ /\ results'[u] = NoSample
                  /\ pusher'.pc \in {"send", "wait", "restore"} /\ pusher'.batch[u] = last'[u]
               \/ last'[u] \in received'[u]
    BY <1>1, <1>3, <1>8
  <1>9. ASSUME NEW s \in Handlers, Send(s)
        PROVE  UNCHANGED <<results, last>> /\ pusher'.batch = pusher.batch /\ pusher'.pc = "wait"
    BY <1>2, <1>9 DEF Send, PusherStates, agentVars, resultVars
  <1>10. ASSUME Unsent
         PROVE  UNCHANGED <<results, last>> /\ pusher'.batch = pusher.batch /\ pusher'.pc = "restore"
    BY <1>2, <1>10 DEF Unsent, PusherStates, agentVars, resultVars
  <1>11. ASSUME TimedOut \/ ServerCrash
         PROVE  /\ UNCHANGED <<results, last>> /\ pusher'.batch = pusher.batch
                /\ pusher'.pc = IF pusher.pc = "wait" THEN "restore" ELSE pusher.pc
    BY <1>2, <1>11 DEF TimedOut, ServerCrash, CallFails, PusherStates, agentVars, resultVars
  <1>12. ASSUME NEW s \in Handlers, Replied(s)
         PROVE  \/ results'[u] = last'[u]
                \/ /\ results'[u] = NoSample
                   /\ pusher'.pc \in {"send", "wait", "restore"} /\ pusher'.batch[u] = last'[u]
                \/ last'[u] \in received'[u]
    <2>1. UNCHANGED <<results, last>> /\ handler[s].pc = "reply"
      BY <1>12 DEF Replied, Reply, agentVars, resultVars
    <2>2. CASE s \notin pusher.conn
      BY <1>4, <1>12, <2>1, <2>2 DEF Replied
    <2>3. CASE s \in pusher.conn
      <3>1. pusher.batch[u] \in received[u] \cup {NoSample}
        BY <2>1, <2>3 DEF ConnServed, RepliesStored
      <3> QED
        BY <1>1, <1>3, <2>1, <3>1
    <2> QED
      BY <2>2, <2>3
  <1>13. CASE PushLoopReturns
    BY <1>1, <1>3, <1>13 DEF PushLoopReturns, agentVars, resultVars
  <1>14. CASE AgentStep /\ UNCHANGED <<serverVars, pusher>>
    BY <1>1, <1>3, <1>4, <1>5, <1>14, BufferFlow
  <1>15. CASE ServerStep /\ UNCHANGED <<agentVars, pusher>>
    BY <1>4, <1>15 DEF agentVars, resultVars
  <1>16. CASE UNCHANGED vars
    BY <1>4, <1>16 DEF vars, agentVars, resultVars
  <1>17. CASE TimedOut \/ ServerCrash
    BY <1>1, <1>3, <1>11, <1>17
  <1>18. CASE Unsent
    BY <1>8, <1>10, <1>18
  <1>19. ASSUME NEW s \in Handlers, Send(s)
         PROVE  \/ results'[u] = last'[u]
                \/ /\ results'[u] = NoSample
                   /\ pusher'.pc \in {"send", "wait", "restore"} /\ pusher'.batch[u] = last'[u]
                \/ last'[u] \in received'[u]
    BY <1>8, <1>9, <1>19
  <1> QED
    BY <1>6, <1>7, <1>12, <1>13, <1>14, <1>15, <1>16, <1>17, <1>18, <1>19 DEF Next

LEMMA LostInit == Init => ConnServed /\ RepliesStored /\ NothingLost
  BY DEF Init, ServerInit, AgentInit, ConnServed, RepliesStored, NothingLost, IdlePusher,
     FreeHandler, EmptyBatch

(* The last samples stored for a target stay in the buffer, in the push      *)
(* under way, or reach the server, for every number of targets, handlers and *)
(* probes and every choice of faults.                                        *)
THEOREM ResultsNotLost == Spec => []NothingLost
  <1> DEFINE Inv == TypeOK /\ ConnServed /\ RepliesStored /\ NothingLost
  <1>1. Init => Inv
    BY InitType, LostInit
  <1>2. Inv /\ [Next]_vars => Inv'
    BY NextType, ConnServedStep, RepliesStoredStep, NothingLostStep
  <1> QED
    BY <1>1, <1>2, PTL DEF Spec

-----------------------------------------------------------------------------
(* Only measured values are shown.                                         *)

LEMMA MeasuredGrows ==
    ASSUME TypeOK, [Next]_vars
    PROVE  \A u \in Uids : measured[u] \subseteq measured'[u]
  <1>1. ASSUME NEW p \in Slots, Probe(p)
        PROVE  \A u \in Uids : measured[u] \subseteq measured'[u]
    <2>1. PICK ms \in {Metrics, FailMetrics} : \E w \in pool[p].lt :
              measured' = [measured EXCEPT ![lt[w].uid] = @ \cup {[n |-> clock + 1, metrics |-> ms]}]
      BY <1>1 DEF Probe
    <2> QED
      BY <2>1 DEF TypeOK, AgentTypeOK
  <1>2. CASE UNCHANGED measured
    BY <1>2
  <1>3. ASSUME AgentStep PROVE (\E p \in Slots : Probe(p)) \/ UNCHANGED measured
    BY <1>3 DEF AgentStep, Refresh, ManagerWorks, StopWorker, StartWorker, RefreshDone, StopAll,
       CloseScheduler, PoolDrained, Cancel, FirstProbe, Tick, Schedule, WorkerReturns, PoolStep, Take,
       ProbeEmpty, Callback, Report, Store, Release, probeVars
  <1> QED
    BY <1>1, <1>2, <1>3 DEF Next, Drain, Unsent, TimedOut, Restore, PushLoopReturns, Send, Replied,
       ServerCrash, vars, agentVars, probeVars

\* The worker a probe belongs to is not given to another target.
LEMMA UidKept ==
    ASSUME TypeOK, [Next]_vars, NEW w \in Workers, InPool(w)
    PROVE  lt'[w].uid = lt[w].uid
  <1>1. lt \in [Workers -> WorkerStates]
    BY DEF TypeOK, AgentTypeOK
  <1>2. ASSUME NEW wanted \in Replies, Refresh(wanted) PROVE lt'[w].uid = lt[w].uid
    <2> DEFINE missing == {u \in DOMAIN wanted :
                  {v \in targets[u] : u \in DOMAIN wanted /\ lt[v].options = wanted[u]} = {}}
    <2>1. PICK new \in Injection(missing, Unused) :
              lt' = [v \in Workers |->
                        IF v \in Range(new)
                        THEN LET u == CHOOSE u \in missing : new[u] = v
                             IN  [uid |-> u, options |-> wanted[u], live |-> TRUE,
                                  running |-> FALSE, pc |-> "created"]
                        ELSE lt[v]]
      BY <1>2 DEF Refresh
    <2> HIDE DEF missing
    <2>2. w \notin Unused
      BY DEF Unused
    <2>3. w \notin Range(new)
      BY <2>2 DEF Injection, Range
    <2> QED
      BY <2>1, <2>3
  <1>3. ASSUME NEW v \in Workers, StopWorker(v) \/ StartWorker(v) \/ WorkerReturns(v)
        PROVE  lt'[w].uid = lt[w].uid
    BY <1>1, <1>3 DEF StopWorker, StartWorker, WorkerReturns, WorkerStates
  <1>4. CASE StopAll
    BY <1>1, <1>4 DEF StopAll, WorkerStates
  <1>5. ASSUME NEW v \in Workers, FirstProbe(v) \/ Tick(v) PROVE lt'[w].uid = lt[w].uid
    <2> DEFINE r == [lt[v] EXCEPT !.pc = "loop",
                                  !.running = lt[v].running \/ (~lt[v].running /\ ~closed)]
    <2>1. lt' = [lt EXCEPT ![v] = r]
      BY <1>5 DEF FirstProbe, Tick, Schedule
    <2>2. r.uid = lt[v].uid
      BY <1>1 DEF WorkerStates
    <2> HIDE DEF r
    <2> QED
      BY <1>1, <2>1, <2>2
  <1>6. ASSUME NEW p \in Slots, Release(p) PROVE lt'[w].uid = lt[w].uid
    BY <1>1, <1>6 DEF Release, WorkerStates
  <1>7. CASE UNCHANGED lt
    BY <1>7
  <1>8. ASSUME NEW p \in Slots, PoolStep(p) PROVE lt'[w].uid = lt[w].uid
    BY <1>6, <1>7, <1>8 DEF PoolStep, Take, Probe, ProbeEmpty, Callback, Report, Store
  <1>9. CASE AgentStep
    BY <1>2, <1>3, <1>4, <1>5, <1>7, <1>8, <1>9 DEF AgentStep, ManagerWorks, RefreshDone,
       CloseScheduler, PoolDrained, Cancel
  <1> QED
    BY <1>7, <1>9 DEF Next, Drain, Unsent, TimedOut, Restore, PushLoopReturns, Send, Replied,
       ServerCrash, vars, agentVars, engineVars

\* Only the steps of the pool change what its goroutines serve.
LEMMA PoolChanges ==
    ASSUME [Next]_vars
    PROVE  (\E p \in Slots : PoolStep(p)) \/ UNCHANGED pool
  BY DEF Next, AgentStep, Refresh, ManagerWorks, StopWorker, StartWorker, RefreshDone, StopAll,
     CloseScheduler, PoolDrained, Cancel, FirstProbe, Tick, Schedule, WorkerReturns,
     Drain, Unsent, TimedOut, Restore, PushLoopReturns, Send, Replied, ServerCrash,
     vars, agentVars, engineVars

\* A goroutine of the pool goes on with its worker and its sample, unless a probe starts or ends.
LEMMA PoolFlow ==
    ASSUME TypeOK, OneServed, [Next]_vars, NEW q \in Slots
    PROVE  \/ pool'[q].lt = pool[q].lt /\ pool'[q].sample = pool[q].sample
           \/ pool'[q].lt = {} \/ \E w \in Workers : pool'[q].lt = {w} /\ pool'[q].sample = NoSample
           \/ /\ pool'[q].lt = pool[q].lt
              /\ \A w \in pool[q].lt : pool'[q].sample \in measured'[lt[w].uid]
  <1>1. /\ pool \in [Slots -> SlotStates] /\ queue \in Seq(Workers)
        /\ lt \in [Workers -> WorkerStates] /\ measured \in [Uids -> SUBSET Samples]
    BY DEF TypeOK, AgentTypeOK
  <1>2. CASE UNCHANGED pool
    BY <1>2
  <1>3. ASSUME NEW p \in Slots, NEW r, pool' = [pool EXCEPT ![p] = r],
               r.lt = pool[p].lt, r.sample = pool[p].sample
        PROVE  pool'[q].lt = pool[q].lt /\ pool'[q].sample = pool[q].sample
    BY <1>1, <1>3
  <1>4. ASSUME NEW p \in Slots, NEW pc, Goto(p, pc)
        PROVE  pool'[q].lt = pool[q].lt /\ pool'[q].sample = pool[q].sample
    BY <1>1, <1>3, <1>4 DEF Goto, SlotStates
  <1>5. ASSUME NEW p \in Slots, ProbeEmpty(p) \/ Callback(p) \/ Report(p) \/ Store(p)
        PROVE  pool'[q].lt = pool[q].lt /\ pool'[q].sample = pool[q].sample
    BY <1>4, <1>5 DEF ProbeEmpty, Callback, Report, Store
  <1>6. ASSUME NEW p \in Slots, Release(p)
        PROVE  \/ pool'[q].lt = pool[q].lt /\ pool'[q].sample = pool[q].sample
               \/ pool'[q].lt = {}
    BY <1>1, <1>6 DEF Release, IdleSlot
  <1>7. ASSUME NEW p \in Slots, Take(p)
        PROVE  \/ pool'[q].lt = pool[q].lt /\ pool'[q].sample = pool[q].sample
               \/ \E w \in Workers : pool'[q].lt = {w} /\ pool'[q].sample = NoSample
    <2>1. Head(queue) \in Workers
      BY <1>1, <1>7 DEF Take
    <2> QED
      BY <1>1, <1>7, <2>1 DEF Take
  <1>8. ASSUME NEW p \in Slots, Probe(p)
        PROVE  \/ pool'[q].lt = pool[q].lt /\ pool'[q].sample = pool[q].sample
               \/ /\ pool'[q].lt = pool[q].lt
                  /\ \A w \in pool[q].lt : pool'[q].sample \in measured'[lt[w].uid]
    <2>1. PICK ms \in {Metrics, FailMetrics}, w \in pool[p].lt :
            /\ pool' = [pool EXCEPT ![p] = [pool[p] EXCEPT !.pc = "callback",
                                                 !.sample = [n |-> clock + 1, metrics |-> ms]]]
            /\ measured' = [measured EXCEPT ![lt[w].uid] = @ \cup {[n |-> clock + 1, metrics |-> ms]}]
      BY <1>8 DEF Probe
    <2> DEFINE s == [n |-> clock + 1, metrics |-> ms]
               r == [pool[p] EXCEPT !.pc = "callback", !.sample = s]
    <2>2. w \in Workers /\ lt[w].uid \in Uids
      BY <1>1 DEF SlotStates, WorkerStates
    <2> HIDE DEF s
    <2>3. pool' = [pool EXCEPT ![p] = r] /\ measured' = [measured EXCEPT ![lt[w].uid] = @ \cup {s}]
      BY <2>1 DEF s
    <2>4. r.lt = pool[p].lt /\ r.sample = s
      BY <1>1 DEF SlotStates
    <2>5. s \in measured'[lt[w].uid]
      BY <1>1, <2>2, <2>3
    <2>6. \A v \in pool[p].lt : v = w
      BY DEF OneServed
    <2> HIDE DEF r
    <2> QED
      BY <1>1, <2>3, <2>4, <2>5, <2>6
  <1>9. ASSUME NEW p \in Slots, PoolStep(p)
        PROVE  \/ pool'[q].lt = pool[q].lt /\ pool'[q].sample = pool[q].sample
               \/ pool'[q].lt = {} \/ \E w \in Workers : pool'[q].lt = {w} /\ pool'[q].sample = NoSample
               \/ /\ pool'[q].lt = pool[q].lt
                  /\ \A w \in pool[q].lt : pool'[q].sample \in measured'[lt[w].uid]
    <2>1. CASE Take(p)
      BY <1>7, <2>1
    <2>2. CASE Probe(p)
      BY <1>8, <2>2
    <2>3. CASE ProbeEmpty(p) \/ Callback(p) \/ Report(p) \/ Store(p)
      BY <1>5, <2>3
    <2>4. CASE Release(p)
      BY <1>6, <2>4
    <2> QED
      BY <1>9, <2>1, <2>2, <2>3, <2>4 DEF PoolStep
  <1> QED
    BY <1>2, <1>9, PoolChanges

LEMMA OneServedStep ==
    ASSUME TypeOK, OneServed, [Next]_vars
    PROVE  OneServed'
  <1> SUFFICES ASSUME NEW q \in Slots PROVE \A v, w \in pool'[q].lt : v = w
    BY DEF OneServed
  <1> QED
    BY PoolFlow DEF OneServed

\* A batch in the buffer or on its way is as measured as what it was made of.
LEMMA BatchKept ==
    ASSUME TypeOK, [Next]_vars, NEW batch, BatchMeasured(batch)
    PROVE  \A u \in Uids : batch[u] \in measured'[u] \cup {NoSample}
  BY MeasuredGrows DEF BatchMeasured

LEMMA SlotsMeasuredStep ==
    ASSUME TypeOK, OneServed, SamplesMeasured, [Next]_vars, NEW q \in Slots, NEW w \in pool'[q].lt
    PROVE  pool'[q].sample \in measured'[lt'[w].uid] \cup {NoSample}
  <1>1. CASE w \in pool[q].lt
    <2>1. w \in Workers /\ lt[w].uid \in Uids
      BY <1>1, SlotTyped DEF TypeOK
    <2>2. lt'[w].uid = lt[w].uid
      BY <1>1, <2>1, UidKept DEF InPool
    <2>3. pool[q].sample \in measured'[lt[w].uid] \cup {NoSample}
      BY <1>1, <2>1, MeasuredGrows DEF SamplesMeasured
    <2> QED
      BY <1>1, <2>2, <2>3, PoolFlow
  <1>2. CASE w \notin pool[q].lt
    BY <1>2, PoolFlow
  <1> QED
    BY <1>1, <1>2

\* The buffer: what Store adds comes from the pool, what Restore adds from the push.
LEMMA ResultsMeasuredStep ==
    ASSUME TypeOK, SamplesMeasured, [Next]_vars, NEW u \in Uids
    PROVE  results'[u] \in measured'[u] \cup {NoSample}
  <1>1. results \in Batches
    BY DEF TypeOK, AgentTypeOK
  <1>2. results[u] \in measured'[u] \cup {NoSample} /\ pusher.batch[u] \in measured'[u] \cup {NoSample}
    BY BatchKept DEF SamplesMeasured
  <1>3. ASSUME NEW p \in Slots, Store(p) PROVE results'[u] \in measured'[u] \cup {NoSample}
    <2>1. PICK w \in pool[p].lt : results' = [results EXCEPT ![lt[w].uid] = pool[p].sample]
      BY <1>3 DEF Store
    <2>2. CASE lt[w].uid = u
      <3>1. pool[p].sample \in measured[u] \cup {NoSample}
        BY <2>2 DEF SamplesMeasured
      <3>2. pool[p].sample \in measured'[u] \cup {NoSample}
        BY <3>1, MeasuredGrows
      <3> QED
        BY <1>1, <2>1, <2>2, <3>2 DEF Batches
    <2>3. CASE lt[w].uid # u
      BY <1>1, <1>2, <2>1, <2>3 DEF Batches
    <2> QED
      BY <2>2, <2>3
  <1>4. CASE Drain
    BY <1>4 DEF Drain, EmptyBatch
  <1>5. CASE Restore
    BY <1>2, <1>5 DEF Restore
  <1>6. CASE UNCHANGED results
    BY <1>2, <1>6
  <1> QED
    BY <1>3, <1>4, <1>5, <1>6, BufferFlow DEF Next, Unsent, TimedOut, PushLoopReturns, Send, Replied,
       ServerCrash, vars, agentVars, resultVars

\* The batch of the push: it is taken out of the buffer.
LEMMA PushMeasuredStep ==
    ASSUME TypeOK, SamplesMeasured, [Next]_vars, NEW u \in Uids
    PROVE  pusher'.batch[u] \in measured'[u] \cup {NoSample}
  <1>1. pusher \in PusherStates
    BY DEF TypeOK
  <1>2. results[u] \in measured'[u] \cup {NoSample} /\ pusher.batch[u] \in measured'[u] \cup {NoSample}
    BY BatchKept DEF SamplesMeasured
  <1>3. CASE Drain
    <2>1. pusher'.batch = results
      BY <1>1, <1>3 DEF Drain, PusherStates
    <2> QED
      BY <1>2, <2>1
  <1>4. CASE UNCHANGED pusher
    BY <1>2, <1>4
  <1>5. ASSUME pusher' = IdlePusher PROVE pusher'.batch[u] \in measured'[u] \cup {NoSample}
    BY <1>5 DEF IdlePusher, EmptyBatch
  <1>6. CASE Unsent \/ TimedOut \/ ServerCrash \/ PushLoopReturns
    <2>1. pusher'.batch = pusher.batch
      BY <1>1, <1>6 DEF Unsent, TimedOut, ServerCrash, PushLoopReturns, CallFails, PusherStates
    <2> QED
      BY <1>2, <2>1
  <1>7. ASSUME NEW s \in Handlers, Send(s) PROVE pusher'.batch[u] \in measured'[u] \cup {NoSample}
    <2>1. pusher'.batch = pusher.batch
      BY <1>1, <1>7 DEF Send, PusherStates
    <2> QED
      BY <1>2, <2>1
  <1>8. ASSUME NEW s \in Handlers, Replied(s) PROVE pusher' = IdlePusher \/ UNCHANGED pusher
    BY <1>8 DEF Replied
  <1> QED
    BY <1>3, <1>4, <1>5, <1>6, <1>7, <1>8 DEF Next, Restore, vars

LEMMA SamplesMeasuredStep ==
    ASSUME TypeOK, OneServed, SamplesMeasured, [Next]_vars
    PROVE  SamplesMeasured'
  <1>1. ASSUME NEW s \in Handlers, NEW u \in Uids
        PROVE  handler'[s].batch[u] \in measured'[u] \cup {NoSample}
    <2>1. /\ handler[s].batch[u] \in measured'[u] \cup {NoSample}
          /\ pusher.batch[u] \in measured'[u] \cup {NoSample}
      BY BatchKept DEF SamplesMeasured
    <2>2. handler'[s].batch \in {handler[s].batch, pusher.batch, EmptyBatch}
      BY HandlerFlow DEF FreeHandler
    <2> QED
      BY <2>1, <2>2 DEF EmptyBatch
  <1> QED
    BY <1>1, SlotsMeasuredStep, ResultsMeasuredStep, PushMeasuredStep DEF SamplesMeasured, BatchMeasured

\* A measurement stays measured.
LEMMA TableKept ==
    ASSUME TypeOK, [Next]_vars, NEW table, TableMeasured(table)
    PROVE  \A u \in Uids, m \in Metrics : table[u][m] # 0 =>
               \E s \in measured'[u] : s.n = table[u][m] /\ m \in s.metrics
  BY MeasuredGrows DEF TableMeasured

TablesMeasured ==
    /\ TableMeasured(collector)
    /\ TableMeasured(publisher.current)
    /\ TableMeasured(shown)

LEMMA CollectorMeasuredStep ==
    ASSUME TypeOK, SamplesMeasured, TableMeasured(collector), [Next]_vars,
           NEW u \in Uids, NEW m \in Metrics, collector'[u][m] # 0
    PROVE  \E s \in measured'[u] : s.n = collector'[u][m] /\ m \in s.metrics
  <1>1. collector[u][m] # 0 => \E s \in measured'[u] : s.n = collector[u][m] /\ m \in s.metrics
    BY TableKept
  <1>2. CASE collector'[u][m] = collector[u][m]
    BY <1>1, <1>2
  <1>3. ASSUME NEW t \in Handlers, StoreResults(t)
        PROVE  \E s \in measured'[u] : s.n = collector'[u][m] /\ m \in s.metrics
    <2>1. collector'[u][m] =
            IF m \in handler[t].batch[u].metrics THEN handler[t].batch[u].n ELSE collector[u][m]
      BY <1>3 DEF StoreResults, Put
    <2>2. CASE m \in handler[t].batch[u].metrics
      <3>1. handler[t].batch[u] \in measured[u] \cup {NoSample}
        BY DEF SamplesMeasured, BatchMeasured
      <3>2. handler[t].batch[u] # NoSample
        BY <2>2 DEF NoSample
      <3> QED
        BY <2>1, <2>2, <3>1, <3>2, MeasuredGrows
    <2> QED
      BY <1>1, <2>1, <2>2
  <1>4. CASE PublishCopy
    BY <1>1, <1>4 DEF PublishCopy, Fresh
  <1>5. CASE ServerCrash
    BY <1>5 DEF ServerCrash, ServerRestart, EmptyTable
  <1> QED
    BY <1>2, <1>3, <1>4, <1>5 DEF Next, ServerStep, Publish, PublishReset, PublishDone, PublishSet,
       Age, Drain, Unsent, TimedOut, Restore, PushLoopReturns, Send, Receive, Replied, Reply, vars, serverVars

LEMMA CopyMeasuredStep ==
    ASSUME TypeOK, TablesMeasured, [Next]_vars,
           NEW u \in Uids, NEW m \in Metrics, publisher'.current[u][m] # 0
    PROVE  \E s \in measured'[u] : s.n = publisher'.current[u][m] /\ m \in s.metrics
  <1>0. publisher \in PublisherStates
    BY DEF TypeOK, ServerTypeOK
  <1>1. publisher.current[u][m] # 0 =>
            \E s \in measured'[u] : s.n = publisher.current[u][m] /\ m \in s.metrics
    BY TableKept DEF TablesMeasured
  <1>2. collector[u][m] # 0 => \E s \in measured'[u] : s.n = collector[u][m] /\ m \in s.metrics
    BY TableKept DEF TablesMeasured
  <1>3. CASE publisher'.current = publisher.current
    BY <1>1, <1>3
  <1>4. CASE PublishCopy
    <2>1. publisher'.current = Fresh(collector)
      BY <1>4 DEF PublishCopy
    <2> QED
      BY <1>2, <2>1 DEF Fresh
  <1>5. ASSUME PublishReset \/ \E v \in Uids : PublishSet(v) PROVE publisher'.current = publisher.current
    BY <1>0, <1>5 DEF PublishReset, PublishSet, PublisherStates
  <1>6. CASE PublishDone \/ ServerCrash
    BY <1>6 DEF PublishDone, ServerCrash, ServerRestart, IdlePublisher, EmptyTable
  <1> QED
    BY <1>3, <1>4, <1>5, <1>6 DEF Next, ServerStep, Publish, StoreResults,
       Age, Drain, Unsent, TimedOut, Restore, PushLoopReturns, Send, Receive, Replied, Reply, vars, serverVars

LEMMA ShownMeasuredStep ==
    ASSUME TypeOK, TablesMeasured, [Next]_vars,
           NEW u \in Uids, NEW m \in Metrics, shown'[u][m] # 0
    PROVE  \E s \in measured'[u] : s.n = shown'[u][m] /\ m \in s.metrics
  <1>0. shown \in Tables
    BY DEF TypeOK, ServerTypeOK
  <1>1. publisher.current[u][m] # 0 =>
            \E s \in measured'[u] : s.n = publisher.current[u][m] /\ m \in s.metrics
    BY TableKept DEF TablesMeasured
  <1>2. shown[u][m] # 0 => \E s \in measured'[u] : s.n = shown[u][m] /\ m \in s.metrics
    BY TableKept DEF TablesMeasured
  <1>3. CASE shown' = shown
    BY <1>2, <1>3
  <1>4. ASSUME NEW v \in Uids, PublishSet(v)
        PROVE  \E s \in measured'[u] : s.n = shown'[u][m] /\ m \in s.metrics
    <2>1. shown'[u][m] \in {publisher.current[u][m], shown[u][m]}
      BY <1>0, <1>4 DEF PublishSet, Tables
    <2> QED
      BY <1>1, <1>2, <2>1
  <1>5. CASE PublishReset \/ ServerCrash
    BY <1>5 DEF PublishReset, ServerCrash, ServerRestart, EmptyTable
  <1> QED
    BY <1>3, <1>4, <1>5 DEF Next, ServerStep, Publish, PublishCopy, PublishDone, StoreResults,
       Age, Drain, Unsent, TimedOut, Restore, PushLoopReturns, Send, Receive, Replied, Reply, vars, serverVars

LEMMA TablesMeasuredStep ==
    ASSUME TypeOK, SamplesMeasured, TablesMeasured, [Next]_vars
    PROVE  TablesMeasured'
  <1>1. \A u \in Uids, m \in Metrics : collector'[u][m] # 0 =>
            \E s \in measured'[u] : s.n = collector'[u][m] /\ m \in s.metrics
    BY CollectorMeasuredStep DEF TablesMeasured
  <1>2. \A u \in Uids, m \in Metrics : publisher'.current[u][m] # 0 =>
            \E s \in measured'[u] : s.n = publisher'.current[u][m] /\ m \in s.metrics
    BY CopyMeasuredStep
  <1>3. \A u \in Uids, m \in Metrics : shown'[u][m] # 0 =>
            \E s \in measured'[u] : s.n = shown'[u][m] /\ m \in s.metrics
    BY ShownMeasuredStep
  <1> QED
    BY <1>1, <1>2, <1>3 DEF TablesMeasured, TableMeasured

LEMMA MeasuredInit == Init => OneServed /\ SamplesMeasured /\ TablesMeasured
  BY DEF Init, ServerInit, AgentInit, OneServed, SamplesMeasured, BatchMeasured, TablesMeasured,
     TableMeasured, IdleSlot, EmptyBatch, IdlePusher, FreeHandler, EmptyTable, IdlePublisher

(* What the server publishes was measured for that target and metric, for    *)
(* every number of targets, metrics, workers and pool goroutines and every   *)
(* choice of faults.                                                         *)
THEOREM ShownIsMeasured == Spec => []ShownWasMeasured
  <1> DEFINE Inv == TypeOK /\ OneServed /\ SamplesMeasured /\ TablesMeasured
  <1>1. Init => Inv
    BY InitType, MeasuredInit
  <1>2. Inv /\ [Next]_vars => Inv'
    BY NextType, OneServedStep, SamplesMeasuredStep, TablesMeasuredStep
  <1>3. Inv => ShownWasMeasured
    BY DEF TablesMeasured, TableMeasured, ShownWasMeasured
  <1> QED
    BY <1>1, <1>2, <1>3, PTL DEF Spec

-----------------------------------------------------------------------------
(* No target has two workers.                                              *)

\* Steps that leave map, worklists, targets and contexts alone, and start and end no worker.
LEMMA WorkersKnownQuiet ==
    ASSUME TypeOK, WorkersKnown, UNCHANGED <<targets, manager>>,
           \A w \in Workers : lt'[w].uid = lt[w].uid /\ lt'[w].live = lt[w].live,
           \A w \in Workers : lt'[w].pc = lt[w].pc \/ (lt[w].pc \in {"started", "loop"} /\ lt'[w].pc = "loop")
    PROVE  WorkersKnown'
  <1>1. /\ targets \in [Uids -> SUBSET Workers] /\ manager \in ManagerStates
        /\ lt \in [Workers -> WorkerStates]
    BY DEF TypeOK, AgentTypeOK
  <1>2. manager.stop \subseteq Workers
    BY <1>1 DEF ManagerStates
  <1>3. \A u \in Uids : targets[u] \subseteq Workers
    BY <1>1
  <1> QED
    BY <1>1, <1>2, <1>3 DEF WorkersKnown

\* refresh: what leaves the map is stopped, what enters it is started, one per target.
LEMMA WorkersKnownRefresh ==
    ASSUME TypeOK, WorkersKnown, NEW wanted \in Replies, Refresh(wanted)
    PROVE  WorkersKnown'
  <1> DEFINE kept(u) == {w \in targets[u] : u \in DOMAIN wanted /\ lt[w].options = wanted[u]}
             missing == {u \in DOMAIN wanted : kept(u) = {}}
  <1>1. PICK us \in SUBSET Uids : wanted \in [us -> Options]
    BY DEF Replies
  <1>2. PICK new \in Injection(missing, Unused) :
            /\ targets' = [u \in Uids |-> IF u \in missing THEN {new[u]} ELSE kept(u)]
            /\ lt' = [w \in Workers |->
                        IF w \in Range(new)
                        THEN LET u == CHOOSE u \in missing : new[u] = w
                             IN  [uid |-> u, options |-> wanted[u], live |-> TRUE,
                                  running |-> FALSE, pc |-> "created"]
                        ELSE lt[w]]
            /\ manager' = [pc |-> "apply",
                           stop |-> UNION {targets[u] \ kept(u) : u \in Uids},
                           start |-> Range(new)]
    BY DEF Refresh
  <1>3. /\ manager.pc = "idle" /\ manager.stop = {} /\ manager.start = {}
    BY DEF Refresh, WorkersKnown
  <1>4. missing \subseteq Uids
    BY <1>1
  <1>5. \A u \in Uids : kept(u) \subseteq targets[u] /\ targets[u] \subseteq Workers
    BY DEF TypeOK, AgentTypeOK
  <1>6. \A u \in missing : kept(u) = {}
    OBVIOUS
  <1> HIDE DEF kept, missing
  <1>7. /\ new \in [missing -> Unused]
        /\ \A u, v \in missing : new[u] = new[v] => u = v
    BY DEF Injection, IsInjective
  <1>8. \A w \in Range(new) : w \in Workers /\ lt[w].pc = "none"
    BY <1>7 DEF Range, Unused
  <1>9. \A u \in missing : /\ new[u] \in Range(new)
                           /\ lt'[new[u]].uid = u
                           /\ lt'[new[u]].live /\ lt'[new[u]].pc = "created"
    BY <1>2, <1>7, <1>8 DEF Range
  <1>10. \A w \in Range(new) : \E u \in missing : new[u] = w
    BY <1>7 DEF Range
  <1>11. \A w \in Workers \ Range(new) : lt'[w] = lt[w]
    BY <1>2
  <1>12. \A u \in Uids : \A w \in targets[u] :
            /\ w \in Workers /\ w \notin Range(new)
            /\ lt[w].live /\ lt[w].uid = u /\ lt[w].pc \in {"started", "loop"}
            /\ \A v \in targets[u] : v = w
    <2> SUFFICES ASSUME NEW u \in Uids, NEW w \in targets[u]
                 PROVE  /\ w \in Workers /\ w \notin Range(new)
                        /\ lt[w].live /\ lt[w].uid = u /\ lt[w].pc \in {"started", "loop"}
                        /\ \A v \in targets[u] : v = w
      OBVIOUS
    <2>1. w \in Workers
      BY <1>5
    <2>2. lt[w].live /\ lt[w].uid = u /\ lt[w].pc # "none" /\ \A v \in targets[u] : v = w
      BY DEF WorkersKnown
    <2>3. lt[w].pc # "created"
      BY <1>3, <2>1 DEF WorkersKnown
    <2>4. lt[w].pc \in {"none", "created", "started", "loop"}
      BY <2>1 DEF TypeOK, AgentTypeOK, WorkerStates
    <2> QED
      BY <1>8, <2>1, <2>2, <2>3, <2>4
  <1>13. \A v \in manager'.stop : /\ v \in Workers /\ v \notin Range(new)
                                  /\ lt[v].uid \in Uids
                                  /\ v \in targets[lt[v].uid] /\ v \notin kept(lt[v].uid)
    <2> SUFFICES ASSUME NEW u \in Uids, NEW v \in targets[u], v \notin kept(u)
                 PROVE  /\ v \in Workers /\ v \notin Range(new)
                        /\ lt[v].uid \in Uids
                        /\ v \in targets[lt[v].uid] /\ v \notin kept(lt[v].uid)
      BY <1>2
    <2> QED
      BY <1>12
  <1>14. /\ \A u \in missing : targets'[u] = {new[u]}
         /\ \A u \in Uids : u \notin missing => targets'[u] = kept(u)
    BY <1>2, <1>4
  <1>15. ASSUME NEW u \in Uids, NEW w \in targets'[u]
         PROVE  /\ lt'[w].live /\ lt'[w].uid = u /\ lt'[w].pc # "none"
                /\ \A v \in targets'[u] : v = w
    <2>1. CASE u \in missing
      <3>1. targets'[u] = {new[u]}
        BY <1>14, <2>1
      <3>2. w = new[u] /\ \A v \in targets'[u] : v = w
        BY <3>1
      <3> QED
        BY <1>9, <2>1, <3>2
    <2>2. CASE u \notin missing
      <3>1. targets'[u] = kept(u)
        BY <1>14, <2>2
      <3>2. kept(u) \subseteq targets[u]
        BY <1>5
      <3>3. \A v \in targets'[u] : v \in targets[u]
        BY <3>1, <3>2
      <3>4. lt'[w] = lt[w]
        BY <1>11, <1>12, <3>3
      <3> QED
        BY <1>12, <3>3, <3>4
    <2> QED
      BY <2>1, <2>2
  <1>16. ASSUME NEW w \in Workers, lt'[w].live PROVE w \in targets'[lt'[w].uid] \cup manager'.stop
    <2>1. CASE w \in Range(new)
      BY <1>4, <1>9, <1>10, <1>14, <2>1
    <2>2. CASE w \notin Range(new)
      <3>1. lt'[w] = lt[w] /\ lt[w].uid \in Uids
        BY <1>11, <2>2 DEF TypeOK, AgentTypeOK, WorkerStates
      <3>2. w \in targets[lt[w].uid]
        BY <1>3, <1>16, <3>1 DEF WorkersKnown
      <3>3. w \in kept(lt[w].uid) \/ w \in manager'.stop
        BY <1>2, <3>1, <3>2
      <3> QED
        BY <1>6, <1>14, <3>1, <3>3
    <2> QED
      BY <2>1, <2>2
  <1>17. ASSUME NEW w \in Workers PROVE lt'[w].pc = "created" <=> w \in manager'.start
    <2>1. CASE w \in Range(new)
      BY <1>2, <1>9, <1>10, <2>1
    <2>2. CASE w \notin Range(new)
      <3>1. lt'[w] = lt[w] /\ lt[w].pc # "created"
        BY <1>3, <1>11, <2>2 DEF WorkersKnown
      <3> QED
        BY <1>2, <2>2, <3>1
    <2> QED
      BY <2>1, <2>2
  <1>18. \A v \in manager'.stop :
            /\ lt'[v] = lt[v]
            /\ lt'[v].live /\ lt'[v].pc \in {"started", "loop"} /\ v \notin targets'[lt'[v].uid]
            /\ targets'[lt'[v].uid] \subseteq manager'.start
    <2> SUFFICES ASSUME NEW v \in manager'.stop
                 PROVE  /\ lt'[v] = lt[v]
                        /\ lt'[v].live /\ lt'[v].pc \in {"started", "loop"} /\ v \notin targets'[lt'[v].uid]
                        /\ targets'[lt'[v].uid] \subseteq manager'.start
      OBVIOUS
    <2> DEFINE u == lt[v].uid
    <2>1. /\ v \in Workers /\ v \notin Range(new) /\ u \in Uids
          /\ v \in targets[u] /\ v \notin kept(u)
      BY <1>13
    <2>2. lt'[v] = lt[v]
      BY <1>11, <2>1
    <2>3. kept(u) = {}
      BY <1>5, <1>12, <2>1
    <2>4. targets'[u] \subseteq Range(new)
      <3>1. CASE u \in missing
        BY <1>9, <1>14, <3>1
      <3>2. CASE u \notin missing
        BY <1>14, <2>1, <2>3, <3>2
      <3> QED
        BY <3>1, <3>2
    <2> QED
      BY <1>2, <1>12, <2>1, <2>2, <2>4
  <1>19. \A v, w \in manager'.stop : lt'[v].uid = lt'[w].uid => v = w
    BY <1>12, <1>13, <1>18
  <1>20. manager'.pc = "apply"
    BY <1>2
  <1>21. \A u \in Uids : \A v, w \in targets'[u] : v = w
    BY <1>15
  <1> QED
    BY <1>15, <1>16, <1>17, <1>18, <1>19, <1>20, <1>21 DEF WorkersKnown

LEMMA WorkersKnownStop ==
    ASSUME TypeOK, WorkersKnown, NEW w \in Workers, StopWorker(w)
    PROVE  WorkersKnown'
  <1>1. lt \in [Workers -> WorkerStates] /\ manager \in ManagerStates /\ targets \in [Uids -> SUBSET Workers]
    BY DEF TypeOK, AgentTypeOK
  <1>2. lt' = [lt EXCEPT ![w] = [lt[w] EXCEPT !.live = FALSE]]
    BY DEF StopWorker
  <1>3. /\ \A v \in Workers : lt'[v].uid = lt[v].uid /\ lt'[v].pc = lt[v].pc
        /\ \A v \in Workers \ {w} : lt'[v] = lt[v]
        /\ ~lt'[w].live
    BY <1>1, <1>2 DEF WorkerStates
  <1>4. /\ manager'.pc = "apply" /\ manager'.stop = manager.stop \ {w} /\ manager'.start = manager.start
        /\ manager.stop \subseteq Workers
    BY <1>1 DEF StopWorker, ManagerStates
  <1>5. targets' = targets /\ \A u \in Uids : targets[u] \subseteq Workers
    BY <1>1 DEF StopWorker
  <1>6. \A u \in Uids : w \notin targets[u]
    <2>1. w \notin targets[lt[w].uid]
      BY DEF StopWorker, WorkersKnown
    <2> QED
      BY <2>1 DEF WorkersKnown
  <1> QED
    BY <1>3, <1>4, <1>5, <1>6 DEF WorkersKnown

LEMMA WorkersKnownStart ==
    ASSUME TypeOK, WorkersKnown, NEW w \in Workers, StartWorker(w)
    PROVE  WorkersKnown'
  <1>1. lt \in [Workers -> WorkerStates] /\ manager \in ManagerStates /\ targets \in [Uids -> SUBSET Workers]
    BY DEF TypeOK, AgentTypeOK
  <1>2. lt' = [lt EXCEPT ![w] = [lt[w] EXCEPT !.pc = "started"]]
    BY DEF StartWorker
  <1>3. /\ \A v \in Workers : lt'[v].uid = lt[v].uid /\ lt'[v].live = lt[v].live
        /\ \A v \in Workers \ {w} : lt'[v].pc = lt[v].pc
        /\ lt'[w].pc = "started"
    BY <1>1, <1>2 DEF WorkerStates
  <1>4. /\ manager'.pc = "apply" /\ manager'.stop = {} /\ manager.stop = {}
        /\ manager'.start = manager.start \ {w}
    BY <1>1 DEF StartWorker, ManagerStates
  <1>5. targets' = targets /\ \A u \in Uids : targets[u] \subseteq Workers
    BY <1>1 DEF StartWorker
  <1> QED
    BY <1>3, <1>4, <1>5 DEF WorkersKnown

\* The other steps of the manager.
LEMMA WorkersKnownManager ==
    ASSUME TypeOK, WorkersKnown, RefreshDone \/ StopAll \/ CloseScheduler \/ PoolDrained
    PROVE  WorkersKnown'
  <1>1. lt \in [Workers -> WorkerStates] /\ manager \in ManagerStates
    BY DEF TypeOK, AgentTypeOK
  <1>2. manager.stop = {} /\ manager.start = {}
    BY DEF RefreshDone, StopAll, CloseScheduler, PoolDrained, WorkersKnown
  <1>3. manager'.stop = {} /\ manager'.start = {}
    BY <1>1, <1>2 DEF RefreshDone, StopAll, CloseScheduler, PoolDrained, ManagerStates, IdleManager
  <1>4. CASE StopAll
    <2>1. \A w \in Workers : ~lt'[w].live /\ lt'[w].pc = lt[w].pc
      BY <1>1, <1>4 DEF StopAll, WorkerStates
    <2>2. \A u \in Uids : targets'[u] = {}
      BY <1>4 DEF StopAll
    <2> QED
      BY <1>2, <1>3, <2>1, <2>2 DEF WorkersKnown
  <1>5. CASE RefreshDone \/ CloseScheduler \/ PoolDrained
    <2>1. UNCHANGED <<lt, targets>>
      BY <1>5 DEF RefreshDone, CloseScheduler, PoolDrained
    <2> QED
      BY <1>2, <1>3, <2>1 DEF WorkersKnown
  <1> QED
    BY <1>4, <1>5

\* The steps of the goroutine of a worker, and of one of the pool.
LEMMA WorkersKnownWorker ==
    ASSUME TypeOK, WorkersKnown, NEW w \in Workers, FirstProbe(w) \/ Tick(w) \/ WorkerReturns(w)
    PROVE  WorkersKnown'
  <1>1. lt \in [Workers -> WorkerStates] /\ manager \in ManagerStates /\ targets \in [Uids -> SUBSET Workers]
    BY DEF TypeOK, AgentTypeOK
  <1>2. CASE FirstProbe(w) \/ Tick(w)
    <2> DEFINE r == [lt[w] EXCEPT !.pc = "loop",
                                  !.running = lt[w].running \/ (~lt[w].running /\ ~closed)]
    <2>1. lt' = [lt EXCEPT ![w] = r] /\ lt[w].pc \in {"started", "loop"}
      BY <1>2 DEF FirstProbe, Tick, Schedule
    <2>2. r.uid = lt[w].uid /\ r.live = lt[w].live /\ r.pc = "loop"
      BY <1>1 DEF WorkerStates
    <2>3. UNCHANGED <<targets, manager>>
      BY <1>2 DEF FirstProbe, Tick, Schedule
    <2> HIDE DEF r
    <2>4. \A v \in Workers : lt'[v] = IF v = w THEN r ELSE lt[v]
      BY <1>1, <2>1
    <2> QED
      BY <2>1, <2>2, <2>3, <2>4, WorkersKnownQuiet
  <1>3. CASE WorkerReturns(w)
    <2>1. /\ \A v \in Workers : lt'[v].uid = lt[v].uid /\ lt'[v].live = lt[v].live
          /\ \A v \in Workers \ {w} : lt'[v].pc = lt[v].pc
          /\ lt'[w].pc = "none" /\ lt[w].pc = "loop" /\ ~lt[w].live
      BY <1>1, <1>3 DEF WorkerReturns, WorkerStates
    <2>2. UNCHANGED <<targets, manager>>
      BY <1>3 DEF WorkerReturns
    <2>3. w \notin manager.stop /\ \A u \in Uids : w \notin targets[u]
      BY <2>1 DEF WorkersKnown
    <2>4. manager.stop \subseteq Workers /\ \A u \in Uids : targets[u] \subseteq Workers
      BY <1>1 DEF ManagerStates
    <2>5. w \notin manager.start
      BY <2>1 DEF WorkersKnown
    <2> QED
      BY <2>1, <2>2, <2>3, <2>4, <2>5 DEF WorkersKnown
  <1> QED
    BY <1>2, <1>3

LEMMA WorkersKnownPool ==
    ASSUME TypeOK, WorkersKnown, NEW p \in Slots, PoolStep(p)
    PROVE  WorkersKnown'
  <1>1. lt \in [Workers -> WorkerStates]
    BY DEF TypeOK, AgentTypeOK
  <1>2. UNCHANGED <<targets, manager>>
    BY DEF PoolStep, Take, Probe, ProbeEmpty, Callback, Report, Store, Release
  <1>3. CASE Release(p)
    <2>1. \A w \in Workers : lt'[w].uid = lt[w].uid /\ lt'[w].live = lt[w].live /\ lt'[w].pc = lt[w].pc
      BY <1>1, <1>3 DEF Release, WorkerStates
    <2> QED
      BY <1>2, <2>1, WorkersKnownQuiet
  <1>4. CASE UNCHANGED lt
    BY <1>2, <1>4, WorkersKnownQuiet
  <1> QED
    BY <1>3, <1>4 DEF PoolStep, Take, Probe, ProbeEmpty, Callback, Report, Store

LEMMA WorkersKnownStep ==
    ASSUME TypeOK, WorkersKnown, [Next]_vars
    PROVE  WorkersKnown'
  <1>1. CASE UNCHANGED <<targets, manager, lt>>
    BY <1>1, WorkersKnownQuiet
  <1>2. CASE AgentStep
    <2>1. CASE ManagerWorks
      BY <2>1, WorkersKnownStop, WorkersKnownStart, WorkersKnownManager DEF ManagerWorks
    <2>2. CASE Cancel
      BY <1>1, <2>2 DEF Cancel
    <2> QED
      BY <1>2, <2>1, <2>2, WorkersKnownRefresh, WorkersKnownWorker, WorkersKnownPool DEF AgentStep
  <1> QED
    BY <1>1, <1>2 DEF Next, Drain, Unsent, TimedOut, Restore, PushLoopReturns, Send, Replied,
       ServerCrash, vars, agentVars, engineVars

LEMMA WorkersKnownInit == Init => WorkersKnown
  BY DEF Init, AgentInit, WorkersKnown, IdleManager, NoWorker

LEMMA KnownMeansOne ==
    ASSUME TypeOK, WorkersKnown
    PROVE  OneWorkerPerTarget
  <1>1. lt \in [Workers -> WorkerStates]
    BY DEF TypeOK, AgentTypeOK
  <1>2. ASSUME NEW v \in Workers, NEW w \in Workers,
               lt[v].pc \in {"started", "loop"}, lt[w].pc \in {"started", "loop"},
               lt[v].live, lt[w].live, lt[v].uid = lt[w].uid
        PROVE  v = w
    <2> DEFINE u == lt[v].uid
    <2>1. u \in Uids
      BY <1>1 DEF WorkerStates
    <2>2. v \in targets[u] \cup manager.stop /\ w \in targets[u] \cup manager.stop
      BY <1>2 DEF WorkersKnown
    <2>3. v \notin manager.start /\ w \notin manager.start
      BY <1>2 DEF WorkersKnown
    <2>4. CASE v \in manager.stop \/ w \in manager.stop
      <3>1. targets[u] \subseteq manager.start
        BY <1>2, <2>4 DEF WorkersKnown
      <3>2. v \in manager.stop /\ w \in manager.stop
        BY <2>2, <2>3, <3>1
      <3> QED
        BY <1>2, <3>2 DEF WorkersKnown
    <2>5. CASE v \in targets[u] /\ w \in targets[u]
      BY <2>1, <2>5 DEF WorkersKnown
    <2> QED
      BY <2>2, <2>4, <2>5
  <1>3. \A w \in Workers : lt[w].live => (w \in targets[lt[w].uid] \/ w \in manager.stop)
    BY DEF WorkersKnown
  <1> QED
    BY <1>2, <1>3 DEF OneWorkerPerTarget

(* No two workers that are not stopped probe the same target, for every      *)
(* number of targets, settings and workers and however refreshes, probes and *)
(* stops interleave.                                                         *)
THEOREM TargetsHaveOneWorker == Spec => []OneWorkerPerTarget
  <1> DEFINE Inv == TypeOK /\ WorkersKnown
  <1>1. Init => Inv
    BY InitType, WorkersKnownInit
  <1>2. Inv /\ [Next]_vars => Inv'
    BY NextType, WorkersKnownStep
  <1>3. Inv => OneWorkerPerTarget
    BY KnownMeansOne
  <1> QED
    BY <1>1, <1>2, <1>3, PTL DEF Spec

-----------------------------------------------------------------------------
(* Every worker has one probe at most, and running tells whether it has.   *)

\* Steps that move no probe into the pool, within it, or out of it.
LEMMA SingleJobsQuiet ==
    ASSUME SingleJobs, UNCHANGED queue,
           \A p \in Slots : pool'[p].lt = pool[p].lt /\ (pool'[p].pc = "idle" => pool[p].pc = "idle"),
           \A w \in Workers : /\ lt'[w].running = lt[w].running
                              /\ lt'[w].pc = "created" => lt[w].pc = "created"
    PROVE  SingleJobs'
  BY DEF SingleJobs, InPool, ToSet

\* New workers have no probe in the pool.
LEMMA SingleJobsRefresh ==
    ASSUME TypeOK, SingleJobs, NEW wanted \in Replies, Refresh(wanted)
    PROVE  SingleJobs'
  <1> DEFINE missing == {u \in DOMAIN wanted :
                {v \in targets[u] : u \in DOMAIN wanted /\ lt[v].options = wanted[u]} = {}}
  <1>1. PICK new \in Injection(missing, Unused) :
            lt' = [v \in Workers |->
                      IF v \in Range(new)
                      THEN LET u == CHOOSE u \in missing : new[u] = v
                           IN  [uid |-> u, options |-> wanted[u], live |-> TRUE,
                                running |-> FALSE, pc |-> "created"]
                      ELSE lt[v]]
    BY DEF Refresh
  <1> HIDE DEF missing
  <1>2. UNCHANGED <<queue, pool>>
    BY DEF Refresh
  <1>3. \A w \in Range(new) : w \in Workers /\ ~InPool(w)
    BY DEF Injection, Range, Unused
  <1>4. \A w \in Workers : (lt'[w].running <=> InPool(w)) /\ (lt'[w].pc = "created" => ~lt'[w].running)
    BY <1>1, <1>3 DEF SingleJobs
  <1> QED
    BY <1>2, <1>4 DEF SingleJobs, InPool, ToSet

\* A probe is submitted only if none is in the pool.
LEMMA SingleJobsSchedule ==
    ASSUME TypeOK, SingleJobs, NEW w \in Workers, Schedule(w)
    PROVE  SingleJobs'
  <1> DEFINE r == [lt[w] EXCEPT !.pc = "loop",
                                !.running = lt[w].running \/ (~lt[w].running /\ ~closed)]
  <1>1. lt \in [Workers -> WorkerStates] /\ queue \in Seq(Workers)
    BY DEF TypeOK, AgentTypeOK
  <1>2. lt' = [lt EXCEPT ![w] = r] /\ UNCHANGED pool
    BY DEF Schedule
  <1>3. r.pc = "loop" /\ r.running = (lt[w].running \/ (~lt[w].running /\ ~closed))
    BY <1>1 DEF WorkerStates
  <1> HIDE DEF r
  <1>4. /\ lt'[w].pc = "loop" /\ lt'[w].running = (lt[w].running \/ (~lt[w].running /\ ~closed))
        /\ \A v \in Workers \ {w} : lt'[v] = lt[v]
    BY <1>1, <1>2, <1>3
  <1>5. CASE ~lt[w].running /\ ~closed
    <2>1. queue' = Append(queue, w)
      BY <1>5 DEF Schedule
    <2>2. /\ DOMAIN queue = 1 .. Len(queue) /\ Len(queue) \in Nat
          /\ DOMAIN queue' = 1 .. (Len(queue) + 1)
          /\ \A i \in 1 .. Len(queue) : queue'[i] = queue[i]
          /\ queue'[Len(queue) + 1] = w
      BY <1>1, <2>1
    <2>3. /\ DOMAIN queue' = DOMAIN queue \cup {Len(queue) + 1}
          /\ Len(queue) + 1 \notin DOMAIN queue
      BY <2>2
    <2>4. \A i \in DOMAIN queue : queue'[i] = queue[i]
      BY <2>2
    <2>5. (\A i \in DOMAIN queue : queue[i] # w) /\ (\A p \in Slots : w \notin pool[p].lt)
      BY <1>5 DEF SingleJobs, InPool, ToSet
    <2> DEFINE last0 == Len(queue) + 1
    <2>6. /\ queue'[last0] = w /\ DOMAIN queue' = DOMAIN queue \cup {last0} /\ last0 \notin DOMAIN queue
      BY <2>2, <2>3
    <2> HIDE DEF last0
    <2>7. \A i, j \in DOMAIN queue' : queue'[i] = queue'[j] => i = j
      BY <2>4, <2>5, <2>6 DEF SingleJobs
    <2>8. \A i \in DOMAIN queue', p \in Slots : queue'[i] \notin pool'[p].lt
      BY <1>2, <2>4, <2>5, <2>6 DEF SingleJobs
    <2>9. \A v \in Workers : InPool(v)' <=> (InPool(v) \/ v = w)
      BY <1>2, <2>4, <2>6 DEF InPool, ToSet
    <2>10. \A v \in Workers : lt'[v].running <=> InPool(v)'
      BY <1>4, <1>5, <2>9 DEF SingleJobs
    <2> QED
      BY <1>2, <1>4, <2>7, <2>8, <2>10 DEF SingleJobs
  <1>6. CASE ~(~lt[w].running /\ ~closed)
    <2>1. UNCHANGED queue
      BY <1>6 DEF Schedule
    <2>2. lt'[w].running = lt[w].running
      <3>1. lt[w].running \in BOOLEAN
        BY <1>1 DEF WorkerStates
      <3> QED
        BY <1>4, <1>6, <3>1
    <2> QED
      BY <1>2, <1>4, <2>1, <2>2, SingleJobsQuiet
  <1> QED
    BY <1>5, <1>6

\* A probe leaves the queue for a goroutine that has none.
LEMMA SingleJobsTake ==
    ASSUME TypeOK, SingleJobs, NEW p \in Slots, Take(p)
    PROVE  SingleJobs'
  <1> DEFINE w == queue[1]
  <1>1. /\ queue \in Seq(Workers) /\ queue # <<>> /\ queue' = Tail(queue)
        /\ pool \in [Slots -> SlotStates] /\ pool[p].pc = "idle" /\ UNCHANGED lt
    BY DEF TypeOK, AgentTypeOK, Take
  <1>2. /\ DOMAIN queue = 1 .. Len(queue) /\ Len(queue) \in Nat /\ Len(queue) > 0
        /\ DOMAIN queue' = 1 .. (Len(queue) - 1)
        /\ \A i \in 1 .. (Len(queue) - 1) : queue'[i] = queue[i + 1]
        /\ Head(queue) = w
    BY <1>1
  <1>3. /\ 1 \in DOMAIN queue
        /\ \A i \in DOMAIN queue' : i + 1 \in DOMAIN queue /\ i + 1 # 1 /\ queue'[i] = queue[i + 1]
        /\ \A i \in DOMAIN queue : i = 1 \/ \E j \in DOMAIN queue' : queue'[j] = queue[i]
    <2>1. \A i \in DOMAIN queue' : i + 1 \in DOMAIN queue /\ i + 1 # 1 /\ queue'[i] = queue[i + 1]
      BY <1>2
    <2>2. ASSUME NEW i \in DOMAIN queue, i # 1 PROVE \E j \in DOMAIN queue' : queue'[j] = queue[i]
      <3>1. i - 1 \in DOMAIN queue' /\ (i - 1) + 1 = i
        BY <1>2, <2>2
      <3>2. queue'[i - 1] = queue[(i - 1) + 1]
        BY <1>2, <3>1
      <3> QED
        BY <3>1, <3>2
    <2> QED
      BY <1>2, <2>1, <2>2
  <1>4. /\ pool'[p].lt = {w} /\ pool'[p].pc = "probe"
        /\ \A q \in Slots \ {p} : pool'[q] = pool[q]
    BY <1>1, <1>2 DEF Take
  <1>5. pool[p].lt = {}
    BY <1>1 DEF SingleJobs
  <1>6. /\ \A q \in Slots : w \notin pool[q].lt
        /\ \A i \in DOMAIN queue' : queue'[i] # w
        /\ \A i \in DOMAIN queue', q \in Slots : queue'[i] \notin pool[q].lt
    BY <1>3 DEF SingleJobs
  <1> HIDE DEF w
  <1>7. \A i, j \in DOMAIN queue' : queue'[i] = queue'[j] => i = j
    <2> SUFFICES ASSUME NEW i \in DOMAIN queue', NEW j \in DOMAIN queue', queue'[i] = queue'[j]
                 PROVE  i = j
      OBVIOUS
    <2>1. i + 1 = j + 1
      BY <1>3 DEF SingleJobs
    <2> QED
      BY <1>2, <2>1
  <1>8. \A q, r \in Slots : \A v \in pool'[q].lt : v \in pool'[r].lt => q = r
    BY <1>4, <1>6 DEF SingleJobs
  <1>9. \A i \in DOMAIN queue', q \in Slots : queue'[i] \notin pool'[q].lt
    BY <1>4, <1>6
  <1>10. \A v \in Workers : InPool(v)' <=> InPool(v)
    <2> SUFFICES ASSUME NEW v \in Workers
                 PROVE  ((\E i \in DOMAIN queue' : queue'[i] = v) \/ \E q \in Slots : v \in pool'[q].lt)
                          <=> ((\E i \in DOMAIN queue : queue[i] = v) \/ \E q \in Slots : v \in pool[q].lt)
      BY DEF InPool, ToSet
    <2>1. (\E i \in DOMAIN queue : queue[i] = v) <=> (v = w \/ \E i \in DOMAIN queue' : queue'[i] = v)
      BY <1>3 DEF w
    <2>2. (\E q \in Slots : v \in pool'[q].lt) <=> (v = w \/ \E q \in Slots : v \in pool[q].lt)
      BY <1>4, <1>5
    <2> QED
      BY <2>1, <2>2
  <1>11. \A q \in Slots : pool'[q].pc = "idle" => pool'[q].lt = {}
    BY <1>4 DEF SingleJobs
  <1>12. \A v \in Workers : /\ lt'[v].running <=> InPool(v)'
                            /\ lt'[v].pc = "created" => ~lt'[v].running
    BY <1>1, <1>10 DEF SingleJobs
  <1> QED
    BY <1>7, <1>8, <1>9, <1>11, <1>12 DEF SingleJobs

\* The end of a probe resets running.
LEMMA SingleJobsRelease ==
    ASSUME TypeOK, SingleJobs, NEW p \in Slots, Release(p)
    PROVE  SingleJobs'
  <1>1. pool \in [Slots -> SlotStates] /\ lt \in [Workers -> WorkerStates]
    BY DEF TypeOK, AgentTypeOK
  <1>2. UNCHANGED queue /\ pool'[p].lt = {} /\ \A q \in Slots \ {p} : pool'[q] = pool[q]
    BY <1>1 DEF Release, IdleSlot
  <1>3. \A w \in Workers : /\ lt'[w].pc = lt[w].pc
                           /\ lt'[w].running <=> (lt[w].running /\ w \notin pool[p].lt)
    BY <1>1 DEF Release, WorkerStates
  <1>4. \A w \in Workers : InPool(w)' <=> (InPool(w) /\ w \notin pool[p].lt)
    BY <1>2 DEF SingleJobs, InPool, ToSet
  <1>5. \A w \in Workers : (lt'[w].running <=> InPool(w)') /\ (lt'[w].pc = "created" => ~lt'[w].running)
    BY <1>3, <1>4 DEF SingleJobs
  <1> QED
    BY <1>2, <1>5 DEF SingleJobs

\* What a goroutine of the pool does between taking a probe and its end.
LEMMA SlotWorks ==
    ASSUME TypeOK, NEW p \in Slots, Probe(p) \/ ProbeEmpty(p) \/ Callback(p) \/ Report(p) \/ Store(p)
    PROVE  /\ UNCHANGED <<queue, lt>>
           /\ pool'[p].lt = pool[p].lt /\ pool'[p].pc # "idle"
           /\ \A q \in Slots \ {p} : pool'[q] = pool[q]
  <1>1. pool \in [Slots -> SlotStates]
    BY DEF TypeOK, AgentTypeOK
  <1>2. UNCHANGED <<queue, lt>>
    BY DEF Probe, ProbeEmpty, Callback, Report, Store
  <1>3. ASSUME NEW pc, Goto(p, pc), pc # "idle"
        PROVE  /\ pool'[p].lt = pool[p].lt /\ pool'[p].pc # "idle"
               /\ \A q \in Slots \ {p} : pool'[q] = pool[q]
    BY <1>1, <1>3 DEF Goto, SlotStates
  <1>4. CASE Probe(p)
    <2>1. PICK s : pool' = [pool EXCEPT ![p] = [pool[p] EXCEPT !.pc = "callback", !.sample = s]]
      BY <1>4 DEF Probe
    <2> QED
      BY <1>1, <1>2, <2>1 DEF SlotStates
  <1>5. CASE ProbeEmpty(p) \/ Callback(p) \/ Report(p) \/ Store(p)
    BY <1>2, <1>3, <1>5 DEF ProbeEmpty, Callback, Report, Store
  <1> QED
    BY <1>4, <1>5

LEMMA SingleJobsStep ==
    ASSUME TypeOK, SingleJobs, [Next]_vars
    PROVE  SingleJobs'
  <1>1. lt \in [Workers -> WorkerStates]
    BY DEF TypeOK, AgentTypeOK
  <1>2. CASE UNCHANGED <<queue, pool, lt>>
    BY <1>2, SingleJobsQuiet
  <1>3. ASSUME UNCHANGED <<queue, pool>>,
               \A w \in Workers : /\ lt'[w].running = lt[w].running
                                  /\ lt'[w].pc \in {lt[w].pc, "started", "none"}
        PROVE  SingleJobs'
    BY <1>3, SingleJobsQuiet
  <1>4. ASSUME NEW w \in Workers, StopWorker(w) \/ StartWorker(w) \/ WorkerReturns(w)
        PROVE  SingleJobs'
    <2>1. UNCHANGED <<queue, pool>>
      BY <1>4 DEF StopWorker, StartWorker, WorkerReturns
    <2>2. \A v \in Workers : /\ lt'[v].running = lt[v].running
                             /\ lt'[v].pc \in {lt[v].pc, "started", "none"}
      BY <1>1, <1>4 DEF StopWorker, StartWorker, WorkerReturns, WorkerStates
    <2> QED
      BY <1>3, <2>1, <2>2
  <1>5. CASE StopAll
    <2>1. UNCHANGED <<queue, pool>>
      BY <1>5 DEF StopAll
    <2>2. \A v \in Workers : lt'[v].running = lt[v].running /\ lt'[v].pc = lt[v].pc
      BY <1>1, <1>5 DEF StopAll, WorkerStates
    <2> QED
      BY <1>3, <2>1, <2>2
  <1>6. ASSUME NEW p \in Slots, PoolStep(p) PROVE SingleJobs'
    <2>1. CASE Probe(p) \/ ProbeEmpty(p) \/ Callback(p) \/ Report(p) \/ Store(p)
      <3>1. \A q \in Slots : pool'[q].lt = pool[q].lt /\ (pool'[q].pc = "idle" => pool[q].pc = "idle")
        BY <2>1, SlotWorks
      <3>2. UNCHANGED <<queue, lt>>
        BY <2>1, SlotWorks
      <3> QED
        BY <3>1, <3>2, SingleJobsQuiet
    <2> QED
      BY <1>6, <2>1, SingleJobsTake, SingleJobsRelease DEF PoolStep
  <1>7. CASE AgentStep
    BY <1>2, <1>4, <1>5, <1>6, <1>7, SingleJobsRefresh, SingleJobsSchedule DEF AgentStep, ManagerWorks,
       RefreshDone, CloseScheduler, PoolDrained, Cancel, FirstProbe, Tick
  <1> QED
    BY <1>2, <1>7 DEF Next, Drain, Unsent, TimedOut, Restore, PushLoopReturns, Send, Replied,
       ServerCrash, vars, agentVars, engineVars

LEMMA SingleJobsInit == Init => SingleJobs
  BY DEF Init, AgentInit, SingleJobs, InPool, ToSet, IdleSlot, NoWorker

\* Counting them: what is in no place or in one has that many places.
LEMMA SingleMeansOne ==
    ASSUME SingleJobs
    PROVE  \A w \in Workers : Jobs(w) = (IF lt[w].running THEN 1 ELSE 0)
  <1> SUFFICES ASSUME NEW w \in Workers PROVE Jobs(w) = (IF lt[w].running THEN 1 ELSE 0)
    OBVIOUS
  <1> DEFINE waits == {i \in DOMAIN queue : queue[i] = w}
             served == {p \in Slots : w \in pool[p].lt}
  <1>1. Jobs(w) = Cardinality(waits) + Cardinality(served)
    BY DEF Jobs
  <1>2. lt[w].running <=> (waits # {} \/ served # {})
    BY DEF SingleJobs, InPool, ToSet
  <1>3. waits = {} \/ served = {}
    BY DEF SingleJobs
  <1>4. waits = {} \/ \E i : waits = {i}
    BY DEF SingleJobs
  <1>5. served = {} \/ \E p : served = {p}
    <2> SUFFICES ASSUME NEW p \in served PROVE served = {p}
      OBVIOUS
    <2>1. p \in Slots /\ w \in pool[p].lt
      OBVIOUS
    <2>2. \A q \in served : q = p
      BY <2>1 DEF SingleJobs
    <2> QED
      BY <2>2
  <1> HIDE DEF waits, served
  <1>6. Cardinality(waits) = (IF waits = {} THEN 0 ELSE 1)
    BY <1>4, FS_EmptySet, FS_Singleton
  <1>7. Cardinality(served) = (IF served = {} THEN 0 ELSE 1)
    BY <1>5, FS_EmptySet, FS_Singleton
  <1> QED
    BY <1>1, <1>2, <1>3, <1>6, <1>7

(* A worker has one probe in the pool while running is set and none while it *)
(* is not, for every number of workers, pool goroutines and targets and      *)
(* however ticks, stops, refreshes and the end of the scheduler interleave.  *)
THEOREM ProbesOneAtATime == Spec => []OneProbeEach
  <1> DEFINE Inv == TypeOK /\ SingleJobs
  <1>1. Init => Inv
    BY InitType, SingleJobsInit
  <1>2. Inv /\ [Next]_vars => Inv'
    BY NextType, SingleJobsStep
  <1>3. Inv => OneProbeEach
    BY SingleMeansOne DEF OneProbeEach
  <1> QED
    BY <1>1, <1>2, <1>3, PTL DEF Spec

-----------------------------------------------------------------------------
(* After Stop nothing is under way.                                        *)

\* Nothing enters the pool once the scheduler is closed.
LEMMA PoolOnlyDrains ==
    ASSUME TypeOK, closed, [Next]_vars, NEW w \in Workers, InPool(w)'
    PROVE  InPool(w)
  <1>1. /\ queue \in Seq(Workers) /\ pool \in [Slots -> SlotStates]
    BY DEF TypeOK, AgentTypeOK
  <1>2. CASE UNCHANGED <<queue, pool>>
    BY <1>2 DEF InPool, ToSet
  <1>3. ASSUME NEW p \in Slots, Take(p) PROVE InPool(w)
    <2>1. queue # <<>> /\ queue' = Tail(queue) /\ pool' = [pool EXCEPT ![p] =
              [pc |-> "probe", lt |-> {Head(queue)}, sample |-> NoSample]]
      BY <1>3 DEF Take
    <2>2. /\ 1 \in DOMAIN queue /\ Head(queue) = queue[1]
          /\ \A i \in DOMAIN queue' : i + 1 \in DOMAIN queue /\ queue'[i] = queue[i + 1]
      BY <1>1, <2>1
    <2>3. \A q \in Slots : pool'[q].lt = pool[q].lt \/ pool'[q].lt = {queue[1]}
      BY <1>1, <2>1, <2>2
    <2> QED
      BY <2>2, <2>3 DEF InPool, ToSet
  <1>4. ASSUME NEW p \in Slots, Release(p) PROVE InPool(w)
    <2>1. UNCHANGED queue /\ \A q \in Slots : pool'[q].lt = pool[q].lt \/ pool'[q].lt = {}
      BY <1>1, <1>4 DEF Release, IdleSlot
    <2> QED
      BY <2>1 DEF InPool, ToSet
  <1>5. ASSUME NEW p \in Slots, Probe(p) \/ ProbeEmpty(p) \/ Callback(p) \/ Report(p) \/ Store(p)
        PROVE  InPool(w)
    <2>1. UNCHANGED queue /\ \A q \in Slots : pool'[q].lt = pool[q].lt
      BY <1>5, SlotWorks
    <2> QED
      BY <2>1 DEF InPool, ToSet
  <1>6. CASE AgentStep
    BY <1>2, <1>3, <1>4, <1>5, <1>6 DEF AgentStep, Refresh, ManagerWorks, StopWorker, StartWorker,
       RefreshDone, StopAll, CloseScheduler, PoolDrained, Cancel, FirstProbe, Tick, Schedule,
       WorkerReturns, PoolStep
  <1> QED
    BY <1>2, <1>6 DEF Next, Drain, Unsent, TimedOut, Restore, PushLoopReturns, Send, Replied,
       ServerCrash, vars, agentVars, engineVars

\* Only refresh gives a worker a context, one that has no probe in the pool.
LEMMA ContextsEnd ==
    ASSUME TypeOK, [Next]_vars, NEW w \in Workers, lt'[w].live, manager.pc # "idle" \/ InPool(w)
    PROVE  lt[w].live
  <1>1. lt \in [Workers -> WorkerStates]
    BY DEF TypeOK, AgentTypeOK
  <1>2. CASE UNCHANGED lt
    BY <1>2
  <1>3. ASSUME NEW v \in Workers, StopWorker(v) \/ StartWorker(v) \/ WorkerReturns(v)
        PROVE  lt[w].live
    BY <1>1, <1>3 DEF StopWorker, StartWorker, WorkerReturns, WorkerStates
  <1>4. ASSUME NEW v \in Workers, Schedule(v) PROVE lt[w].live
    <2> DEFINE r == [lt[v] EXCEPT !.pc = "loop",
                                  !.running = lt[v].running \/ (~lt[v].running /\ ~closed)]
    <2>1. lt' = [lt EXCEPT ![v] = r] /\ r.live = lt[v].live
      BY <1>1, <1>4 DEF Schedule, WorkerStates
    <2> HIDE DEF r
    <2> QED
      BY <1>1, <2>1
  <1>5. ASSUME NEW p \in Slots, Release(p) PROVE lt[w].live
    BY <1>1, <1>5 DEF Release, WorkerStates
  <1>6. ASSUME NEW p \in Slots, PoolStep(p) PROVE lt[w].live
    BY <1>2, <1>5, <1>6 DEF PoolStep, Take, Probe, ProbeEmpty, Callback, Report, Store
  <1>7. CASE StopAll
    BY <1>1, <1>7 DEF StopAll, WorkerStates
  <1>8. ASSUME NEW wanted \in Replies, Refresh(wanted) PROVE lt[w].live
    <2> DEFINE missing == {u \in DOMAIN wanted :
                  {v \in targets[u] : u \in DOMAIN wanted /\ lt[v].options = wanted[u]} = {}}
    <2>1. PICK new \in Injection(missing, Unused) :
              lt' = [v \in Workers |->
                        IF v \in Range(new)
                        THEN LET u == CHOOSE u \in missing : new[u] = v
                             IN  [uid |-> u, options |-> wanted[u], live |-> TRUE,
                                  running |-> FALSE, pc |-> "created"]
                        ELSE lt[v]]
      BY <1>8 DEF Refresh
    <2> HIDE DEF missing
    <2>2. manager.pc = "idle"
      BY <1>8 DEF Refresh
    <2>3. w \notin Range(new)
      BY <2>2 DEF Injection, Range, Unused
    <2> QED
      BY <2>1, <2>3
  <1>9. CASE AgentStep
    BY <1>2, <1>3, <1>4, <1>6, <1>7, <1>8, <1>9 DEF AgentStep, ManagerWorks, RefreshDone,
       CloseScheduler, PoolDrained, Cancel, FirstProbe, Tick
  <1> QED
    BY <1>2, <1>9 DEF Next, Drain, Unsent, TimedOut, Restore, PushLoopReturns, Send, Replied,
       ServerCrash, vars, agentVars, engineVars

\* How far Stop has got.
LEMMA StopFlow ==
    ASSUME TypeOK, [Next]_vars, manager'.pc \in {"closing", "waiting", "stopped"}
    PROVE  \/ manager'.pc = manager.pc /\ (closed => closed')
           \/ StopAll \/ CloseScheduler \/ PoolDrained
  <1>1. manager \in ManagerStates
    BY DEF TypeOK, AgentTypeOK
  <1>2. ASSUME NEW w \in Workers, StopWorker(w) \/ StartWorker(w) PROVE FALSE
    BY <1>1, <1>2 DEF StopWorker, StartWorker, ManagerStates
  <1>3. ASSUME NEW wanted \in Replies, Refresh(wanted) PROVE FALSE
    <2>1. manager'.pc = "apply"
      BY <1>3 DEF Refresh
    <2> QED
      BY <2>1
  <1>4. CASE RefreshDone
    BY <1>4 DEF RefreshDone, IdleManager
  <1>5. CASE UNCHANGED <<manager, closed>>
    BY <1>5
  <1>6. CASE AgentStep
    BY <1>2, <1>3, <1>4, <1>5, <1>6 DEF AgentStep, ManagerWorks, Cancel, FirstProbe, Tick, Schedule,
       WorkerReturns, PoolStep, Take, Probe, ProbeEmpty, Callback, Report, Store, Release
  <1> QED
    BY <1>5, <1>6 DEF Next, Drain, Unsent, TimedOut, Restore, PushLoopReturns, Send, Replied,
       ServerCrash, vars, agentVars, engineVars

LEMMA StopQuietsStep ==
    ASSUME TypeOK, SingleJobs, StopQuiets, [Next]_vars
    PROVE  StopQuiets'
  <1> SUFFICES ASSUME manager'.pc \in {"closing", "waiting", "stopped"}
               PROVE  /\ \A w \in Workers : ~lt'[w].live
                      /\ manager'.pc \in {"waiting", "stopped"} => closed'
                      /\ manager'.pc = "stopped" => \A w \in Workers : ~InPool(w)'
    BY DEF StopQuiets
  <1>1. manager \in ManagerStates /\ lt \in [Workers -> WorkerStates]
    BY DEF TypeOK, AgentTypeOK
  <1>2. CASE manager'.pc = manager.pc /\ (closed => closed')
    <2>1. \A w \in Workers : ~lt'[w].live
      BY <1>2, ContextsEnd DEF StopQuiets
    <2>2. manager.pc = "stopped" => \A w \in Workers : ~InPool(w)'
      BY PoolOnlyDrains DEF StopQuiets
    <2> QED
      BY <1>2, <2>1, <2>2 DEF StopQuiets
  <1>3. CASE StopAll
    <2>1. \A w \in Workers : ~lt'[w].live
      BY <1>1, <1>3 DEF StopAll, WorkerStates
    <2>2. manager'.pc = "closing"
      BY <1>1, <1>3 DEF StopAll, ManagerStates
    <2> QED
      BY <2>1, <2>2
  <1>4. CASE CloseScheduler
    <2>1. UNCHANGED lt /\ closed' /\ manager.pc = "closing" /\ manager'.pc = "waiting"
      BY <1>1, <1>4 DEF CloseScheduler, ManagerStates
    <2> QED
      BY <2>1 DEF StopQuiets
  <1>5. CASE PoolDrained
    <2>1. /\ UNCHANGED <<lt, queue, pool, closed>> /\ manager.pc = "waiting"
          /\ queue = <<>> /\ \A p \in Slots : pool[p].lt = {}
      BY <1>5 DEF PoolDrained, SingleJobs
    <2>2. \A w \in Workers : ~InPool(w)'
      BY <2>1 DEF InPool, ToSet
    <2> QED
      BY <2>1, <2>2 DEF StopQuiets
  <1> QED
    BY <1>2, <1>3, <1>4, <1>5, StopFlow

LEMMA StopQuietsInit == Init => StopQuiets
  BY DEF Init, AgentInit, StopQuiets, IdleManager

(* When Stop has returned no context is open and the pool has no probe, for  *)
(* every number of workers and pool goroutines: ticks that come late find    *)
(* the scheduler closed.                                                     *)
THEOREM StopLeavesNothing == Spec => []QuietWhenStopped
  <1> DEFINE Inv == TypeOK /\ SingleJobs /\ StopQuiets
  <1>1. Init => Inv
    BY InitType, SingleJobsInit, StopQuietsInit
  <1>2. Inv /\ [Next]_vars => Inv'
    BY NextType, SingleJobsStep, StopQuietsStep
  <1>3. Inv => QuietWhenStopped
    <2> SUFFICES ASSUME Inv, manager.pc = "stopped", NEW w \in Workers
                 PROVE  ~lt[w].live /\ Jobs(w) = 0
      BY DEF QuietWhenStopped
    <2>1. ~lt[w].live /\ ~InPool(w)
      BY DEF StopQuiets
    <2>2. ~lt[w].running
      BY <2>1 DEF SingleJobs
    <2> QED
      BY <2>1, <2>2, SingleMeansOne
  <1> QED
    BY <1>1, <1>2, <1>3, PTL DEF Spec

-----------------------------------------------------------------------------
(* Only stopped workers overtake.                                          *)

\* What is past the look at the context was so before, or its worker was not stopped.
LEMMA StageFlow ==
    ASSUME TypeOK, [Next]_vars, NEW q \in Slots, pool'[q].pc \in {"report", "store"}
    PROVE  /\ pool'[q].lt = pool[q].lt /\ pool'[q].sample = pool[q].sample
           /\ \/ pool[q].pc \in {"report", "store"}
              \/ pool[q].sample # NoSample /\ \A w \in pool[q].lt : lt[w].live
  <1>1. pool \in [Slots -> SlotStates]
    BY DEF TypeOK, AgentTypeOK
  <1>2. CASE pool'[q] = pool[q]
    BY <1>2
  <1>3. ASSUME NEW p \in Slots, PoolStep(p), p # q PROVE pool'[q] = pool[q]
    <2>1. CASE Take(p) \/ Release(p)
      BY <1>1, <1>3, <2>1 DEF Take, Release
    <2>2. CASE Probe(p) \/ ProbeEmpty(p) \/ Callback(p) \/ Report(p) \/ Store(p)
      BY <1>3, <2>2, SlotWorks
    <2> QED
      BY <1>3, <2>1, <2>2 DEF PoolStep
  <1>4. ~Take(q) /\ ~Release(q)
    BY <1>1 DEF Take, Release, IdleSlot
  <1>5. ~Probe(q) /\ ~ProbeEmpty(q)
    <2>1. ASSUME Probe(q) PROVE FALSE
      <3>1. PICK s : pool' = [pool EXCEPT ![q] = [pool[q] EXCEPT !.pc = "callback", !.sample = s]]
        BY <2>1 DEF Probe
      <3> QED
        BY <1>1, <3>1 DEF SlotStates
    <2> QED
      BY <1>1, <2>1 DEF ProbeEmpty, Goto, SlotStates
  <1>6. CASE Callback(q)
    BY <1>1, <1>6 DEF Callback, Goto, SlotStates
  <1>7. CASE Report(q) \/ Store(q)
    BY <1>1, <1>7 DEF Report, Store, Goto, SlotStates
  <1> QED
    BY <1>2, <1>3, <1>4, <1>5, <1>6, <1>7, PoolChanges DEF PoolStep

\* A goroutine of the pool has the sample it had, or a new one with a new number.
LEMMA SampleFlow ==
    ASSUME TypeOK, [Next]_vars, NEW q \in Slots, NEW w \in pool'[q].lt, pool'[q].sample # NoSample
    PROVE  /\ w \in pool[q].lt
           /\ \/ pool'[q].sample = pool[q].sample
              \/ pool'[q].sample.n = clock + 1 /\ UNCHANGED last
  <1>1. pool \in [Slots -> SlotStates]
    BY DEF TypeOK, AgentTypeOK
  <1>2. CASE pool'[q] = pool[q]
    BY <1>2
  <1>3. ASSUME NEW p \in Slots, PoolStep(p), p # q PROVE pool'[q] = pool[q]
    <2>1. CASE Take(p) \/ Release(p)
      BY <1>1, <1>3, <2>1 DEF Take, Release
    <2>2. CASE Probe(p) \/ ProbeEmpty(p) \/ Callback(p) \/ Report(p) \/ Store(p)
      BY <1>3, <2>2, SlotWorks
    <2> QED
      BY <1>3, <2>1, <2>2 DEF PoolStep
  <1>4. ~Take(q) /\ ~Release(q)
    BY <1>1 DEF Take, Release, IdleSlot
  <1>5. CASE Probe(q)
    <2>1. UNCHANGED last
      BY <1>5 DEF Probe, resultVars
    <2>2. PICK ms : pool' = [pool EXCEPT ![q] =
              [pool[q] EXCEPT !.pc = "callback", !.sample = [n |-> clock + 1, metrics |-> ms]]]
      BY <1>5 DEF Probe
    <2> DEFINE s == [n |-> clock + 1, metrics |-> ms]
               r == [pool[q] EXCEPT !.pc = "callback", !.sample = s]
    <2>3. r.sample = s /\ r.lt = pool[q].lt
      BY <1>1 DEF SlotStates
    <2>4. s.n = clock + 1 /\ pool' = [pool EXCEPT ![q] = r]
      BY <2>2
    <2> HIDE DEF s, r
    <2> QED
      BY <1>1, <2>1, <2>3, <2>4
  <1>6. CASE ProbeEmpty(q) \/ Callback(q) \/ Report(q) \/ Store(q)
    BY <1>1, <1>6 DEF ProbeEmpty, Callback, Report, Store, Goto, SlotStates
  <1> QED
    BY <1>2, <1>3, <1>4, <1>5, <1>6, PoolChanges DEF PoolStep

\* The last samples stored for a target are the last ones, or what Store takes from the pool.
LEMMA LastFlow ==
    ASSUME TypeOK, [Next]_vars, NEW u \in Uids
    PROVE  \/ last'[u] = last[u] /\ (u \in late' <=> u \in late)
           \/ \E p \in Slots : \E w \in pool[p].lt :
                /\ pool[p].pc = "store" /\ lt[w].uid = u
                /\ last'[u] = pool[p].sample /\ results'[u] = pool[p].sample
                /\ u \in late' <=> (u \in late \/ pool[p].sample.n < last[u].n)
  <1>1. last \in Batches /\ results \in Batches
    BY DEF TypeOK, AgentTypeOK
  <1>2. ASSUME NEW p \in Slots, Store(p)
        PROVE  \/ last'[u] = last[u] /\ (u \in late' <=> u \in late)
               \/ \E w \in pool[p].lt :
                    /\ pool[p].pc = "store" /\ lt[w].uid = u
                    /\ last'[u] = pool[p].sample /\ results'[u] = pool[p].sample
                    /\ u \in late' <=> (u \in late \/ pool[p].sample.n < last[u].n)
    <2>1. PICK w \in pool[p].lt :
              /\ results' = [results EXCEPT ![lt[w].uid] = pool[p].sample]
              /\ last' = [last EXCEPT ![lt[w].uid] = pool[p].sample]
              /\ late' = IF pool[p].sample.n < last[lt[w].uid].n THEN late \cup {lt[w].uid} ELSE late
      BY <1>2 DEF Store
    <2>2. pool[p].pc = "store"
      BY <1>2 DEF Store
    <2>3. CASE lt[w].uid = u
      BY <1>1, <2>1, <2>2, <2>3 DEF Batches
    <2>4. CASE lt[w].uid # u
      BY <1>1, <2>1, <2>4 DEF Batches
    <2> QED
      BY <2>3, <2>4
  <1>3. CASE UNCHANGED <<last, late>>
    BY <1>3
  <1> QED
    BY <1>2, <1>3, BufferFlow DEF Next, ServerStep, Drain, Unsent, TimedOut, Restore, PushLoopReturns,
       Send, Replied, ServerCrash, vars, agentVars, resultVars

\* The number of a sample on its way.
LEMMA CountedUpTo ==
    ASSUME TypeOK, SamplesMeasured, SamplesCounted
    PROVE  /\ clock \in Nat
           /\ \A p \in Slots : \A w \in pool[p].lt : pool[p].sample.n \in 0 .. clock
           /\ \A u \in Uids : last[u].n \in 0 .. clock
  <1>1. clock \in Nat /\ NoSample.n = 0
    BY MaxProbesAssumption DEF TypeOK, AgentTypeOK, NoSample
  <1>2. \A u \in Uids : \A s \in measured[u] \cup {NoSample} : s.n \in 0 .. clock
    BY <1>1 DEF SamplesCounted
  <1>3. ASSUME NEW p \in Slots, NEW w \in pool[p].lt PROVE pool[p].sample.n \in 0 .. clock
    <2>1. lt[w].uid \in Uids
      BY SlotTyped DEF TypeOK
    <2> QED
      BY <1>2, <2>1 DEF SamplesMeasured
  <1> QED
    BY <1>1, <1>2, <1>3 DEF SamplesCounted, BatchMeasured

\* A new sample has the next number.
LEMMA CountingStep ==
    ASSUME TypeOK, SamplesCounted, [Next]_vars
    PROVE  \A u \in Uids : \A s \in measured'[u] : s.n \in 1 .. clock'
  <1>1. clock \in Nat /\ measured \in [Uids -> SUBSET Samples]
    BY MaxProbesAssumption DEF TypeOK, AgentTypeOK
  <1>2. ASSUME NEW p \in Slots, Probe(p)
        PROVE  \A u \in Uids : \A s \in measured'[u] : s.n \in 1 .. clock'
    <2>1. PICK ms \in {Metrics, FailMetrics} : \E w \in pool[p].lt :
              measured' = [measured EXCEPT ![lt[w].uid] = @ \cup {[n |-> clock + 1, metrics |-> ms]}]
      BY <1>2 DEF Probe
    <2> DEFINE t == [n |-> clock + 1, metrics |-> ms]
    <2>2. t.n = clock + 1 /\ clock' = clock + 1
      BY <1>2 DEF Probe
    <2>3. \A u \in Uids : \A s \in measured'[u] : s \in measured[u] \/ s = t
      BY <1>1, <2>1
    <2> HIDE DEF t
    <2>4. \A u \in Uids : \A s \in measured[u] : s.n \in 1 .. clock
      BY DEF SamplesCounted
    <2>5. \A k \in 1 .. clock : k \in 1 .. (clock + 1)
      BY <1>1
    <2>6. clock + 1 \in 1 .. (clock + 1)
      BY <1>1
    <2> QED
      BY <2>2, <2>3, <2>4, <2>5, <2>6
  <1>3. CASE UNCHANGED <<measured, clock>>
    BY <1>3 DEF SamplesCounted
  <1>4. ASSUME AgentStep PROVE (\E p \in Slots : Probe(p)) \/ UNCHANGED <<measured, clock>>
    BY <1>4 DEF AgentStep, Refresh, ManagerWorks, StopWorker, StartWorker, RefreshDone, StopAll,
       CloseScheduler, PoolDrained, Cancel, FirstProbe, Tick, Schedule, WorkerReturns, PoolStep, Take,
       ProbeEmpty, Callback, Report, Store, Release, probeVars
  <1> QED
    BY <1>2, <1>3, <1>4 DEF Next, Drain, Unsent, TimedOut, Restore, PushLoopReturns, Send, Replied,
       ServerCrash, vars, agentVars, probeVars

LEMMA SamplesCountedStep ==
    ASSUME TypeOK, SamplesMeasured, SamplesCounted, [Next]_vars
    PROVE  SamplesCounted'
  <1>1. \A u \in Uids : last'[u] \in measured'[u] \cup {NoSample}
    <2> SUFFICES ASSUME NEW u \in Uids PROVE last'[u] \in measured[u] \cup {NoSample}
      BY MeasuredGrows
    <2> QED
      BY LastFlow DEF SamplesCounted, SamplesMeasured, BatchMeasured
  <1>2. \A p \in Slots : pool'[p].pc \in {"report", "store"} => pool'[p].sample # NoSample
    BY StageFlow DEF SamplesCounted
  <1> QED
    BY <1>1, <1>2, CountingStep DEF SamplesCounted, BatchMeasured

\* Two workers with probes of one target in the pool: one at least is stopped.
LEMMA OneAliveInPool ==
    ASSUME TypeOK, WorkersKnown, SingleJobs, NEW v \in Workers, NEW w \in Workers,
           InPool(v), InPool(w), lt[v].live, lt[w].live, lt[v].uid = lt[w].uid
    PROVE  v = w
  <1>1. ASSUME NEW x \in Workers, InPool(x), lt[x].live PROVE lt[x].pc \in {"started", "loop"}
    <2>1. lt[x].pc \in {"none", "created", "started", "loop"} /\ lt[x].uid \in Uids
      BY DEF TypeOK, AgentTypeOK, WorkerStates
    <2>2. lt[x].pc # "created"
      BY <1>1 DEF SingleJobs
    <2>3. lt[x].pc # "none"
      BY <1>1, <2>1 DEF WorkersKnown
    <2> QED
      BY <2>1, <2>2, <2>3
  <1> QED
    BY <1>1, KnownMeansOne DEF OneWorkerPerTarget

LEMMA FreshestAliveStep ==
    ASSUME TypeOK, OneServed, SamplesMeasured, WorkersKnown, SingleJobs, SamplesCounted, FreshestAlive,
           [Next]_vars
    PROVE  FreshestAlive'
  <1> SUFFICES ASSUME NEW p \in Slots, NEW w \in pool'[p].lt, lt'[w].live, pool'[p].sample # NoSample
               PROVE  /\ last'[lt'[w].uid].n <= pool'[p].sample.n
                      /\ \A q \in Slots : \A v \in pool'[q].lt :
                          (pool'[q].pc \in {"report", "store"} /\ lt'[v].uid = lt'[w].uid) =>
                              pool'[q].sample.n <= pool'[p].sample.n
    BY DEF FreshestAlive
  <1>1. w \in pool[p].lt /\ w \in Workers /\ InPool(w)
    BY SampleFlow, SlotTyped DEF TypeOK, InPool
  <1>2. lt[w].live /\ lt'[w].uid = lt[w].uid /\ lt[w].uid \in Uids
    BY <1>1, ContextsEnd, UidKept, SlotTyped DEF TypeOK
  <1> DEFINE u == lt[w].uid
  <1>3. ASSUME NEW q \in Slots, NEW v \in pool'[q].lt, pool'[q].pc \in {"report", "store"},
               lt'[v].uid = lt'[w].uid
        PROVE  /\ v \in pool[q].lt /\ v \in Workers /\ InPool(v) /\ lt[v].uid = u
               /\ pool'[q].sample = pool[q].sample
               /\ pool[q].pc \in {"report", "store"} \/ lt[v].live
    <2>1. v \in pool[q].lt /\ pool'[q].sample = pool[q].sample
      BY <1>3, StageFlow
    <2>2. v \in Workers /\ InPool(v)
      BY <2>1, SlotTyped DEF TypeOK, InPool
    <2>3. lt'[v].uid = lt[v].uid
      BY <2>2, UidKept
    <2>4. pool[q].pc \in {"report", "store"} \/ lt[v].live
      BY <1>3, <2>1, StageFlow
    <2> QED
      BY <1>2, <1>3, <2>1, <2>2, <2>3, <2>4
  <1>4. CASE pool'[p].sample = pool[p].sample
    <2>1. /\ last[u].n <= pool[p].sample.n
          /\ \A q \in Slots : \A v \in pool[q].lt :
              (pool[q].pc \in {"report", "store"} /\ lt[v].uid = u) => pool[q].sample.n <= pool[p].sample.n
      BY <1>1, <1>2, <1>4 DEF FreshestAlive
    <2>2. last'[u].n <= pool[p].sample.n
      BY <1>2, <2>1, LastFlow
    <2>3. ASSUME NEW q \in Slots, NEW v \in pool'[q].lt, pool'[q].pc \in {"report", "store"},
                 lt'[v].uid = lt'[w].uid
          PROVE  pool'[q].sample.n <= pool'[p].sample.n
      <3>1. CASE pool[q].pc \in {"report", "store"}
        BY <1>3, <1>4, <2>1, <2>3, <3>1
      <3>2. CASE lt[v].live
        <4>1. v = w
          BY <1>1, <1>2, <1>3, <2>3, <3>2, OneAliveInPool
        <4>2. q = p
          BY <1>1, <1>3, <2>3, <4>1 DEF SingleJobs
        <4>3. pool[p].sample.n \in Nat
          BY <1>1, CountedUpTo
        <4> QED
          BY <1>4, <4>2, <4>3
      <3> QED
        BY <1>3, <2>3, <3>1, <3>2
    <2> QED
      BY <1>2, <1>4, <2>2, <2>3
  <1>5. CASE pool'[p].sample.n = clock + 1 /\ UNCHANGED last
    <2>1. \A k \in 0 .. clock : k <= clock + 1
      BY CountedUpTo
    <2>2. last'[u].n <= clock + 1
      BY <1>2, <1>5, <2>1, CountedUpTo
    <2>3. ASSUME NEW q \in Slots, NEW v \in pool'[q].lt, pool'[q].pc \in {"report", "store"},
                 lt'[v].uid = lt'[w].uid
          PROVE  pool'[q].sample.n <= clock + 1
      BY <1>3, <2>1, <2>3, CountedUpTo
    <2> QED
      BY <1>2, <1>5, <2>2, <2>3
  <1> QED
    BY <1>4, <1>5, SampleFlow

LEMMA CountInit == Init => SamplesCounted /\ FreshestAlive
  BY DEF Init, AgentInit, SamplesCounted, FreshestAlive, BatchMeasured, IdleSlot, EmptyBatch

\* Only Store sets what was stored last, and a worker that is not stopped has nothing older.
LEMMA OvertakenStep ==
    ASSUME TypeOK, SamplesMeasured, SamplesCounted, FreshestAlive, [Next]_vars,
           NEW u \in Uids, last'[u].n < last[u].n
    PROVE  \E p \in Slots : pool[p].pc = "store" /\ \E w \in pool[p].lt : ~lt[w].live
  <1>1. last[u].n \in Nat
    BY CountedUpTo
  <1>2. last'[u] # last[u]
    BY <1>1
  <1>3. PICK p \in Slots : \E w \in pool[p].lt :
            pool[p].pc = "store" /\ lt[w].uid = u /\ last'[u] = pool[p].sample
    BY <1>2, LastFlow
  <1>4. PICK w \in pool[p].lt : pool[p].pc = "store" /\ lt[w].uid = u /\ last'[u] = pool[p].sample
    BY <1>3
  <1>5. pool[p].sample # NoSample /\ pool[p].sample.n \in Nat
    BY <1>4, CountedUpTo DEF SamplesCounted
  <1>6. ~lt[w].live
    <2>1. lt[w].live => last[u].n <= pool[p].sample.n
      BY <1>4, <1>5 DEF FreshestAlive
    <2> QED
      BY <1>1, <1>4, <1>5, <2>1
  <1> QED
    BY <1>4, <1>6

(* Samples of a target are stored in the order they were measured, but at    *)
(* the hands of a worker that was stopped after its look at the context, for *)
(* every number of targets, workers and pool goroutines.                     *)
THEOREM OvertakingIsStopped == Spec => OnlyStoppedWorkersOvertake
  <1> DEFINE Inv == TypeOK /\ OneServed /\ SamplesMeasured /\ WorkersKnown /\ SingleJobs
                    /\ SamplesCounted /\ FreshestAlive
             Overtake == \A u \in Uids : last'[u].n < last[u].n =>
                             \E p \in Slots : pool[p].pc = "store" /\ \E w \in pool[p].lt : ~lt[w].live
  <1>1. Init => Inv
    BY InitType, MeasuredInit, WorkersKnownInit, SingleJobsInit, CountInit
  <1>2. Inv /\ [Next]_vars => Inv'
    BY NextType, OneServedStep, SamplesMeasuredStep, WorkersKnownStep, SingleJobsStep,
       SamplesCountedStep, FreshestAliveStep
  <1>3. Inv /\ [Next]_vars => [Overtake]_vars
    BY OvertakenStep
  <1>4. OnlyStoppedWorkersOvertake <=> [][Overtake]_vars
    BY DEF OnlyStoppedWorkersOvertake
  <1> QED
    BY <1>1, <1>2, <1>3, <1>4, PTL DEF Spec

-----------------------------------------------------------------------------
(* Only abandoned pushes overtake.                                         *)

LEMMA BatchNumbers == \A b \in Batches : \A u \in Uids : b[u].n \in Nat
  <1> SUFFICES ASSUME NEW b \in Batches, NEW u \in Uids PROVE b[u].n \in Nat
    OBVIOUS
  <1>1. b[u] \in Samples
    BY DEF Batches
  <1> QED
    BY <1>1, MaxProbesAssumption DEF Samples

\* The numbers of results, wherever they are.
LEMMA NumbersTyped ==
    ASSUME TypeOK
    PROVE  \A u \in Uids :
              /\ results[u].n \in Nat /\ last[u].n \in Nat /\ pusher.batch[u].n \in Nat
              /\ \A s \in Handlers : handler[s].batch[u].n \in Nat
              /\ \A m \in Metrics : collector[u][m] \in Nat
  <1>1. /\ results \in Batches /\ last \in Batches /\ pusher.batch \in Batches
        /\ \A s \in Handlers : handler[s].batch \in Batches
        /\ collector \in Tables
    BY DEF TypeOK, AgentTypeOK, ServerTypeOK, PusherStates, HandlerStates
  <1>2. 0 .. MaxProbes \subseteq Nat
    BY MaxProbesAssumption
  <1>3. \A u \in Uids, m \in Metrics : collector[u][m] \in Nat
    BY <1>1, <1>2 DEF Tables
  <1> QED
    BY <1>1, <1>3, BatchNumbers

\* The collector keeps what it has, forgets it, or stores what a handler has.
LEMMA CollectorFlow ==
    ASSUME TypeOK, [Next]_vars, NEW u \in Uids, NEW m \in Metrics
    PROVE  \/ collector'[u][m] \in {collector[u][m], 0}
           \/ \E s \in Handlers : /\ handler[s].pc = "store" /\ handler'[s].pc = "reply"
                                  /\ m \in handler[s].batch[u].metrics
                                  /\ collector'[u][m] = handler[s].batch[u].n
  <1>1. handler \in [Handlers -> HandlerStates]
    BY DEF TypeOK, ServerTypeOK
  <1>2. CASE UNCHANGED collector
    BY <1>2
  <1>3. ASSUME NEW s \in Handlers, StoreResults(s)
        PROVE  \/ collector'[u][m] = collector[u][m]
               \/ /\ handler[s].pc = "store" /\ handler'[s].pc = "reply"
                  /\ m \in handler[s].batch[u].metrics
                  /\ collector'[u][m] = handler[s].batch[u].n
    <2>1. handler[s].pc = "store" /\ handler'[s].pc = "reply"
      BY <1>1, <1>3 DEF StoreResults, HandlerStates
    <2>2. collector'[u][m] =
            IF m \in handler[s].batch[u].metrics THEN handler[s].batch[u].n ELSE collector[u][m]
      BY <1>3 DEF StoreResults, Put
    <2> QED
      BY <2>1, <2>2
  <1>4. CASE PublishCopy
    BY <1>4 DEF PublishCopy, Fresh
  <1>5. CASE ServerCrash
    BY <1>5 DEF ServerCrash, ServerRestart, EmptyTable
  <1> QED
    BY <1>2, <1>3, <1>4, <1>5 DEF Next, ServerStep, Publish, PublishReset, PublishDone, PublishSet,
       Age, Drain, Unsent, TimedOut, Restore, PushLoopReturns, Send, Receive, Replied, Reply, vars, serverVars

\* What is sent was sent before, or is in the push under way.
LEMMA SentFlow ==
    ASSUME TypeOK, [Next]_vars, NEW u \in Uids, NEW n \in Nat,
           SentUpTo(handler, collector, u, n), pusher.batch[u].n <= n
    PROVE  SentUpTo(handler', collector', u, n)
  <1>1. \A s \in Handlers : handler'[s].batch[u].n <= n
    <2> SUFFICES ASSUME NEW s \in Handlers PROVE handler'[s].batch[u].n <= n
      OBVIOUS
    <2>1. handler[s].batch[u].n <= n
      BY DEF SentUpTo
    <2>2. handler'[s].batch \in {handler[s].batch, pusher.batch, EmptyBatch}
      BY HandlerFlow DEF FreeHandler
    <2>3. EmptyBatch[u].n <= n
      BY DEF EmptyBatch, NoSample
    <2> QED
      BY <2>1, <2>2, <2>3
  <1>2. \A m \in Metrics : collector'[u][m] <= n
    BY CollectorFlow DEF SentUpTo
  <1> QED
    BY <1>1, <1>2 DEF SentUpTo

\* Where the results of a target go between buffer and push.
LEMMA BatchFlow ==
    ASSUME TypeOK, [Next]_vars, NEW u \in Uids
    PROVE  \/ UNCHANGED <<results[u], pusher.batch[u]>>
           \/ /\ \E p \in Slots : Store(p)
              /\ UNCHANGED pusher.batch[u]
           \/ results'[u] = NoSample /\ pusher'.batch[u] = results[u] /\ UNCHANGED last
           \/ /\ results'[u] = (IF results[u] = NoSample THEN pusher.batch[u] ELSE results[u])
              /\ pusher'.batch[u] = NoSample /\ UNCHANGED last
           \/ results'[u] = results[u] /\ pusher'.batch[u] = NoSample /\ UNCHANGED last
  <1>1. pusher \in PusherStates
    BY DEF TypeOK
  <1>2. CASE Drain
    BY <1>1, <1>2 DEF Drain, PusherStates, EmptyBatch
  <1>3. CASE Restore
    BY <1>3 DEF Restore, IdlePusher, EmptyBatch
  <1>4. CASE Unsent \/ TimedOut \/ ServerCrash \/ PushLoopReturns
    <2>1. pusher'.batch = pusher.batch
      BY <1>1, <1>4 DEF Unsent, TimedOut, ServerCrash, PushLoopReturns, CallFails, PusherStates
    <2>2. UNCHANGED results
      BY <1>4 DEF Unsent, TimedOut, ServerCrash, PushLoopReturns, agentVars, resultVars
    <2> QED
      BY <2>1, <2>2
  <1>5. ASSUME NEW s \in Handlers, Send(s) PROVE UNCHANGED <<results[u], pusher.batch[u]>>
    <2>1. pusher'.batch = pusher.batch /\ UNCHANGED results
      BY <1>1, <1>5 DEF Send, PusherStates, agentVars, resultVars
    <2> QED
      BY <2>1
  <1>6. ASSUME NEW s \in Handlers, Replied(s)
        PROVE  \/ UNCHANGED <<results[u], pusher.batch[u]>>
               \/ results'[u] = results[u] /\ pusher'.batch[u] = NoSample /\ UNCHANGED last
    <2>1. UNCHANGED <<results, last>> /\ (pusher' = IdlePusher \/ UNCHANGED pusher)
      BY <1>6 DEF Replied, agentVars, resultVars
    <2> QED
      BY <2>1 DEF IdlePusher, EmptyBatch
  <1>7. CASE UNCHANGED <<results, pusher>>
    BY <1>7
  <1> QED
    BY <1>2, <1>3, <1>4, <1>5, <1>6, <1>7, BufferFlow DEF Next, vars, agentVars, resultVars

LEMMA PushOrderStep ==
    ASSUME TypeOK, PushOrder, [Next]_vars
    PROVE  PushOrder'
  <1> SUFFICES ASSUME NEW u \in Uids, u \notin late'
               PROVE  /\ SentUpTo(handler', collector', u, last'[u].n)
                      /\ pusher'.batch[u].n <= last'[u].n /\ results'[u].n <= last'[u].n
                      /\ results'[u] # NoSample =>
                            /\ SentUpTo(handler', collector', u, results'[u].n)
                            /\ pusher'.batch[u].n <= results'[u].n
                      /\ pusher'.batch[u] # NoSample =>
                            SentUpTo(handler', collector', u, pusher'.batch[u].n)
    BY DEF PushOrder
  <1>1. /\ results[u].n \in Nat /\ last[u].n \in Nat /\ pusher.batch[u].n \in Nat
        /\ results'[u].n \in Nat /\ last'[u].n \in Nat /\ pusher'.batch[u].n \in Nat
        /\ NoSample.n = 0
    <2>1. results' \in Batches /\ last' \in Batches /\ pusher'.batch \in Batches
      BY NextType DEF TypeOK, AgentTypeOK, PusherStates
    <2>2. results'[u].n \in Nat /\ last'[u].n \in Nat /\ pusher'.batch[u].n \in Nat
      BY <2>1, BatchNumbers
    <2> QED
      BY <2>2, NumbersTyped DEF NoSample
  <1>2. u \notin late /\ last[u].n <= last'[u].n
    <2>1. last'[u] = last[u] \/ ~(last'[u].n < last[u].n)
      BY LastFlow
    <2>2. last[u].n <= last'[u].n
      BY <1>1, <2>1
    <2> QED
      BY <2>2, LastFlow
  <1>3. /\ SentUpTo(handler, collector, u, last[u].n)
        /\ pusher.batch[u].n <= last[u].n /\ results[u].n <= last[u].n
        /\ results[u] # NoSample =>
              SentUpTo(handler, collector, u, results[u].n) /\ pusher.batch[u].n <= results[u].n
        /\ pusher.batch[u] # NoSample => SentUpTo(handler, collector, u, pusher.batch[u].n)
    BY <1>2 DEF PushOrder
  <1>4. ASSUME NEW n \in Nat, SentUpTo(handler, collector, u, n), pusher.batch[u].n <= n
        PROVE  SentUpTo(handler', collector', u, n)
    BY <1>4, SentFlow
  <1>5. SentUpTo(handler', collector', u, last'[u].n)
    <2>1. SentUpTo(handler, collector, u, last'[u].n)
      <3>1. \A s \in Handlers : handler[s].batch[u].n \in Nat
        BY NumbersTyped
      <3>2. \A m \in Metrics : collector[u][m] \in Nat
        BY NumbersTyped
      <3>3. \A k \in Nat : k <= last[u].n => k <= last'[u].n
        BY <1>1, <1>2
      <3> QED
        BY <1>3, <3>1, <3>2, <3>3 DEF SentUpTo
    <2>2. pusher.batch[u].n <= last'[u].n
      BY <1>1, <1>2, <1>3
    <2> QED
      BY <1>1, <1>4, <2>1, <2>2
  <1>6. CASE UNCHANGED <<results[u], pusher.batch[u]>>
    <2>1. results[u] # NoSample => SentUpTo(handler', collector', u, results[u].n)
      BY <1>1, <1>3, <1>4
    <2>2. pusher.batch[u] # NoSample => SentUpTo(handler', collector', u, pusher.batch[u].n)
      BY <1>1, <1>3, <1>4
    <2>3. pusher'.batch[u].n <= last'[u].n /\ results'[u].n <= last'[u].n
      BY <1>1, <1>2, <1>3, <1>6
    <2> QED
      BY <1>3, <1>5, <1>6, <2>1, <2>2, <2>3
  <1>7. ASSUME NEW p \in Slots, Store(p), pusher'.batch[u] = pusher.batch[u], results'[u] = last'[u]
        PROVE  /\ pusher'.batch[u].n <= last'[u].n
               /\ results'[u].n <= last'[u].n
               /\ SentUpTo(handler', collector', u, results'[u].n) /\ pusher'.batch[u].n <= results'[u].n
               /\ pusher'.batch[u] # NoSample => SentUpTo(handler', collector', u, pusher'.batch[u].n)
    <2>1. pusher.batch[u] # NoSample => SentUpTo(handler', collector', u, pusher.batch[u].n)
      BY <1>1, <1>3, <1>4
    <2>2. pusher'.batch[u].n <= last'[u].n /\ results'[u].n <= last'[u].n
      BY <1>1, <1>2, <1>3, <1>7
    <2> QED
      BY <1>5, <1>7, <2>1, <2>2
  <1>8. ASSUME NEW p \in Slots, Store(p)
        PROVE  results'[u] = last'[u] \/ results'[u] = results[u]
    <2>1. results \in Batches /\ last \in Batches
      BY DEF TypeOK, AgentTypeOK
    <2>2. PICK w \in pool[p].lt : /\ results' = [results EXCEPT ![lt[w].uid] = pool[p].sample]
                                  /\ last' = [last EXCEPT ![lt[w].uid] = pool[p].sample]
      BY <1>8 DEF Store
    <2> QED
      BY <2>1, <2>2 DEF Batches
  <1>9. CASE results'[u] = NoSample /\ pusher'.batch[u] = results[u] /\ UNCHANGED last
    <2>1. pusher'.batch[u] # NoSample => SentUpTo(handler', collector', u, pusher'.batch[u].n)
      BY <1>1, <1>3, <1>4, <1>9
    <2>2. pusher'.batch[u].n <= last'[u].n /\ results'[u].n <= last'[u].n
      BY <1>1, <1>3, <1>9
    <2> QED
      BY <1>5, <1>9, <2>1, <2>2
  <1>10. CASE /\ results'[u] = (IF results[u] = NoSample THEN pusher.batch[u] ELSE results[u])
              /\ pusher'.batch[u] = NoSample /\ UNCHANGED last
    <2>1. results'[u] # NoSample => SentUpTo(handler', collector', u, results'[u].n)
      BY <1>1, <1>3, <1>4, <1>10
    <2>2. pusher'.batch[u].n <= last'[u].n /\ results'[u].n <= last'[u].n
      BY <1>1, <1>3, <1>10
    <2>3. pusher'.batch[u].n <= results'[u].n
      BY <1>1, <1>10
    <2> QED
      BY <1>5, <1>10, <2>1, <2>2, <2>3
  <1>11. CASE results'[u] = results[u] /\ pusher'.batch[u] = NoSample /\ UNCHANGED last
    <2>1. results'[u] # NoSample => SentUpTo(handler', collector', u, results'[u].n)
      BY <1>1, <1>3, <1>4, <1>11
    <2>2. pusher'.batch[u].n <= last'[u].n /\ results'[u].n <= last'[u].n
      BY <1>1, <1>3, <1>11
    <2>3. pusher'.batch[u].n <= results'[u].n
      BY <1>1, <1>11
    <2> QED
      BY <1>5, <1>11, <2>1, <2>2, <2>3
  <1>12. ASSUME NEW p \in Slots, Store(p), pusher'.batch[u] = pusher.batch[u]
         PROVE  results'[u] = last'[u] \/ UNCHANGED <<results[u], pusher.batch[u]>>
    BY <1>8, <1>12
  <1> QED
    BY <1>5, <1>6, <1>7, <1>9, <1>10, <1>11, <1>12, BatchFlow

LEMMA PushOrderInit == Init => PushOrder
  <1>1. NoSample.n = 0
    BY DEF NoSample
  <1> QED
    BY <1>1 DEF Init, ServerInit, AgentInit, PushOrder, SentUpTo, IdlePusher, FreeHandler, EmptyBatch,
     EmptyTable

\* A handler the agent waits for has nothing older than the collector.
LEMMA AbandonedStep ==
    ASSUME TypeOK, ConnServed, PushOrder, [Next]_vars, NEW u \in Uids, NEW m \in Metrics,
           collector'[u][m] # 0, collector'[u][m] < collector[u][m]
    PROVE  \/ u \in late
           \/ \E s \in Handlers \ pusher.conn : handler[s].pc = "store" /\ handler'[s].pc = "reply"
  <1> SUFFICES ASSUME u \notin late
               PROVE  \E s \in Handlers \ pusher.conn :
                          handler[s].pc = "store" /\ handler'[s].pc = "reply"
    OBVIOUS
  <1>1. collector[u][m] \in Nat
    BY NumbersTyped
  <1>2. collector'[u][m] # collector[u][m]
    BY <1>1
  <1>3. PICK s \in Handlers : /\ handler[s].pc = "store" /\ handler'[s].pc = "reply"
                              /\ m \in handler[s].batch[u].metrics
                              /\ collector'[u][m] = handler[s].batch[u].n
    BY <1>2, CollectorFlow
  <1>4. s \notin pusher.conn
    <2> SUFFICES ASSUME s \in pusher.conn PROVE FALSE
      OBVIOUS
    <2>1. handler[s].batch = pusher.batch
      BY DEF ConnServed
    <2>2. pusher.batch[u] # NoSample
      BY <1>3, <2>1 DEF NoSample
    <2>3. collector[u][m] <= pusher.batch[u].n
      BY <2>2 DEF PushOrder, SentUpTo
    <2>4. pusher.batch[u].n \in Nat
      BY NumbersTyped
    <2> QED
      BY <1>1, <1>3, <2>1, <2>3, <2>4
  <1> QED
    BY <1>3, <1>4

(* A result in the collector gives way to an older one only where a push the *)
(* agent has given up is stored late, or a stopped worker has overtaken its  *)
(* successor, for every number of targets, handlers and probes and every     *)
(* choice of faults.                                                         *)
THEOREM OvertakingIsAbandoned == Spec => OnlyAbandonedPushesOvertake
  <1> DEFINE Inv == TypeOK /\ ConnServed /\ PushOrder
             Overtake == \A u \in Uids, m \in Metrics :
                (collector'[u][m] # 0 /\ collector'[u][m] < collector[u][m]) =>
                    \/ u \in late
                    \/ \E s \in Handlers \ pusher.conn : handler[s].pc = "store" /\ handler'[s].pc = "reply"
  <1>1. Init => Inv
    BY InitType, LostInit, PushOrderInit
  <1>2. Inv /\ [Next]_vars => Inv'
    BY NextType, ConnServedStep, PushOrderStep
  <1>3. Inv /\ [Next]_vars => [Overtake]_vars
    BY AbandonedStep
  <1>4. OnlyAbandonedPushesOvertake <=> [][Overtake]_vars
    BY DEF OnlyAbandonedPushesOvertake
  <1> QED
    BY <1>1, <1>2, <1>3, <1>4, PTL DEF Spec

-----------------------------------------------------------------------------
(* The parts of the inductive invariant together, for all values of the      *)
(* constants.                                                                *)
THEOREM ProbeInvariantHolds == Spec => []ProbeInv
  <1> DEFINE Inv == TypeOK /\ ConnServed /\ RepliesStored /\ NothingLost /\ OneServed
                    /\ SamplesMeasured /\ TablesMeasured /\ WorkersKnown /\ SingleJobs
                    /\ StopQuiets /\ SamplesCounted /\ FreshestAlive /\ PushOrder
  <1>1. Init => Inv
    BY InitType, LostInit, MeasuredInit, WorkersKnownInit, SingleJobsInit, StopQuietsInit, CountInit,
       PushOrderInit
  <1>2. Inv /\ [Next]_vars => Inv'
    BY NextType, ConnServedStep, RepliesStoredStep, NothingLostStep, OneServedStep,
       SamplesMeasuredStep, TablesMeasuredStep, WorkersKnownStep, SingleJobsStep, StopQuietsStep,
       SamplesCountedStep, FreshestAliveStep, PushOrderStep
  <1>3. Inv => ProbeInv
    BY DEF ProbeInv, TablesMeasured
  <1> QED
    BY <1>1, <1>2, <1>3, PTL DEF Spec
=============================================================================
