---------------------------- MODULE ProbeServer ----------------------------
(***************************************************************************)
(* The server half of probing (cmd/server/xprober/data.go): PushResults    *)
(* handlers store results in the collector, and every 15 seconds Publish   *)
(* drops those that are too old and rebuilds the metrics from the rest.    *)
(*                                                                         *)
(* The n-th probe of the agent that returns is numbered n.  The number     *)
(* stands for the timestamp and the values of its samples, and time is     *)
(* known by it: results up to horizon are older than resultTTL.            *)
(*                                                                         *)
(* One agent: results of different agents have different keys.             *)
(***************************************************************************)
EXTENDS Naturals, FiniteSets, Sequences

CONSTANTS
    Uids,        \* targets, by type, region and address
    Metrics,     \* the metrics of a probe that succeeds
    FailMetrics, \* those of one that fails (a failed ping has no latency)
    MaxProbes,   \* bound: probes that return samples
    Handlers,    \* bound: PushResults calls the server runs at the same time
    Faults       \* which failures happen (see FaultKinds)

FaultKinds == {
    "noSamples",    \* a probe returns no samples
    "unsent",       \* a push never reaches the server
    "timeout",      \* the agent gives up on a push the server still handles
    "serverCrash",  \* the server process restarts
    "shutdown" }    \* the agent is told to stop

ASSUME UidsAssumption == Uids # {}
ASSUME MetricsAssumption == FailMetrics \subseteq Metrics /\ FailMetrics # {}
ASSUME MaxProbesAssumption == MaxProbes \in Nat
ASSUME FaultsAssumption == Faults \subseteq FaultKinds

\* What one probe of a target has returned: its number, and its metrics.
Samples == [n : 0 .. MaxProbes, metrics : SUBSET Metrics]
NoSample == [n |-> 0, metrics |-> {}]

\* The results of one push, by target; and what a table of metrics shows (0: nothing).
Batches == [Uids -> Samples]
EmptyBatch == [u \in Uids |-> NoSample]
Tables == [Uids -> [Metrics -> 0 .. MaxProbes]]
EmptyTable == [u \in Uids |-> [m \in Metrics |-> 0]]

\* Mistakes in Put a run must notice: values are added up; a failed probe overwrites all metrics.
PutAdds(shown, s) == [m \in Metrics |-> IF m \in s.metrics THEN shown[m] + s.n ELSE shown[m]]
PutAll(shown, s) == [m \in Metrics |-> IF s # NoSample THEN s.n ELSE shown[m]]

\* Metrics keep what they show until a sample of theirs arrives.
Put(shown, s) == [m \in Metrics |-> IF m \in s.metrics THEN s.n ELSE shown[m]]

HandlerStates == [pc : {"free", "store", "reply"}, batch : Batches]
FreeHandler == [pc |-> "free", batch |-> EmptyBatch]

PublisherStates == [pc : {"idle", "reset", "set"}, current : Tables, left : SUBSET Uids]
IdlePublisher == [pc |-> "idle", current |-> EmptyTable, left |-> {}]

VARIABLES
    handler,   \* the PushResults calls being served
    collector, \* Collector.results: the probe the result of each key is from
    horizon,   \* results up to this one are older than resultTTL
    publisher, \* the goroutine of DataProcess inside Publish
    shown,     \* infraops_probe_value, as a scrape would see it
    received   \* history: the results the collector has ever stored

serverVars == <<handler, collector, horizon, publisher, shown, received>>

ServerTypeOK ==
    /\ handler \in [Handlers -> HandlerStates]
    /\ collector \in Tables
    /\ horizon \in 0 .. MaxProbes
    /\ publisher \in PublisherStates
    /\ shown \in Tables
    /\ received \in [Uids -> SUBSET Samples]

ServerInit ==
    /\ handler = [s \in Handlers |-> FreeHandler]
    /\ collector = EmptyTable
    /\ horizon = 0
    /\ publisher = IdlePublisher
    /\ shown = EmptyTable
    /\ received = [u \in Uids |-> {}]

-----------------------------------------------------------------------------
(* PushResults.                                                            *)

Receive(s, batch) ==
    /\ handler[s].pc = "free"
    /\ handler' = [handler EXCEPT ![s] = [pc |-> "store", batch |-> batch]]
    /\ UNCHANGED <<collector, horizon, publisher, shown, received>>

\* Collector.Store: the results take the place of what is there, whatever its age.
StoreResults(s) ==
    /\ handler[s].pc = "store"
    /\ collector' = [u \in Uids |-> Put(collector[u], handler[s].batch[u])]
    /\ received' = [u \in Uids |-> received[u] \cup ({handler[s].batch[u]} \ {NoSample})]
    /\ handler' = [handler EXCEPT ![s].pc = "reply"]
    /\ UNCHANGED <<horizon, publisher, shown>>

\* SuccessNum is the number of results: all have a metric name.
Reply(s) ==
    /\ handler[s].pc = "reply"
    /\ handler' = [handler EXCEPT ![s] = FreeHandler]
    /\ UNCHANGED <<collector, horizon, publisher, shown, received>>

-----------------------------------------------------------------------------
(* Publish.                                                                *)

\* Time passes; now is the number of the last probe.
Age(now) ==
    /\ horizon < now
    /\ horizon' = horizon + 1
    /\ UNCHANGED <<handler, collector, publisher, shown, received>>

Fresh(table) == [u \in Uids |-> [m \in Metrics |-> IF table[u][m] > horizon THEN table[u][m] ELSE 0]]

\* Under the lock: drop what is too old, copy the rest.
PublishCopy ==
    /\ publisher.pc = "idle"
    /\ collector' = Fresh(collector)
    /\ publisher' = [pc |-> "reset", current |-> Fresh(collector), left |-> Uids]
    /\ UNCHANGED <<handler, horizon, shown, received>>

\* A mistake in PublishReset a run must notice: metrics are set without being reset.
PublishKeeps ==
    /\ publisher.pc = "reset"
    /\ publisher' = [publisher EXCEPT !.pc = "set"]
    /\ UNCHANGED <<handler, collector, horizon, shown, received>>

PublishReset ==
    /\ publisher.pc = "reset"
    /\ shown' = EmptyTable
    /\ publisher' = [publisher EXCEPT !.pc = "set"]
    /\ UNCHANGED <<handler, collector, horizon, received>>

\* The metrics of a target, in the order of the copy (that of a Go map).
PublishSet(u) ==
    /\ publisher.pc = "set" /\ u \in publisher.left
    /\ shown' = [shown EXCEPT ![u] = [m \in Metrics |->
                    IF publisher.current[u][m] # 0 THEN publisher.current[u][m] ELSE shown[u][m]]]
    /\ publisher' = [publisher EXCEPT !.left = @ \ {u}]
    /\ UNCHANGED <<handler, collector, horizon, received>>

\* A mistake in PublishDone a run must notice: the copy without the old results becomes the map.
PublishWritesBack ==
    /\ publisher.pc = "set" /\ publisher.left = {}
    /\ collector' = publisher.current
    /\ publisher' = IdlePublisher
    /\ UNCHANGED <<handler, horizon, shown, received>>

PublishDone ==
    /\ publisher.pc = "set" /\ publisher.left = {}
    /\ publisher' = IdlePublisher
    /\ UNCHANGED <<handler, collector, horizon, shown, received>>

Publish == PublishCopy \/ PublishReset \/ PublishDone \/ \E u \in Uids : PublishSet(u)

\* The process restarts: results, metrics and running handlers are gone (external).
ServerRestart ==
    /\ "serverCrash" \in Faults
    /\ handler' = [s \in Handlers |-> FreeHandler]
    /\ collector' = EmptyTable
    /\ publisher' = IdlePublisher
    /\ shown' = EmptyTable
    /\ UNCHANGED <<horizon, received>>
=============================================================================
