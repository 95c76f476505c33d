---------------------------- MODULE LogPipeline ----------------------------
(***************************************************************************)
(* Metrics from log files (cmd/agent/logging): the loop that asks the      *)
(* server for strategies (sync.go), the manager that starts and stops the  *)
(* job of each strategy (manager.go, logging.go), its reader and its       *)
(* consumers (reader.go, consumer.go, group.go), and the counters, from    *)
(* which the metrics are set (counter.go).                                 *)
(*                                                                         *)
(* A line is its number in the file, and Value what the pattern makes of   *)
(* it.  All strategies read one file; strategies with one metric have one  *)
(* set of labels.                                                          *)
(***************************************************************************)
EXTENDS RpcClient, Sequences, SequencesExt, Functions

CONSTANTS
    LocalStrategies, \* the strategies of agent.yaml: records [metric, func]
    ServerLists,     \* what the table of strategies may hold: sets of strategies
    Jobs,            \* bound: Logging objects in use at the same time
    ConsumerNum,     \* LogConsumerNum
    StreamSize,      \* LogQueueSize
    CounterSize,     \* CounterQueueSize
    Value,           \* what each line gives: a number, or NoMatch
    NoMatch,
    MaxSyncs, MaxOtherCalls  \* bounds: calls of the logging loop, and of the others

ASSUME LogBounds == {ConsumerNum, StreamSize, CounterSize, MaxSyncs, MaxOtherCalls} \subseteq Nat
ASSUME LogLoop == "log" \in Loops
ASSUME ValuesAreNumbers == Value \in Seq(Int \cup {NoMatch})

VARIABLES
    cancelled,    \* the context of the agent is done
    strategies,   \* the table of strategies
    logLoop,      \* TickerLoggingSync; list: what it sends
    syncChan,     \* lists on their way to the manager
    manager,      \* SyncManager; stop, start: what is left of Sync
    activeTarget, \* Manager.activeTarget: the job of each metric
    job,          \* the jobs
    written,      \* lines in the file
    counterQueue, \* points on their way to the counters
    updater,      \* PointCounterManager.Update
    counter,      \* TagStringMap: the counter of each metric
    metricsMap,   \* the metrics registered
    gauge,        \* what each metric shows: the fraction <<sum, count>> or <<value, 1>>
    setter,       \* SetMetricsManager; sum: what it has read of an average
    calls,        \* counts the calls (bounds)
    updated       \* history: the lines counted for each metric

loopVars == <<cancelled, strategies, logLoop, syncChan, manager, activeTarget, metricsMap, calls>>
countVars == <<updater, counter, updated>>
vars == <<clientVars, loopVars, job, written, counterQueue, countVars, gauge, setter>>

Listed == LocalStrategies \cup UNION ServerLists
Metrics == {s.metric : s \in Listed}
NoJob == [at |-> "none", s |-> CHOOSE s \in Listed : TRUE, next |-> 0, held |-> 0,
          stream |-> <<>>, idle |-> 0, busy |-> {}, dropped |-> {}, first |-> 0]
NotSetting == [at |-> "select", metric |-> "", sum |-> 0]
NewCounter(func) == [func |-> func, count |-> 0, sum |-> 0, max |-> 0, min |-> 0]
With(f, m, x) == [n \in DOMAIN f \cup {m} |-> IF n = m THEN x ELSE f[n]]

Init ==
    /\ ClientInit
    /\ cancelled = FALSE
    /\ strategies \in ServerLists
    /\ logLoop = [at |-> "sync", list |-> {}]
    /\ syncChan = <<LocalStrategies>>
    /\ manager = [at |-> "select", stop |-> {}, start |-> {}]
    /\ activeTarget = << >>
    /\ job = [j \in Jobs |-> NoJob]
    /\ written = 0
    /\ counterQueue = <<>>
    /\ updater = [at |-> "select", metric |-> "", line |-> 0]
    /\ counter = << >>
    /\ metricsMap = {s.metric : s \in LocalStrategies}
    /\ gauge = << >> /\ setter = NotSetting
    /\ calls = [log |-> 0, other |-> 0]
    /\ updated = [m \in Metrics |-> <<>>]

-----------------------------------------------------------------------------
(* TickerLoggingSync.                                                      *)

DoSync ==
    /\ logLoop.at = "sync"
    /\ Begin("log")
    /\ calls' = [calls EXCEPT !.log = @ + 1]
    /\ logLoop' = [logLoop EXCEPT !.at = "rpc"]
    /\ UNCHANGED <<cancelled, strategies, syncChan, manager, activeTarget, metricsMap,
                   job, written, counterQueue, countVars, gauge, setter>>

(* The strategies of the server come after the local ones; a metric is     *)
(* registered once.  A call that failed looks like an empty list.          *)
Synced(list) ==
    /\ metricsMap' = metricsMap \cup {s.metric : s \in list}
    /\ logLoop' = [at |-> "send", list |-> LocalStrategies \cup list]
    /\ UNCHANGED <<cancelled, strategies, syncChan, manager, activeTarget, calls,
                   job, written, counterQueue, countVars, gauge, setter>>

SyncReturns == CallReturns("log") /\ Synced(strategies)
SyncFails == ReturnNil("log") /\ Synced({})

SendList ==
    /\ logLoop.at = "send" /\ syncChan = <<>>
    /\ syncChan' = <<logLoop.list>>
    /\ logLoop' = [logLoop EXCEPT !.at = "select"]
    /\ UNCHANGED <<clientVars, cancelled, strategies, manager, activeTarget, metricsMap, calls,
                   job, written, counterQueue, countVars, gauge, setter>>

\* The ticker and the end of the context may both be ready.
LogTick ==
    /\ logLoop.at = "select" /\ calls.log < MaxSyncs
    /\ logLoop' = [logLoop EXCEPT !.at = "sync"]
    /\ UNCHANGED <<clientVars, cancelled, strategies, syncChan, manager, activeTarget, metricsMap, calls,
                   job, written, counterQueue, countVars, gauge, setter>>

LogLoopEnds ==
    /\ logLoop.at = "select" /\ cancelled
    /\ logLoop' = [logLoop EXCEPT !.at = "ended"]
    /\ UNCHANGED <<clientVars, cancelled, strategies, syncChan, manager, activeTarget, metricsMap, calls,
                   job, written, counterQueue, countVars, gauge, setter>>

\* The other loops call the server, too.
OtherCall(l) ==
    /\ l # "log"
    /\ \/ calls.other < MaxOtherCalls /\ Begin(l) /\ calls' = [calls EXCEPT !.other = @ + 1]
       \/ (CallReturns(l) \/ ReturnNil(l)) /\ UNCHANGED calls
    /\ UNCHANGED <<cancelled, strategies, logLoop, syncChan, manager, activeTarget, metricsMap,
                   job, written, counterQueue, countVars, gauge, setter>>

ClientMoves(l) ==
    /\ ClientStep(l)
    /\ UNCHANGED <<loopVars, job, written, counterQueue, countVars, gauge, setter>>

-----------------------------------------------------------------------------
(* The manager.                                                            *)

Unused == {j \in Jobs : /\ job[j].at \in {"none", "stopped"} /\ job[j].held = 0 /\ job[j].busy = {}
                        /\ job[j].stream = <<>> \/ job[j].idle = 0
                        /\ j \notin Range(activeTarget) \cup manager.stop}

\* The strategy that gets the job of each of the metrics: the first in the list, in
\* which those of agent.yaml come first.
FirstOfEach(metrics, list) ==
    {first \in [metrics -> list] : \A m \in metrics :
        /\ first[m].metric = m
        /\ first[m] \in LocalStrategies \/ \A s \in LocalStrategies : s.metric # m}

\* A mistake a run must notice: jobs that are no longer listed stay.
SyncKeeps ==
    LET list == Head(syncChan)
        new == {s.metric : s \in list} \ DOMAIN activeTarget
    IN /\ manager.at = "select" /\ syncChan # <<>>
       /\ syncChan' = Tail(syncChan)
       /\ \E place \in Injection(new, Unused), first \in FirstOfEach(new, list) :
             /\ activeTarget' = place @@ activeTarget
             /\ manager' = [at |-> "sync", stop |-> {}, start |-> {<<first[m], place[m]>> : m \in new}]
       /\ UNCHANGED <<clientVars, cancelled, strategies, logLoop, metricsMap, calls,
                      job, written, counterQueue, countVars, gauge, setter>>

(* Manager.Sync: a job is known by metric and path, so one whose function  *)
(* or pattern alone has changed goes on as it was.                         *)
Sync ==
    LET list == Head(syncChan)
        metrics == {s.metric : s \in list}
        new == metrics \ DOMAIN activeTarget
    IN /\ manager.at = "select" /\ syncChan # <<>>
       /\ syncChan' = Tail(syncChan)
       /\ \E place \in Injection(new, Unused), first \in FirstOfEach(new, list) :
             /\ activeTarget' = [m \in metrics |-> IF m \in DOMAIN activeTarget THEN activeTarget[m]
                                                   ELSE place[m]]
             /\ manager' = [at |-> "sync", stop |-> {activeTarget[m] : m \in DOMAIN activeTarget \ metrics},
                            start |-> {<<first[m], place[m]>> : m \in new}]
       /\ UNCHANGED <<clientVars, cancelled, strategies, logLoop, metricsMap, calls,
                      job, written, counterQueue, countVars, gauge, setter>>

\* Logging.stop: the tailer ends first, then the consumers are told to.
StopJob(j) ==
    /\ j \in manager.stop
    /\ manager' = [manager EXCEPT !.stop = @ \ {j}]
    /\ job' = [job EXCEPT ![j].at = "stopped"]
    /\ UNCHANGED <<clientVars, cancelled, strategies, logLoop, syncChan, activeTarget, metricsMap, calls,
                   written, counterQueue, countVars, gauge, setter>>

\* It reads what is written from now on.
NewReader(s) == [NoJob EXCEPT !.at = "on", !.s = s, !.next = written, !.first = written]
NewGroup(reader) == [reader EXCEPT !.idle = ConsumerNum]

\* Logging.start
StartJob(s, j) ==
    /\ manager.at = "sync" /\ manager.stop = {} /\ <<s, j>> \in manager.start
    /\ manager' = [manager EXCEPT !.start = @ \ {<<s, j>>}]
    /\ job' = [job EXCEPT ![j] = NewGroup(NewReader(s))]
    /\ UNCHANGED <<clientVars, cancelled, strategies, logLoop, syncChan, activeTarget, metricsMap, calls,
                   written, counterQueue, countVars, gauge, setter>>

SyncDone ==
    /\ manager.at = "sync" /\ manager.stop = {} /\ manager.start = {}
    /\ manager' = [manager EXCEPT !.at = "select"]
    /\ UNCHANGED <<clientVars, cancelled, strategies, logLoop, syncChan, activeTarget, metricsMap, calls,
                   job, written, counterQueue, countVars, gauge, setter>>

\* SyncManager returns once it has stopped all jobs.
SyncStop ==
    /\ manager.at = "select" /\ cancelled
    /\ manager' = [manager EXCEPT !.at = "ended", !.stop = Range(activeTarget)]
    /\ UNCHANGED <<clientVars, cancelled, strategies, logLoop, syncChan, activeTarget, metricsMap, calls,
                   job, written, counterQueue, countVars, gauge, setter>>

-----------------------------------------------------------------------------
(* A job.                                                                  *)

OnlyJob == UNCHANGED <<clientVars, loopVars, written, countVars, gauge, setter>>

\* The tailer hands the reader the next line.
Read(j) ==
    /\ job[j].at = "on" /\ job[j].held = 0 /\ job[j].next < written
    /\ job' = [job EXCEPT ![j].next = @ + 1, ![j].held = job[j].next + 1]
    /\ OnlyJob /\ UNCHANGED counterQueue

\* Reader.Start: a line for which the stream has no room is dropped.  The loop puts
\* the line it holds even after the tailer has ended.
Put(j) ==
    /\ job[j].held # 0
    /\ IF Len(job[j].stream) < StreamSize
       THEN job' = [job EXCEPT ![j].stream = Append(@, job[j].held), ![j].held = 0]
       ELSE job' = [job EXCEPT ![j].dropped = @ \cup {job[j].held}, ![j].held = 0]
    /\ OnlyJob /\ UNCHANGED counterQueue

\* Consumer.worker: a line is taken, also when the consumer is to end.
TakeLine(j) ==
    /\ job[j].idle > 0 /\ job[j].stream # <<>>
    /\ job' = [job EXCEPT ![j].stream = Tail(@), ![j].idle = @ - 1, ![j].busy = @ \cup {Head(job[j].stream)}]
    /\ OnlyJob /\ UNCHANGED counterQueue

\* A mistake a run must notice: a point for which the queue has no room is dropped.
AnalyseOrDrop(j, line) ==
    /\ line \in job[j].busy
    /\ counterQueue' = IF Value[line] = NoMatch \/ Len(counterQueue) = CounterSize THEN counterQueue
                       ELSE Append(counterQueue, [s |-> job[j].s, line |-> line])
    /\ job' = [job EXCEPT ![j].busy = @ \ {line}, ![j].idle = @ + 1]
    /\ OnlyJob

\* Consumer.analysis: a line that does not match gives nothing; a point waits until
\* the queue has room.
Analyse(j, line) ==
    /\ line \in job[j].busy
    /\ IF Value[line] = NoMatch THEN UNCHANGED counterQueue
       ELSE /\ Len(counterQueue) < CounterSize
            /\ counterQueue' = Append(counterQueue, [s |-> job[j].s, line |-> line])
    /\ job' = [job EXCEPT ![j].busy = @ \ {line}, ![j].idle = @ + 1]
    /\ OnlyJob

ConsumerEnds(j) ==
    /\ job[j].at = "stopped" /\ job[j].idle > 0
    /\ job' = [job EXCEPT ![j].idle = @ - 1]
    /\ OnlyJob /\ UNCHANGED counterQueue

-----------------------------------------------------------------------------
(* The counters.                                                           *)

OnlyCount == UNCHANGED <<clientVars, loopVars, job, written, setter>>

\* PointCounterManager.Update: a new counter keeps the function of its first point.  The
\* map has a lock, which SetMetrics holds.
TakePoint ==
    LET p == Head(counterQueue)
    IN /\ updater.at = "select" /\ counterQueue # <<>> /\ setter.at # "set"
       /\ counterQueue' = Tail(counterQueue)
       /\ counter' = IF p.s.metric \in DOMAIN counter THEN counter
                     ELSE With(counter, p.s.metric, NewCounter(p.s.func))
       /\ updater' = [at |-> "sum", metric |-> p.s.metric, line |-> p.line]
       /\ updated' = [updated EXCEPT ![p.s.metric] = Append(@, p.line)]
       /\ OnlyCount /\ UNCHANGED gauge

\* PointCounter.Update, under a lock that SetMetrics does not take.
UpdateField(from, to, c) ==
    /\ updater.at = from
    /\ updater' = [updater EXCEPT !.at = to]
    /\ counter' = [counter EXCEPT ![updater.metric] = c]
    /\ OnlyCount /\ UNCHANGED <<counterQueue, gauge, updated>>

UpdateSum == LET c == counter[updater.metric]
             IN UpdateField("sum", "extremes", [c EXCEPT !.sum = @ + Value[updater.line]])

\* A mistake a run must notice: the last value is the maximum.
LastExtremes == LET c == counter[updater.metric]  v == Value[updater.line]
                IN UpdateField("extremes", "count", [c EXCEPT !.max = v, !.min = v])

\* Both begin at zero.
UpdateExtremes == LET c == counter[updater.metric]  v == Value[updater.line]
                  IN UpdateField("extremes", "count", [c EXCEPT !.max = IF v > @ THEN v ELSE @,
                                                                !.min = IF v < @ THEN v ELSE @])

UpdateCount == LET c == counter[updater.metric]
               IN UpdateField("count", "select", [c EXCEPT !.count = @ + 1])

UpdaterEnds ==
    /\ updater.at = "select" /\ cancelled
    /\ updater' = [updater EXCEPT !.at = "ended"]
    /\ OnlyCount /\ UNCHANGED <<counterQueue, counter, gauge, updated>>

\* A function that does not exist shows zero.
Shown(c) == CASE c.func = "cnt" -> c.count [] c.func = "sum" -> c.sum
              [] c.func = "max" -> c.max   [] c.func = "min" -> c.min
              [] OTHER -> 0

\* PointCounterManager.SetMetrics, for one counter; an average needs two fields.
SetMetrics(m) ==
    /\ setter.at = "select" /\ m \in DOMAIN counter \cap metricsMap
    /\ IF counter[m].func = "avg"
       THEN setter' = [at |-> "set", metric |-> m, sum |-> counter[m].sum] /\ UNCHANGED gauge
       ELSE gauge' = With(gauge, m, <<Shown(counter[m]), 1>>) /\ UNCHANGED setter
    /\ UNCHANGED <<clientVars, loopVars, job, written, counterQueue, countVars>>

SetAverage ==
    /\ setter.at = "set"
    /\ gauge' = With(gauge, setter.metric, <<setter.sum, counter[setter.metric].count>>)
    /\ setter' = NotSetting
    /\ UNCHANGED <<clientVars, loopVars, job, written, counterQueue, countVars>>

SetterEnds ==
    /\ setter.at = "select" /\ cancelled
    /\ setter' = [setter EXCEPT !.at = "ended"]
    /\ UNCHANGED <<clientVars, loopVars, job, written, counterQueue, countVars, gauge>>

-----------------------------------------------------------------------------
(* The world.                                                              *)

WriteLine ==
    /\ written < Len(Value) /\ written' = written + 1
    /\ UNCHANGED <<clientVars, loopVars, job, counterQueue, countVars, gauge, setter>>

ChangeStrategies ==
    /\ strategies' \in ServerLists \ {strategies}
    /\ UNCHANGED <<clientVars, cancelled, logLoop, syncChan, manager, activeTarget, metricsMap, calls,
                   job, written, counterQueue, countVars, gauge, setter>>

\* SIGTERM
Cancel ==
    /\ ~cancelled /\ cancelled' = TRUE
    /\ UNCHANGED <<clientVars, strategies, logLoop, syncChan, manager, activeTarget, metricsMap, calls,
                   job, written, counterQueue, countVars, gauge, setter>>

LogLoopStep == DoSync \/ SyncReturns \/ SyncFails \/ SendList \/ LogTick \/ ClientMoves("log")
ManagerStep ==
    \/ Sync \/ SyncDone \/ SyncStop
    \/ \E j \in Jobs : StopJob(j) \/ \E s \in Listed : StartJob(s, j)
JobStep(j) ==
    \/ Read(j) \/ Put(j) \/ TakeLine(j) \/ ConsumerEnds(j)
    \/ \E line \in job[j].busy : Analyse(j, line)
UpdaterStep == TakePoint \/ UpdateSum \/ UpdateExtremes \/ UpdateCount

Next ==
    /\ ~panicked
    /\ \/ LogLoopStep \/ LogLoopEnds \/ ManagerStep
       \/ \E l \in Loops \ {"log"} : OtherCall(l) \/ ClientMoves(l)
       \/ \E j \in Jobs : JobStep(j)
       \/ UpdaterStep \/ UpdaterEnds
       \/ (\E m \in Metrics : SetMetrics(m)) \/ SetAverage \/ SetterEnds
       \/ WriteLine \/ ChangeStrategies \/ Cancel

(* Every goroutine goes on, and a loop that may end ends at some time.     *)
Fairness ==
    /\ WF_vars(~panicked /\ LogLoopStep) /\ SF_vars(~panicked /\ LogLoopEnds)
    /\ WF_vars(~panicked /\ ManagerStep)
    /\ \A j \in Jobs : WF_vars(~panicked /\ JobStep(j))
    /\ WF_vars(~panicked /\ UpdaterStep) /\ SF_vars(~panicked /\ UpdaterEnds)
    /\ WF_vars(~panicked /\ SetAverage) /\ SF_vars(~panicked /\ SetterEnds)

Spec == Init /\ [][Next]_vars
FairSpec == Spec /\ Fairness
-----------------------------------------------------------------------------
(* Properties.                                                             *)

\* When the manager has nothing left to do, exactly one job runs for each metric in
\* the last list sent, and none for any other: through failed calls, lists that
\* overtake the manager, and strategies that come back while their old job ends.
JobsAsListed == (manager.at = "select" /\ syncChan = <<>> /\ logLoop.at = "select") =>
    /\ DOMAIN activeTarget = {s.metric : s \in logLoop.list}
    /\ {job[j].s.metric : j \in {j \in Jobs : job[j].at = "on"}} = DOMAIN activeTarget
    /\ \A j, k \in Jobs : job[j].at = "on" /\ job[k].at = "on" /\ j # k => job[j].s.metric # job[k].s.metric

\* Every line that a job has read since it began, and that matches, is on its way or
\* counted, unless the stream was full or the job was stopped; and none is counted
\* twice, also not by a job that was stopped and one that was started for the same
\* metric while consumers of the first still worked.
EachLineOnce ==
    /\ \A j \in Jobs : job[j].at = "on" =>
        \A line \in (job[j].first + 1)..job[j].next :
            \/ Value[line] = NoMatch
            \/ line \in ToSet(job[j].stream) \cup job[j].busy \cup job[j].dropped \cup {job[j].held}
            \/ \E k \in DOMAIN counterQueue : counterQueue[k] = [s |-> job[j].s, line |-> line]
            \/ line \in ToSet(updated[job[j].s.metric])
    /\ \A m \in Metrics : \A i, k \in DOMAIN updated[m] : updated[m][i] = updated[m][k] => i = k

(* What a function is of the values counted.                               *)
Sum(lines) ==
    LET upTo[n \in 0..Len(lines)] == IF n = 0 THEN 0 ELSE upTo[n - 1] + Value[lines[n]]
    IN upTo[Len(lines)]
Values(lines) == {0} \cup {Value[line] : line \in ToSet(lines)}
Greatest(x, S) == x \in S /\ \A y \in S : y <= x
Least(x, S) == x \in S /\ \A y \in S : y >= x
Gives(func, lines, x) ==
    CASE func = "cnt" -> x = Len(lines)
      [] func = "sum" -> x = Sum(lines)
      [] func = "max" -> Greatest(x, Values(lines))
      [] func = "min" -> Least(x, Values(lines))
      [] OTHER -> x = 0

\* What a metric shows is its function of the first n values counted for it, for some
\* n; only an average may be a sum of n values divided by one more or one less, as
\* SetMetrics reads the counter while Update changes it.  (Greatest and least value
\* count from zero.)
PublishedRight == \A m \in DOMAIN gauge : \E n \in 0..Len(updated[m]) :
    LET func == counter[m].func
        first == SubSeq(updated[m], 1, n)
    IN IF func = "avg" THEN gauge[m][1] = Sum(first) /\ gauge[m][2] \in (n - 1)..(n + 1)
       ELSE Gives(func, first, gauge[m][1]) /\ gauge[m][2] = 1

\* "Everybody who uses ctx gets ctx.Done, all advance and retreat together": when the
\* context ends, all loops of the log pipeline return (main.go waits for all of them).
ShutsDown == cancelled ~> (panicked \/ (logLoop.at = "ended" /\ manager.at = "ended"
                                         /\ updater.at = "ended" /\ setter.at = "ended"))
=============================================================================
