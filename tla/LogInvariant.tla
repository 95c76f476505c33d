---------------------------- MODULE LogInvariant ----------------------------
(***************************************************************************)
(* What LogProofs shows to hold in every state of LogPipeline, and         *)
(* JobsAsListed, EachLineOnce and PublishedRight rest on.                  *)
(***************************************************************************)
EXTENDS LogPipeline

JobStates == [at : {"none", "on", "stopped"}, s : Listed \cup {NoJob.s}, next : Nat, held : Nat,
              stream : Seq(Nat), idle : Nat, busy : SUBSET Nat, dropped : SUBSET Nat, first : Nat]
ManagerStates == [at : {"select", "sync", "ended"}, stop : SUBSET Jobs,
                  start : SUBSET (Listed \X Jobs)]
LogLoopStates == [at : {"sync", "rpc", "send", "select", "ended"}, list : SUBSET Listed]

PipelineTypeOK ==
    /\ strategies \in ServerLists
    /\ logLoop \in LogLoopStates
    /\ manager \in ManagerStates
    /\ job \in [Jobs -> JobStates]
    /\ written \in Nat
    /\ counterQueue \in Seq([s : Listed, line : Nat])
    /\ updated \in [Metrics -> Seq(Nat)]
    /\ \A j \in Jobs : IF job[j].at = "none" THEN job[j] = NoJob ELSE job[j].s \in Listed

\* What the loop may send: the local strategies, with those of the server or without.
Lists == {LocalStrategies \cup list : list \in ServerLists \cup {{}}}

\* One list at most is on its way, and the loop waits with the last one it has sent.
ListsKnown ==
    /\ syncChan = <<>> \/ \E list \in Lists : syncChan = <<list>>
    /\ logLoop.at = "send" => logLoop.list \in Lists
    /\ (logLoop.at = "select" /\ syncChan # <<>>) => syncChan = <<logLoop.list>>
    /\ (logLoop.at = "select" /\ syncChan = <<>>) => DOMAIN activeTarget = {s.metric : s \in logLoop.list}

\* The map of the manager, its worklists and the jobs that run.
JobsKnown ==
    /\ \A m \in DOMAIN activeTarget : activeTarget[m] \in Jobs
    /\ \A m, n \in DOMAIN activeTarget : activeTarget[m] = activeTarget[n] => m = n
    /\ manager.at = "select" => manager.stop = {} /\ manager.start = {}
    /\ manager.at = "ended" => manager.start = {} /\ \A j \in manager.stop : job[j].at = "on"
    /\ \A j \in Jobs : job[j].at = "on" =>
        \/ job[j].s.metric \in DOMAIN activeTarget /\ activeTarget[job[j].s.metric] = j
        \/ manager.at = "sync" /\ j \in manager.stop
    /\ manager.at = "sync" => \A j \in manager.stop :
        /\ job[j].at = "on" /\ job[j].s.metric \notin DOMAIN activeTarget
        /\ \A k \in manager.stop : job[j].s.metric = job[k].s.metric => j = k
    /\ manager.at # "ended" => \A m \in DOMAIN activeTarget :
        \/ job[activeTarget[m]].at = "on" /\ job[activeTarget[m]].s.metric = m
        \/ \E s \in Listed : <<s, activeTarget[m]>> \in manager.start
    /\ \A s, t \in Listed : \A j, k \in Jobs : <<s, j>> \in manager.start /\ <<t, k>> \in manager.start =>
        /\ s.metric \in DOMAIN activeTarget /\ activeTarget[s.metric] = j
        /\ job[j].at # "on"
        /\ s.metric = t.metric => s = t

\* The lines a job has in hand, each once.
InHand(r) == ToSet(r.stream) \cup r.busy \cup ({r.held} \ {0})
HandOnce(r) ==
    /\ IsInjective(r.stream)
    /\ ToSet(r.stream) \cap r.busy = {}
    /\ r.held \notin ToSet(r.stream) \cup r.busy

\* The lines of a metric in the queue, and those counted.
Queued(queue, m) == {queue[i].line : i \in {i \in DOMAIN queue : queue[i].s.metric = m}}
PointsOnce(queue) ==
    \A i, k \in DOMAIN queue :
        queue[i].s.metric = queue[k].s.metric /\ queue[i].line = queue[k].line => i = k
Counted(m) == ToSet(updated[m])
Sent(m) == Queued(counterQueue, m) \cup Counted(m)

\* No line has been read that is not written, and a job that runs is ahead of all others
\* of its metric.
LinesAhead ==
    /\ \A j \in Jobs : job[j].next <= written /\ InHand(job[j]) \subseteq 1 .. written
    /\ \A m \in Metrics : Sent(m) \subseteq 1 .. written
    /\ \A j \in Jobs : job[j].at = "on" =>
        /\ \A k \in Jobs : job[k].s.metric = job[j].s.metric => InHand(job[k]) \subseteq 1 .. job[j].next
        /\ \A m \in Metrics : job[j].s.metric = m => Sent(m) \subseteq 1 .. job[j].next

\* A line is in one place for each metric.
OnePlace ==
    /\ \A j \in Jobs : HandOnce(job[j])
    /\ \A j \in Jobs : \A m \in Metrics : job[j].s.metric = m =>
        InHand(job[j]) \cap Sent(m) = {}
    /\ \A j, k \in Jobs : j # k /\ job[j].s.metric = job[k].s.metric => InHand(job[j]) \cap InHand(job[k]) = {}
    /\ PointsOnce(counterQueue)
    /\ \A m \in Metrics : IsInjective(updated[m]) /\ Queued(counterQueue, m) \cap Counted(m) = {}

\* Nothing a running job has read is forgotten (the first part of EachLineOnce).
Placed(r, line, queue, counted) ==
    \/ Value[line] = NoMatch
    \/ line \in ToSet(r.stream) \cup r.busy \cup r.dropped \cup {r.held}
    \/ [s |-> r.s, line |-> line] \in ToSet(queue)
    \/ line \in ToSet(counted)
LinesKept ==
    \A j \in Jobs : job[j].at = "on" =>
        \A line \in (job[j].first + 1)..job[j].next :
            Placed(job[j], line, counterQueue, updated[job[j].s.metric])

\* The lines that give a number; only those get into the queue.
Numbered == {line \in DOMAIN Value : Value[line] \in Int}
NumbersSent ==
    /\ written <= Len(Value)
    /\ counterQueue \in Seq([s : Listed, line : Numbered])
    /\ updated \in [Metrics -> Seq(Numbered)]

\* The lines of a metric that a field of its counter knows of, when the last one taken
\* is still missing there at the given stages of PointCounter.Update.
Updating == {"sum", "extremes", "count"}
Known(m, stages) ==
    SubSeq(updated[m], 1, Len(updated[m]) - (IF updater.at \in stages /\ updater.metric = m THEN 1 ELSE 0))

\* A counter that has counted, summed up and compared these lines.
IsRight(c, counted, summed, compared) ==
    /\ c = [func |-> c.func, count |-> Len(counted), sum |-> Sum(summed), max |-> c.max, min |-> c.min]
    /\ Greatest(c.max, Values(compared)) /\ Least(c.min, Values(compared))

CountersRight ==
    /\ updater = [at |-> updater.at, metric |-> updater.metric, line |-> updater.line]
    /\ updater.at \in Updating =>
        /\ updater.metric \in DOMAIN counter /\ updater.line \in Numbered
        /\ updated[updater.metric] = Append(Known(updater.metric, Updating), updater.line)
    /\ DOMAIN counter \subseteq Metrics
    /\ \A m \in Metrics \ DOMAIN counter : updated[m] = <<>>
    /\ \A m \in DOMAIN counter :
        IsRight(counter[m], Known(m, Updating), Known(m, {"sum"}), Known(m, {"sum", "extremes"}))

\* The sum SetMetrics has read is that of all lines taken or all but the last, and the
\* lock of the map keeps more from being taken.
SumRead ==
    /\ setter = [at |-> setter.at, metric |-> setter.metric, sum |-> setter.sum]
    /\ setter.at = "set" =>
        /\ setter.metric \in DOMAIN counter /\ counter[setter.metric].func = "avg"
        /\ \E n \in 0..Len(updated[setter.metric]) :
            /\ n >= Len(updated[setter.metric]) - 1
            /\ setter.sum = Sum(SubSeq(updated[setter.metric], 1, n))

ShownRight == DOMAIN gauge \subseteq DOMAIN counter /\ PublishedRight

LogInv ==
    /\ PipelineTypeOK /\ ListsKnown /\ JobsKnown /\ LinesAhead /\ OnePlace /\ LinesKept
    /\ NumbersSent /\ CountersRight /\ SumRead /\ ShownRight
=============================================================================
