--------------------------- MODULE ProbeInvariant ---------------------------
(* The inductive invariant of ProbeSystem. *)
EXTENDS ProbeSystem

\* The handler the push loop waits for has the batch of the push.
ConnServed ==
    \A s \in pusher.conn :
        /\ pusher.pc = "wait"
        /\ handler[s].pc \in {"store", "reply"}
        /\ handler[s].batch = pusher.batch

\* A handler that replies has stored everything.
RepliesStored ==
    \A s \in Handlers : handler[s].pc = "reply" =>
        \A u \in Uids : handler[s].batch[u] \in received[u] \cup {NoSample}

\* A goroutine of the pool serves one worker at a time.
OneServed == \A p \in Slots : \A v, w \in pool[p].lt : v = w

\* Samples on their way were measured for the target they go by.
BatchMeasured(batch) == \A u \in Uids : batch[u] \in measured[u] \cup {NoSample}
SamplesMeasured ==
    /\ \A p \in Slots : \A w \in pool[p].lt : pool[p].sample \in measured[lt[w].uid] \cup {NoSample}
    /\ BatchMeasured(results)
    /\ BatchMeasured(pusher.batch)
    /\ \A s \in Handlers : BatchMeasured(handler[s].batch)

\* What a table shows was measured.
TableMeasured(table) ==
    \A u \in Uids, m \in Metrics : table[u][m] # 0 =>
        \E s \in measured[u] : s.n = table[u][m] /\ m \in s.metrics

\* Workers of the map, workers about to be stopped, and workers about to be started.
WorkersKnown ==
    /\ \A u \in Uids : \A w \in targets[u] :
        lt[w].live /\ lt[w].uid = u /\ lt[w].pc # "none"
    /\ \A u \in Uids : \A v, w \in targets[u] : v = w
    /\ \A w \in Workers : lt[w].live => w \in targets[lt[w].uid] \cup manager.stop
    /\ \A w \in Workers : lt[w].pc = "created" <=> w \in manager.start
    /\ \A v \in manager.stop :
        lt[v].live /\ lt[v].pc \in {"started", "loop"} /\ v \notin targets[lt[v].uid]
    /\ \A v, w \in manager.stop : lt[v].uid = lt[w].uid => v = w
    /\ \A v \in manager.stop : targets[lt[v].uid] \subseteq manager.start
    /\ manager.pc # "apply" => manager.stop = {} /\ manager.start = {}

\* The probes of a worker without counting them: it waits in the pool once or is served by one
\* goroutine, and running says whether it is there; a worker not yet started is not.
SingleJobs ==
    /\ \A i, j \in DOMAIN queue : queue[i] = queue[j] => i = j
    /\ \A p, q \in Slots : \A w \in pool[p].lt : w \in pool[q].lt => p = q
    /\ \A i \in DOMAIN queue, p \in Slots : queue[i] \notin pool[p].lt
    /\ \A w \in Workers : lt[w].running <=> InPool(w)
    /\ \A w \in Workers : lt[w].pc = "created" => ~lt[w].running
    /\ \A p \in Slots : pool[p].pc = "idle" => pool[p].lt = {}

\* What Stop has done, step by step: contexts, scheduler, pool.
StopQuiets ==
    /\ manager.pc \in {"closing", "waiting", "stopped"} => \A w \in Workers : ~lt[w].live
    /\ manager.pc \in {"waiting", "stopped"} => closed
    /\ manager.pc = "stopped" => \A w \in Workers : ~InPool(w)

\* Samples are numbered as they are measured.
SamplesCounted ==
    /\ \A u \in Uids : \A s \in measured[u] : s.n \in 1 .. clock
    /\ BatchMeasured(last)
    /\ \A p \in Slots : pool[p].pc \in {"report", "store"} => pool[p].sample # NoSample

\* Nothing stored, or past the look at the context, is newer than what a worker that is not
\* stopped has in hand.
FreshestAlive ==
    \A p \in Slots : \A w \in pool[p].lt : (lt[w].live /\ pool[p].sample # NoSample) =>
        /\ last[lt[w].uid].n <= pool[p].sample.n
        /\ \A q \in Slots : \A v \in pool[q].lt :
            (pool[q].pc \in {"report", "store"} /\ lt[v].uid = lt[w].uid) =>
                pool[q].sample.n <= pool[p].sample.n

\* What has been sent for a target, or is in the collector, is not newer than n.
SentUpTo(handlers, table, u, n) ==
    /\ \A s \in Handlers : handlers[s].batch[u].n <= n
    /\ \A m \in Metrics : table[u][m] <= n

\* From the server back to the buffer results get newer, but for those of overtaken workers.
PushOrder ==
    \A u \in Uids \ late :
        /\ SentUpTo(handler, collector, u, last[u].n)
        /\ pusher.batch[u].n <= last[u].n /\ results[u].n <= last[u].n
        /\ results[u] # NoSample =>
              SentUpTo(handler, collector, u, results[u].n) /\ pusher.batch[u].n <= results[u].n
        /\ pusher.batch[u] # NoSample => SentUpTo(handler, collector, u, pusher.batch[u].n)

\* What ProbeProofs shows to hold in every state; its parts are named above.
ProbeInv ==
    /\ ConnServed
    /\ RepliesStored
    /\ NothingLost
    /\ OneServed
    /\ SamplesMeasured
    /\ TableMeasured(collector) /\ TableMeasured(publisher.current) /\ TableMeasured(shown)
    /\ WorkersKnown
    /\ SingleJobs
    /\ StopQuiets
    /\ SamplesCounted
    /\ FreshestAlive
    /\ PushOrder
=============================================================================
