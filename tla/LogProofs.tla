----------------------------- MODULE LogProofs -----------------------------
(***************************************************************************)
(* Proofs about LogPipeline, for any strategies, jobs, consumers, queues   *)
(* and lines and any number of calls.                                      *)
(*                                                                         *)
(* First what holds of the client that the loops of an agent share without *)
(* a lock (ClientIsOpen and PanicNeedsAnError of RpcClient), then LogInv:  *)
(* the jobs are those of the last list (JobsAsListed), and every line is   *)
(* counted once (EachLineOnce).                                            *)
(***************************************************************************)
EXTENDS LogInvariant, FiniteSetTheorems, WellFoundedInduction, TLAPS

-----------------------------------------------------------------------------
(* The client.                                                             *)

ClientActs(l) == Begin(l) \/ CallReturns(l) \/ ReturnNil(l) \/ ClientStep(l)

\* Whatever the pipeline does, its client does one of its actions or nothing.
LEMMA ClientSteps ==
    ASSUME [Next]_vars
    PROVE  (\E l \in Loops : ClientActs(l)) \/ UNCHANGED clientVars
  <1> USE LogLoop DEF ClientActs
  <1>1. CASE LogLoopStep
    BY <1>1 DEF LogLoopStep, DoSync, SyncReturns, SyncFails, SendList, LogTick, ClientMoves
  <1>2. CASE LogLoopEnds
    BY <1>2 DEF LogLoopEnds
  <1>3. CASE ManagerStep
    <2>1. ASSUME NEW j \in Jobs, StopJob(j) \/ \E s \in Listed : StartJob(s, j)
          PROVE  UNCHANGED clientVars
      BY <2>1 DEF StopJob, StartJob
    <2>2. CASE Sync \/ SyncDone \/ SyncStop
      BY <2>2 DEF Sync, SyncDone, SyncStop
    <2> QED
      BY <1>3, <2>1, <2>2 DEF ManagerStep
  <1>4. ASSUME NEW l \in Loops \ {"log"}, OtherCall(l) \/ ClientMoves(l)
        PROVE  ClientActs(l)
    BY <1>4 DEF OtherCall, ClientMoves
  <1>5. ASSUME NEW j \in Jobs, JobStep(j)
        PROVE  UNCHANGED clientVars
    BY <1>5 DEF JobStep, Read, Put, TakeLine, ConsumerEnds, Analyse, OnlyJob
  <1>6. CASE UpdaterStep \/ UpdaterEnds
    BY <1>6 DEF UpdaterStep, UpdaterEnds, TakePoint, UpdateSum, UpdateExtremes, UpdateCount,
                UpdateField, OnlyCount
  <1>7. CASE (\E m \in Metrics : SetMetrics(m)) \/ SetAverage \/ SetterEnds
    BY <1>7 DEF SetMetrics, SetAverage, SetterEnds
  <1>8. CASE WriteLine \/ ChangeStrategies \/ Cancel
    BY <1>8 DEF WriteLine, ChangeStrategies, Cancel
  <1>9. CASE UNCHANGED vars
    BY <1>9 DEF vars
  <1> QED
    BY <1>1, <1>2, <1>3, <1>4, <1>5, <1>6, <1>7, <1>8, <1>9 DEF Next

-----------------------------------------------------------------------------
(* ClientIsOpen.                                                           *)

\* A loop that is to close a connection has taken it out of the field before, and no
\* connection gets into the field twice.
ClientInv ==
    /\ ClientTypeOK /\ errors \in Nat
    /\ ClientIsOpen
    /\ \A l \in Loops : rpc[l].conn # NoConn =>
          /\ rpc[l].conn \in dialled
          /\ rpc[l].at \in {"wait", "nil"}
          /\ rpc[l].at = "nil" => rpc[l].conn # brpcClient

LEMMA ClientInvInit == Init => ClientInv
  <1> SUFFICES ASSUME Init PROVE ClientInv
    OBVIOUS
  <1> USE RpcBounds DEF Init, ClientInit, IdleRpc
  <1>1. open \subseteq Conns /\ (open # {} => brpcClient \in open) /\ (open = {} => brpcClient = NoConn)
    OBVIOUS
  <1> QED
    BY <1>1 DEF ClientInv, ClientTypeOK, ClientIsOpen

LEMMA ClientInvStep == ClientInv /\ [Next]_vars => ClientInv'
  <1> SUFFICES ASSUME ClientInv, [Next]_vars PROVE ClientInv'
    OBVIOUS
  <1>1. CASE UNCHANGED clientVars
    BY <1>1 DEF clientVars, ClientInv, ClientTypeOK, ClientIsOpen
  <1>2. ASSUME NEW l \in Loops, ClientActs(l) PROVE ClientInv'
    <2> USE RpcBounds DEF ClientInv, ClientTypeOK, ClientIsOpen, Goto, IdleRpc
    <2>1. CASE Begin(l)
      BY <2>1 DEF Begin
    <2>2. CASE CallReturns(l)
      BY <2>2 DEF CallReturns
    <2>3. CASE ReturnNil(l)
      BY <2>3 DEF ReturnNil
    <2>4. CASE Get(l)
      BY <2>4 DEF Get
    <2>5. CASE DialFails(l)
      BY <2>5 DEF DialFails
    <2>6. CASE Dial(l)
      BY <2>6 DEF Dial
    <2>7. CASE Call(l)
      BY <2>7 DEF Call
    <2>8. CASE CallFails(l)
      BY <2>8 DEF CallFails
    <2>9. CASE Close(l)
      BY <2>9 DEF Close
    <2>10. CASE CloseClient(l)
      BY <2>10 DEF CloseClient
    <2> QED
      BY <1>2, <2>1, <2>2, <2>3, <2>4, <2>5, <2>6, <2>7, <2>8, <2>9, <2>10 DEF ClientActs, ClientStep
  <1> QED
    BY <1>1, <1>2, ClientSteps

(* The client never holds a connection that has been closed, however many    *)
(* loops share it, dial at the same time and close it under each other.      *)
THEOREM ClientHoldsOpen == Spec => []ClientIsOpen
  <1>1. ClientInv => ClientIsOpen
    BY DEF ClientInv
  <1> QED
    BY <1>1, ClientInvInit, ClientInvStep, PTL DEF Spec

-----------------------------------------------------------------------------
(* PanicNeedsAnError.                                                      *)

Dialling == {l \in Loops : rpc[l].at = "dial"}

\* Until a call has failed, loops dial only as long as there is no connection at all,
\* and nobody closes one: each loop adds at most one.
Calm ==
    errors = 0 =>
        /\ ~panicked
        /\ \A l \in Loops : /\ rpc[l].at \in {"idle", "get", "dial", "call", "wait"}
                            /\ rpc[l].at = "call" => brpcClient # NoConn
                            /\ rpc[l].at = "wait" => rpc[l].conn \in open
        /\ brpcClient = NoConn => open = {}
        /\ IsFiniteSet(open)
        /\ Cardinality(open) + Cardinality(Dialling) <= Cardinality(Loops)

LEMMA DiallingFinite ==
    /\ IsFiniteSet(Loops) /\ Cardinality(Loops) \in Nat
    /\ IsFiniteSet(Dialling) /\ Cardinality(Dialling) \in Nat /\ Cardinality(Dialling) <= Cardinality(Loops)
  <1>1. IsFiniteSet(Loops)
    BY RpcBounds
  <1>2. Dialling \subseteq Loops
    BY DEF Dialling
  <1> QED
    BY <1>1, <1>2, FS_Subset, FS_CardinalityType

LEMMA CalmInit == Init => Calm
  <1> SUFFICES ASSUME Init PROVE Calm
    OBVIOUS
  <1>1. Dialling = {}
    BY DEF Init, ClientInit, IdleRpc, Dialling
  <1>2. IsFiniteSet({}) /\ Cardinality({}) = 0
    BY FS_EmptySet
  <1>3. open = {} \/ \E c \in Conns : open = {c}
    BY DEF Init, ClientInit
  <1>4. IsFiniteSet(open) /\ (Cardinality(open) = 0 \/ Cardinality(open) = 1)
    <2>1. ASSUME NEW c, open = {c} PROVE IsFiniteSet(open) /\ Cardinality(open) = 1
      <3>1. IsFiniteSet({c}) /\ Cardinality({c}) = 1
        BY FS_Singleton
      <3> QED
        BY <2>1, <3>1, Zenon
    <2> QED
      BY <1>2, <1>3, <2>1, Zenon
  <1>5. Cardinality(Loops) # 0
    BY LogLoop, DiallingFinite, FS_EmptySet, Zenon
  <1>6. Cardinality(Dialling) = 0
    BY <1>1, <1>2, Zenon
  <1>7. Cardinality(open) + Cardinality(Dialling) <= Cardinality(Loops)
    BY <1>4, <1>5, <1>6, DiallingFinite, SMT
  <1>8. brpcClient = NoConn => open = {}
    BY RpcBounds DEF Init, ClientInit
  <1> QED
    BY <1>4, <1>7, <1>8 DEF Calm, Init, ClientInit, IdleRpc

\* A loop that stops to dial, or does not begin to, leaves the sum where it was.
LEMMA CalmStep == ClientInv /\ Calm /\ [Next]_vars => Calm'
  <1> SUFFICES ASSUME ClientInv, Calm, [Next]_vars PROVE Calm'
    OBVIOUS
  <1> USE DEF ClientInv, ClientTypeOK
  <1>1. CASE UNCHANGED clientVars
    <2>1. Dialling' = Dialling
      BY <1>1 DEF clientVars, Dialling
    <2> QED
      BY <1>1, <2>1 DEF clientVars, Calm
  <1>2. ASSUME NEW l \in Loops, ClientActs(l) PROVE Calm'
    <2>1. CASE errors' # 0
      BY <2>1 DEF Calm
    <2>2. CASE errors' = 0
      <3>1. errors = 0
        BY <1>2, <2>2 DEF ClientActs, Begin, CallReturns, ReturnNil, ClientStep, Get, DialFails, Dial,
                          Call, CallFails, Close, CloseClient
      <3>2. Calm!2
        BY <3>1 DEF Calm
      <3>3. CASE Begin(l) \/ CallReturns(l) \/ Call(l)
        <4>1. Dialling' = Dialling
          BY <3>3 DEF Begin, CallReturns, Call, Goto, IdleRpc, Dialling
        <4>2. open' = open /\ brpcClient' = brpcClient
          BY <3>3 DEF Begin, CallReturns, Call
        <4>3. ~panicked'
          BY <3>2, <3>3 DEF Begin, CallReturns, Call
        <4>4. \A k \in Loops : /\ rpc'[k].at \in {"idle", "get", "dial", "call", "wait"}
                               /\ rpc'[k].at = "call" => brpcClient # NoConn
                               /\ rpc'[k].at = "wait" => rpc'[k].conn \in open
          BY <3>2, <3>3 DEF Begin, CallReturns, Call, Goto, IdleRpc, ClientIsOpen
        <4> QED
          BY <3>2, <4>1, <4>2, <4>3, <4>4 DEF Calm
      <3>4. CASE Get(l)
        <4>1. open' = open /\ brpcClient' = brpcClient /\ panicked' = panicked
          BY <3>4 DEF Get
        <4>2. \A k \in Loops : /\ rpc'[k].at \in {"idle", "get", "dial", "call", "wait"}
                               /\ rpc'[k].at = "call" => brpcClient # NoConn
                               /\ rpc'[k].at = "wait" => rpc'[k].conn \in open
          BY <3>2, <3>4 DEF Get, Goto
        <4>3. CASE brpcClient = NoConn
          <5>1. Cardinality(open) = 0
            BY <3>2, <4>3, FS_EmptySet
          <5>2. Dialling' \subseteq Loops
            BY DEF Dialling
          <5>3. Cardinality(Dialling') <= Cardinality(Loops) /\ Cardinality(Dialling') \in Nat
            BY <5>2, RpcBounds, FS_Subset, FS_CardinalityType
          <5> QED
            BY <3>2, <4>1, <4>2, <5>1, <5>3 DEF Calm
        <4>4. CASE brpcClient # NoConn
          <5>1. Dialling' = Dialling
            BY <3>4, <4>4 DEF Get, Goto, Dialling
          <5> QED
            BY <3>2, <4>1, <4>2, <5>1 DEF Calm
        <4> QED
          BY <4>3, <4>4
      <3>5. CASE Dial(l)
        <4>1. PICK c \in Conns \ dialled : brpcClient' = c /\ open' = open \cup {c}
          BY <3>5 DEF Dial
        <4>2. c \notin open /\ c # NoConn
          BY RpcBounds
        <4>3. IsFiniteSet(open') /\ Cardinality(open') = Cardinality(open) + 1 /\ Cardinality(open) \in Nat
          BY <3>2, <4>1, <4>2, FS_AddElement, FS_CardinalityType
        <4>4. Dialling' = Dialling \ {l} /\ l \in Dialling
          BY <3>5 DEF Dial, Goto, Dialling
        <4>5. Cardinality(Dialling') = Cardinality(Dialling) - 1
          BY <4>4, DiallingFinite, FS_RemoveElement
        <4>6. panicked' = panicked
          BY <3>5 DEF Dial
        <4>7. \A k \in Loops : /\ rpc'[k].at \in {"idle", "get", "dial", "call", "wait"}
                               /\ rpc'[k].at = "wait" => rpc'[k].conn \in open'
          BY <3>2, <3>5, <4>1 DEF Dial, Goto
        <4> QED
          BY <3>2, <4>1, <4>2, <4>3, <4>5, <4>6, <4>7, DiallingFinite DEF Calm
      <3>6. ~(ReturnNil(l) \/ DialFails(l) \/ CallFails(l) \/ Close(l) \/ CloseClient(l))
        BY <2>2, <3>1, <3>2 DEF ReturnNil, DialFails, CallFails, Close, CloseClient
      <3> QED
        BY <1>2, <3>3, <3>4, <3>5, <3>6 DEF ClientActs, ClientStep
    <2> QED
      BY <2>1, <2>2
  <1> QED
    BY <1>1, <1>2, ClientSteps

(* Before the first failed call no loop uses the client after it has been set *)
(* to nil, and at most one connection per loop is open, for any number of     *)
(* loops that dial at the same time.                                          *)
THEOREM PanicsNeedErrors == Spec => []PanicNeedsAnError
  <1>1. ClientInv /\ Calm => PanicNeedsAnError
    <2> SUFFICES ASSUME Calm, errors = 0 PROVE ~panicked /\ Cardinality(open) <= Cardinality(Loops)
      BY DEF PanicNeedsAnError
    <2>1. Cardinality(open) \in Nat
      BY FS_CardinalityType DEF Calm
    <2> QED
      BY <2>1, DiallingFinite DEF Calm
  <1> QED
    BY <1>1, ClientInvInit, ClientInvStep, CalmInit, CalmStep, PTL DEF Spec

-----------------------------------------------------------------------------
(* Sequences without repetitions.                                          *)

LEMMA AppendOnce ==
    ASSUME NEW S, NEW s \in Seq(S), NEW x
    PROVE  /\ ToSet(Append(s, x)) = ToSet(s) \cup {x}
           /\ IsInjective(s) /\ x \notin ToSet(s) => IsInjective(Append(s, x))
  <1>1. /\ DOMAIN s = 1 .. Len(s) /\ Len(s) \in Nat
        /\ DOMAIN Append(s, x) = 1 .. (Len(s) + 1)
        /\ \A i \in 1 .. Len(s) : Append(s, x)[i] = s[i]
        /\ Append(s, x)[Len(s) + 1] = x
    OBVIOUS
  <1> DEFINE t == Append(s, x)
             n == Len(s) + 1
  <1>2. /\ DOMAIN t = DOMAIN s \cup {n} /\ n \notin DOMAIN s
        /\ t[n] = x /\ \A i \in DOMAIN s : t[i] = s[i]
    BY <1>1
  <1> HIDE DEF t, n
  <1>3. ToSet(t) = ToSet(s) \cup {x}
    BY <1>2 DEF ToSet
  <1>4. IsInjective(s) /\ x \notin ToSet(s) => IsInjective(t)
    BY <1>2 DEF ToSet, IsInjective
  <1> QED
    BY <1>3, <1>4 DEF t

LEMMA TailFacts ==
    ASSUME NEW S, NEW s \in Seq(S), s # <<>>
    PROVE  /\ Tail(s) \in Seq(S) /\ Head(s) = s[1] /\ 1 \in DOMAIN s /\ Head(s) \in S
           /\ \A i \in DOMAIN Tail(s) : i + 1 \in DOMAIN s /\ i + 1 # 1 /\ Tail(s)[i] = s[i + 1]
           /\ \A i \in DOMAIN s : i = 1 \/ \E j \in DOMAIN Tail(s) : i = j + 1
           /\ \A i, j \in DOMAIN Tail(s) : i + 1 = j + 1 => i = j
  <1>1. /\ DOMAIN s = 1 .. Len(s) /\ Len(s) \in Nat /\ Len(s) > 0
        /\ DOMAIN Tail(s) = 1 .. (Len(s) - 1)
        /\ \A i \in 1 .. (Len(s) - 1) : Tail(s)[i] = s[i + 1]
        /\ Head(s) = s[1] /\ Tail(s) \in Seq(S)
    OBVIOUS
  <1>2. ASSUME NEW i \in DOMAIN s, i # 1 PROVE i - 1 \in DOMAIN Tail(s) /\ i = (i - 1) + 1
    BY <1>1, <1>2
  <1>3. 1 \in DOMAIN s /\ Head(s) \in S
    BY <1>1
  <1>4. \A i \in DOMAIN Tail(s) : i + 1 \in DOMAIN s /\ i + 1 # 1 /\ Tail(s)[i] = s[i + 1]
    BY <1>1
  <1>5. \A i, j \in DOMAIN Tail(s) : i + 1 = j + 1 => i = j
    BY <1>1
  <1>6. \A i \in DOMAIN s : i = 1 \/ \E j \in DOMAIN Tail(s) : i = j + 1
    BY <1>2
  <1> QED
    BY <1>1, <1>3, <1>4, <1>5, <1>6

LEMMA TailOnce ==
    ASSUME NEW S, NEW s \in Seq(S), s # <<>>
    PROVE  /\ ToSet(s) = {Head(s)} \cup ToSet(Tail(s))
           /\ IsInjective(s) => IsInjective(Tail(s)) /\ Head(s) \notin ToSet(Tail(s))
  <1> DEFINE t == Tail(s)
  <1>1. /\ Head(s) = s[1] /\ 1 \in DOMAIN s
        /\ \A i \in DOMAIN t : i + 1 \in DOMAIN s /\ i + 1 # 1 /\ t[i] = s[i + 1]
        /\ \A i \in DOMAIN s : i = 1 \/ \E j \in DOMAIN t : i = j + 1
        /\ \A i, j \in DOMAIN t : i + 1 = j + 1 => i = j
    BY TailFacts
  <1> HIDE DEF t
  <1>2. ToSet(s) = {Head(s)} \cup ToSet(t)
    BY <1>1 DEF ToSet
  <1>3. IsInjective(s) => IsInjective(t) /\ Head(s) \notin ToSet(t)
    BY <1>1 DEF ToSet, IsInjective
  <1> QED
    BY <1>2, <1>3 DEF t

\* The queue of points: what Append adds and Tail takes.
LEMMA QueuedAppend ==
    ASSUME NEW S, NEW q \in Seq(S), NEW p
    PROVE  /\ \A m : Queued(Append(q, p), m) = Queued(q, m) \cup (IF p.s.metric = m THEN {p.line} ELSE {})
           /\ PointsOnce(q) /\ p.line \notin Queued(q, p.s.metric) => PointsOnce(Append(q, p))
  <1>1. /\ DOMAIN q = 1 .. Len(q) /\ Len(q) \in Nat
        /\ DOMAIN Append(q, p) = 1 .. (Len(q) + 1)
        /\ \A i \in 1 .. Len(q) : Append(q, p)[i] = q[i]
        /\ Append(q, p)[Len(q) + 1] = p
    OBVIOUS
  <1> DEFINE t == Append(q, p)
             n == Len(q) + 1
  <1>2. /\ DOMAIN t = DOMAIN q \cup {n} /\ n \notin DOMAIN q
        /\ t[n] = p /\ \A i \in DOMAIN q : t[i] = q[i]
    BY <1>1
  <1> HIDE DEF t, n
  <1>3. ASSUME NEW m PROVE Queued(t, m) = Queued(q, m) \cup (IF p.s.metric = m THEN {p.line} ELSE {})
    BY <1>2 DEF Queued
  <1>4. PointsOnce(q) /\ p.line \notin Queued(q, p.s.metric) => PointsOnce(t)
    BY <1>2 DEF PointsOnce, Queued
  <1> QED
    BY <1>3, <1>4 DEF t

LEMMA QueuedTail ==
    ASSUME NEW S, NEW q \in Seq(S), q # <<>>
    PROVE  LET p == Head(q)
           IN  /\ \A m : Queued(q, m) = Queued(Tail(q), m) \cup (IF p.s.metric = m THEN {p.line} ELSE {})
               /\ PointsOnce(q) => PointsOnce(Tail(q)) /\ p.line \notin Queued(Tail(q), p.s.metric)
  <1> DEFINE t == Tail(q)
             p == Head(q)
  <1>1. /\ p = q[1] /\ 1 \in DOMAIN q
        /\ \A i \in DOMAIN t : i + 1 \in DOMAIN q /\ i + 1 # 1 /\ t[i] = q[i + 1]
        /\ \A i \in DOMAIN q : i = 1 \/ \E j \in DOMAIN t : i = j + 1
        /\ \A i, j \in DOMAIN t : i + 1 = j + 1 => i = j
    BY TailFacts
  <1> HIDE DEF t, p
  <1>2. ASSUME NEW m PROVE Queued(q, m) = Queued(t, m) \cup (IF p.s.metric = m THEN {p.line} ELSE {})
    <2>1. \A x \in Queued(q, m) : x \in Queued(t, m) \/ (p.s.metric = m /\ x = p.line)
      BY <1>1 DEF Queued
    <2>2. Queued(t, m) \subseteq Queued(q, m)
      BY <1>1 DEF Queued
    <2>3. p.s.metric = m => p.line \in Queued(q, m)
      BY <1>1 DEF Queued
    <2> QED
      BY <2>1, <2>2, <2>3
  <1>3. PointsOnce(q) => PointsOnce(t)
    <2> SUFFICES ASSUME PointsOnce(q), NEW i \in DOMAIN t, NEW k \in DOMAIN t,
                        t[i].s.metric = t[k].s.metric, t[i].line = t[k].line
                 PROVE  i = k
      BY DEF PointsOnce
    <2>1. i + 1 = k + 1
      BY <1>1 DEF PointsOnce
    <2> QED
      BY <1>1, <2>1
  <1>4. PointsOnce(q) => p.line \notin Queued(t, p.s.metric)
    BY <1>1 DEF PointsOnce, Queued
  <1> QED
    BY <1>2, <1>3, <1>4 DEF t, p

-----------------------------------------------------------------------------
(* Types.                                                                  *)

pipelineVars == <<strategies, logLoop, syncChan, manager, activeTarget, job, written, counterQueue, updated>>

\* The steps that the invariant is about.
LEMMA PipelineSteps ==
    ASSUME [Next]_vars
    PROVE  \/ DoSync \/ SyncReturns \/ SyncFails \/ SendList \/ LogTick \/ LogLoopEnds
           \/ Sync \/ SyncDone \/ SyncStop
           \/ \E j \in Jobs : StopJob(j) \/ \E s \in Listed : StartJob(s, j)
           \/ \E j \in Jobs : JobStep(j)
           \/ TakePoint \/ WriteLine \/ ChangeStrategies
           \/ UNCHANGED pipelineVars
  <1>1. ASSUME NEW l \in Loops, OtherCall(l) \/ ClientMoves(l) PROVE UNCHANGED pipelineVars
    BY <1>1 DEF OtherCall, ClientMoves, pipelineVars, loopVars, countVars
  <1>2. CASE UpdateSum \/ UpdateExtremes \/ UpdateCount
    BY <1>2 DEF UpdateSum, UpdateExtremes, UpdateCount, UpdateField, OnlyCount, pipelineVars, loopVars
  <1>3. CASE UpdaterEnds
    BY <1>3 DEF UpdaterEnds, OnlyCount, pipelineVars, loopVars
  <1>4. CASE (\E m \in Metrics : SetMetrics(m)) \/ SetAverage \/ SetterEnds
    BY <1>4 DEF SetMetrics, SetAverage, SetterEnds, pipelineVars, loopVars, countVars
  <1>5. CASE Cancel
    BY <1>5 DEF Cancel, pipelineVars, countVars
  <1>6. CASE UNCHANGED vars
    BY <1>6 DEF vars, pipelineVars, loopVars, countVars
  <1> QED
    BY LogLoop, <1>1, <1>2, <1>3, <1>4, <1>5, <1>6 DEF Next, LogLoopStep, ManagerStep, UpdaterStep

LEMMA NoJobIs == NoJob \in JobStates /\ InHand(NoJob) = {} /\ HandOnce(NoJob) /\ NoJob.at = "none"
                 /\ NoJob.next = 0 /\ NoJob.stream = <<>> /\ NoJob.held = 0 /\ NoJob.busy = {}
  <1>1. <<>> \in Seq(Nat)
    OBVIOUS
  <1>2. DOMAIN <<>> = {}
    OBVIOUS
  <1> QED
    BY <1>1, <1>2 DEF NoJob, JobStates, InHand, HandOnce, ToSet, IsInjective

LEMMA PipelineTypeInit == Init => PipelineTypeOK
  <1> SUFFICES ASSUME Init PROVE PipelineTypeOK
    OBVIOUS
  <1>1. job = [j \in Jobs |-> NoJob] /\ job \in [Jobs -> JobStates]
    BY NoJobIs DEF Init
  <1>2. counterQueue \in Seq([s : Listed, line : Nat]) /\ updated \in [Metrics -> Seq(Nat)]
    <2>1. <<>> \in Seq(Nat) /\ <<>> \in Seq([s : Listed, line : Nat])
      OBVIOUS
    <2> QED
      BY <2>1 DEF Init
  <1>3. logLoop \in LogLoopStates /\ manager \in ManagerStates
    BY DEF Init, LogLoopStates, ManagerStates
  <1> QED
    BY <1>1, <1>2, <1>3, NoJobIs DEF Init, PipelineTypeOK

\* What a step of a job does to it and to the queue.
LEMMA JobStepFacts ==
    ASSUME PipelineTypeOK, NEW j \in Jobs, JobStep(j)
    PROVE  /\ UNCHANGED <<strategies, logLoop, syncChan, manager, activeTarget, written, updated>>
           /\ \A k \in Jobs \ {j} : job'[k] = job[k]
           /\ job'[j] \in JobStates /\ job' \in [Jobs -> JobStates]
           /\ job'[j].at = job[j].at /\ job'[j].s = job[j].s /\ job'[j].first = job[j].first
           /\ job[j].at # "none"
  <1>1. job \in [Jobs -> JobStates] /\ written \in Nat /\ job[j] \in JobStates
    BY DEF PipelineTypeOK
  <1>2. UNCHANGED <<strategies, logLoop, syncChan, manager, activeTarget, written, updated>>
    BY DEF JobStep, Read, Put, TakeLine, ConsumerEnds, Analyse, OnlyJob, loopVars, countVars
  <1>3. job[j].at # "none"
    <2> SUFFICES ASSUME job[j] = NoJob PROVE FALSE
      BY DEF PipelineTypeOK
    <2> QED
      BY DEF NoJob, JobStep, Read, Put, TakeLine, ConsumerEnds, Analyse
  <1>4. ASSUME NEW r, job' = [job EXCEPT ![j] = r], r \in JobStates,
               r.at = job[j].at, r.s = job[j].s, r.first = job[j].first
        PROVE  /\ \A k \in Jobs \ {j} : job'[k] = job[k]
               /\ job'[j] \in JobStates /\ job' \in [Jobs -> JobStates]
               /\ job'[j].at = job[j].at /\ job'[j].s = job[j].s /\ job'[j].first = job[j].first
    BY <1>1, <1>4
  <1>5. CASE Read(j)
    <2> DEFINE r == [job[j] EXCEPT !.next = job[j].next + 1, !.held = job[j].next + 1]
    <2>1. job' = [job EXCEPT ![j] = r]
      BY <1>1, <1>5 DEF Read, JobStates
    <2>2. job[j] \in JobStates /\ job[j].next + 1 \in Nat
      BY <1>1 DEF JobStates
    <2>3. r \in JobStates /\ r.at = job[j].at /\ r.s = job[j].s /\ r.first = job[j].first
      BY <2>2 DEF JobStates
    <2> HIDE DEF r
    <2> QED
      BY <1>2, <1>3, <1>4, <2>1, <2>3
  <1>6. CASE Put(j)
    <2> DEFINE r == IF Len(job[j].stream) < StreamSize
                    THEN [job[j] EXCEPT !.stream = Append(job[j].stream, job[j].held), !.held = 0]
                    ELSE [job[j] EXCEPT !.dropped = job[j].dropped \cup {job[j].held}, !.held = 0]
    <2>1. job' = [job EXCEPT ![j] = r]
      <3>1. CASE Len(job[j].stream) < StreamSize
        BY <1>1, <1>6, <3>1 DEF Put, JobStates
      <3>2. CASE ~(Len(job[j].stream) < StreamSize)
        BY <1>1, <1>6, <3>2 DEF Put, JobStates
      <3> QED
        BY <3>1, <3>2
    <2>2. job[j] \in JobStates /\ Append(job[j].stream, job[j].held) \in Seq(Nat)
      BY <1>1 DEF JobStates
    <2>3. r \in JobStates /\ r.at = job[j].at /\ r.s = job[j].s /\ r.first = job[j].first
      BY <2>2 DEF JobStates
    <2> HIDE DEF r
    <2> QED
      BY <1>2, <1>3, <1>4, <2>1, <2>3
  <1>7. CASE TakeLine(j)
    <2> DEFINE r == [job[j] EXCEPT !.stream = Tail(@), !.idle = @ - 1, !.busy = @ \cup {Head(job[j].stream)}]
    <2>1. job' = [job EXCEPT ![j] = r] /\ job[j].idle > 0 /\ job[j].stream # <<>>
      BY <1>1, <1>7 DEF TakeLine, JobStates
    <2>2. job[j] \in JobStates /\ job[j].stream \in Seq(Nat)
      BY <1>1 DEF JobStates
    <2>3. Tail(job[j].stream) \in Seq(Nat) /\ Head(job[j].stream) \in Nat
      BY <2>1, <2>2, TailFacts
    <2>4. job[j].idle - 1 \in Nat
      BY <2>1, <2>2 DEF JobStates
    <2>5. r \in JobStates /\ r.at = job[j].at /\ r.s = job[j].s /\ r.first = job[j].first
      BY <2>2, <2>3, <2>4 DEF JobStates
    <2> HIDE DEF r
    <2> QED
      BY <1>2, <1>3, <1>4, <2>1, <2>5
  <1>8. ASSUME NEW line \in job[j].busy, Analyse(j, line)
        PROVE  /\ \A k \in Jobs \ {j} : job'[k] = job[k]
               /\ job'[j] \in JobStates /\ job' \in [Jobs -> JobStates]
               /\ job'[j].at = job[j].at /\ job'[j].s = job[j].s /\ job'[j].first = job[j].first
    <2> DEFINE r == [job[j] EXCEPT !.busy = job[j].busy \ {line}, !.idle = job[j].idle + 1]
    <2>1. job' = [job EXCEPT ![j] = r]
      BY <1>1, <1>8 DEF Analyse, JobStates
    <2>2. job[j] \in JobStates /\ job[j].busy \ {line} \in SUBSET Nat /\ job[j].idle + 1 \in Nat
      BY <1>1 DEF JobStates
    <2>3. r \in JobStates /\ r.at = job[j].at /\ r.s = job[j].s /\ r.first = job[j].first
      BY <2>2 DEF JobStates
    <2> HIDE DEF r
    <2> QED
      BY <1>4, <2>1, <2>3
  <1>9. CASE ConsumerEnds(j)
    <2> DEFINE r == [job[j] EXCEPT !.idle = job[j].idle - 1]
    <2>1. job' = [job EXCEPT ![j] = r] /\ job[j].idle > 0
      BY <1>1, <1>9 DEF ConsumerEnds, JobStates
    <2>2. job[j] \in JobStates /\ job[j].idle - 1 \in Nat
      BY <1>1, <2>1 DEF JobStates
    <2>3. r \in JobStates /\ r.at = job[j].at /\ r.s = job[j].s /\ r.first = job[j].first
      BY <2>2 DEF JobStates
    <2> HIDE DEF r
    <2> QED
      BY <1>2, <1>3, <1>4, <2>1, <2>3
  <1> QED
    BY <1>2, <1>3, <1>5, <1>6, <1>7, <1>8, <1>9 DEF JobStep

\* The queue: a line a consumer has analysed joins it, or nothing does.
LEMMA QueueFlow ==
    ASSUME PipelineTypeOK, NEW j \in Jobs, JobStep(j)
    PROVE  \/ UNCHANGED counterQueue
           \/ \E line \in job[j].busy : /\ Analyse(j, line)
                                        /\ counterQueue' = Append(counterQueue, [s |-> job[j].s, line |-> line])
  BY DEF JobStep, Read, Put, TakeLine, ConsumerEnds, Analyse

\* Starting and stopping a job.
LEMMA StopJobFacts ==
    ASSUME PipelineTypeOK, NEW j \in Jobs, StopJob(j)
    PROVE  /\ j \in manager.stop /\ manager' \in ManagerStates
           /\ manager'.stop = manager.stop \ {j} /\ manager'.start = manager.start /\ manager'.at = manager.at
           /\ job' \in [Jobs -> JobStates]
           /\ job'[j].at = "stopped" /\ \A k \in Jobs \ {j} : job'[k] = job[k]
           /\ \A k \in Jobs : /\ job'[k].s = job[k].s /\ job'[k].next = job[k].next
                              /\ job'[k].held = job[k].held /\ job'[k].stream = job[k].stream
                              /\ job'[k].busy = job[k].busy /\ job'[k].first = job[k].first
  <1>1. /\ job \in [Jobs -> JobStates] /\ manager \in ManagerStates /\ job[j] \in JobStates
    BY DEF PipelineTypeOK
  <1> DEFINE r == [job[j] EXCEPT !.at = "stopped"]
  <1>2. job' = [job EXCEPT ![j] = r]
    BY <1>1 DEF StopJob
  <1>3. /\ r \in JobStates /\ r.at = "stopped" /\ r.s = job[j].s /\ r.next = job[j].next
        /\ r.held = job[j].held /\ r.stream = job[j].stream
        /\ r.busy = job[j].busy /\ r.first = job[j].first
    BY <1>1 DEF JobStates
  <1>4. /\ j \in manager.stop /\ manager' \in ManagerStates
        /\ manager'.stop = manager.stop \ {j} /\ manager'.start = manager.start /\ manager'.at = manager.at
    BY <1>1 DEF StopJob, ManagerStates
  <1> HIDE DEF r
  <1> QED
    BY <1>1, <1>2, <1>3, <1>4

LEMMA StartJobFacts ==
    ASSUME PipelineTypeOK, NEW s \in Listed, NEW j \in Jobs, StartJob(s, j)
    PROVE  /\ manager.at = "sync" /\ manager.stop = {} /\ <<s, j>> \in manager.start
           /\ manager' \in ManagerStates /\ manager'.at = "sync" /\ manager'.stop = {}
           /\ manager'.start = manager.start \ {<<s, j>>}
           /\ job' \in [Jobs -> JobStates] /\ \A k \in Jobs \ {j} : job'[k] = job[k]
           /\ job'[j].at = "on" /\ job'[j].s = s /\ job'[j].next = written /\ job'[j].first = written
           /\ job'[j].held = 0 /\ job'[j].stream = <<>> /\ job'[j].busy = {}
  <1>1. /\ job \in [Jobs -> JobStates] /\ written \in Nat /\ manager \in ManagerStates
    BY DEF PipelineTypeOK
  <1> DEFINE r == NewGroup(NewReader(s))
  <1>2. job' = [job EXCEPT ![j] = r]
    BY DEF StartJob
  <1>3. ConsumerNum \in Nat
    BY LogBounds
  <1>4. /\ r \in JobStates
        /\ r.at = "on" /\ r.s = s /\ r.next = written /\ r.first = written
        /\ r.held = 0 /\ r.stream = <<>> /\ r.busy = {}
    BY <1>1, <1>3, NoJobIs DEF NewGroup, NewReader, JobStates
  <1> HIDE DEF r
  <1>5. /\ manager.at = "sync" /\ manager.stop = {} /\ <<s, j>> \in manager.start
        /\ manager' \in ManagerStates /\ manager'.at = "sync" /\ manager'.stop = {}
        /\ manager'.start = manager.start \ {<<s, j>>}
    BY <1>1 DEF StartJob, ManagerStates
  <1> QED
    BY <1>1, <1>2, <1>4, <1>5

\* Sync: the jobs of metrics no longer listed are to be stopped, new ones get unused jobs.
LEMMA SyncFacts ==
    ASSUME PipelineTypeOK, ListsKnown, JobsKnown, Sync
    PROVE  \E list \in Lists :
             LET metrics == {s.metric : s \in list}
             IN  /\ syncChan = <<list>> /\ syncChan' = <<>>
                 /\ manager.at = "select" /\ manager'.at = "sync" /\ manager' \in ManagerStates
                 /\ DOMAIN activeTarget' = metrics
                 /\ manager'.stop = {activeTarget[m] : m \in DOMAIN activeTarget \ metrics}
                 /\ \A m \in metrics \cap DOMAIN activeTarget : activeTarget'[m] = activeTarget[m]
                 /\ \A m \in metrics \ DOMAIN activeTarget :
                      /\ activeTarget'[m] \in Unused
                      /\ \A n \in metrics \ DOMAIN activeTarget :
                            activeTarget'[m] = activeTarget'[n] => m = n
                 /\ \A s \in Listed : \A j \in Jobs : <<s, j>> \in manager'.start =>
                      s.metric \in metrics \ DOMAIN activeTarget /\ j = activeTarget'[s.metric]
                 /\ \A m \in metrics \ DOMAIN activeTarget :
                      \E s \in Listed : s.metric = m /\ <<s, activeTarget'[m]>> \in manager'.start
                 /\ \A s, t \in Listed : \A j, k \in Jobs :
                      <<s, j>> \in manager'.start /\ <<t, k>> \in manager'.start /\ s.metric = t.metric => s = t
  <1> DEFINE list == Head(syncChan)
             metrics == {s.metric : s \in list}
             new == metrics \ DOMAIN activeTarget
  <1>3. PICK place \in Injection(new, Unused), first \in FirstOfEach(new, list) :
            /\ activeTarget' = [m \in metrics |-> IF m \in DOMAIN activeTarget THEN activeTarget[m]
                                                  ELSE place[m]]
            /\ manager' = [at |-> "sync", stop |-> {activeTarget[m] : m \in DOMAIN activeTarget \ metrics},
                            start |-> {<<first[m], place[m]>> : m \in new}]
    BY Zenon DEF Sync
  <1>0. PICK l \in Lists : syncChan = <<l>>
    BY DEF Sync, ListsKnown
  <1>1. list \in Lists /\ syncChan = <<list>>
    BY <1>0
  <1>2. Tail(syncChan) = <<>>
    BY <1>0
  <1> HIDE DEF list
  <1>5. list \subseteq Listed
    BY <1>1 DEF Lists, Listed
  <1>6. /\ place \in [new -> Unused] /\ \A m, n \in new : place[m] = place[n] => m = n
        /\ first \in [new -> Listed] /\ \A m \in new : first[m].metric = m
    BY <1>5 DEF Injection, IsInjective, FirstOfEach
  <1>9. DOMAIN activeTarget' = metrics
    BY <1>3
  <1>10. \A m \in new : activeTarget'[m] = place[m]
    BY <1>3
  <1>11. \A m \in metrics \cap DOMAIN activeTarget : activeTarget'[m] = activeTarget[m]
    BY <1>3
  <1> HIDE DEF metrics
  <1>13. \A m \in new : activeTarget'[m] \in Unused /\ \A n \in new : activeTarget'[m] = activeTarget'[n] => m = n
    BY <1>6, <1>10
  <1>14. manager \in ManagerStates /\ manager.at = "select"
    BY DEF PipelineTypeOK, Sync
  <1>15. /\ manager'.at = "sync" /\ manager'.stop = {activeTarget[m] : m \in DOMAIN activeTarget \ metrics}
         /\ manager'.start = {<<first[m], place[m]>> : m \in new}
    BY <1>3, <1>14 DEF ManagerStates
  <1>16. \A s \in Listed : \A j \in Jobs : <<s, j>> \in manager'.start =>
              s.metric \in new /\ s = first[s.metric] /\ j = activeTarget'[s.metric]
    BY <1>6, <1>10, <1>15
  <1>12. \A m \in new : \E s \in Listed : s.metric = m /\ <<s, activeTarget'[m]>> \in manager'.start
    BY <1>6, <1>10, <1>15
  <1>17. manager' \in ManagerStates
    <2>1. {activeTarget[m] : m \in DOMAIN activeTarget \ metrics} \subseteq Jobs
      BY DEF JobsKnown
    <2>2. {<<first[m], place[m]>> : m \in new} \subseteq Listed \X Jobs
      BY <1>6 DEF Unused
    <2> QED
      BY <1>3, <1>14, <2>1, <2>2 DEF ManagerStates
  <1>18. syncChan' = <<>>
    BY <1>2 DEF Sync
  <1> QED
    BY <1>1, <1>9, <1>11, <1>12, <1>13, <1>14, <1>15, <1>16, <1>17, <1>18 DEF metrics

LEMMA PipelineTypeStep == PipelineTypeOK /\ ListsKnown /\ JobsKnown /\ [Next]_vars => PipelineTypeOK'
  <1> SUFFICES ASSUME PipelineTypeOK, ListsKnown, JobsKnown, [Next]_vars PROVE PipelineTypeOK'
    OBVIOUS
  <1> USE DEF PipelineTypeOK
  <1>1. CASE DoSync \/ SyncReturns \/ SyncFails \/ SendList \/ LogTick \/ LogLoopEnds
    <2>1. UNCHANGED <<strategies, manager, job, written, counterQueue, updated>>
      BY <1>1 DEF DoSync, SyncReturns, SyncFails, Synced, SendList, LogTick, LogLoopEnds, countVars
    <2>2. logLoop' \in LogLoopStates
      <3>1. CASE SyncReturns
        BY <3>1 DEF SyncReturns, Synced, LogLoopStates, Listed
      <3>2. CASE SyncFails
        BY <3>2 DEF SyncFails, Synced, LogLoopStates, Listed
      <3>3. CASE DoSync \/ SendList \/ LogTick \/ LogLoopEnds
        BY <3>3 DEF DoSync, SendList, LogTick, LogLoopEnds, LogLoopStates
      <3> QED
        BY <1>1, <3>1, <3>2, <3>3
    <2> QED
      BY <2>1, <2>2
  <1>2. CASE Sync
    <2>1. manager' \in ManagerStates
      BY <1>2, SyncFacts
    <2>2. UNCHANGED <<strategies, logLoop, job, written, counterQueue, updated>>
      BY <1>2 DEF Sync, countVars
    <2> QED
      BY <2>1, <2>2
  <1>3. CASE SyncDone \/ SyncStop
    <2>1. Range(activeTarget) \subseteq Jobs
      BY DEF JobsKnown, Range
    <2>2. manager' \in ManagerStates
      BY <1>3, <2>1 DEF SyncDone, SyncStop, ManagerStates
    <2>3. UNCHANGED <<strategies, logLoop, job, written, counterQueue, updated>>
      BY <1>3 DEF SyncDone, SyncStop, countVars
    <2> QED
      BY <2>2, <2>3
  <1>4. ASSUME NEW j \in Jobs, StopJob(j) PROVE PipelineTypeOK'
    <2>1. UNCHANGED <<strategies, logLoop, written, counterQueue, updated>>
      BY <1>4 DEF StopJob, countVars
    <2>2. job[j].at = "on"
      <3>1. j \in manager.stop /\ manager.at \in {"select", "sync", "ended"}
        BY <1>4 DEF StopJob, ManagerStates
      <3> QED
        BY <3>1 DEF JobsKnown
    <2>3. \A k \in Jobs : IF job'[k].at = "none" THEN job'[k] = NoJob ELSE job'[k].s \in Listed
      BY <1>4, <2>2, StopJobFacts
    <2> QED
      BY <1>4, <2>1, <2>3, StopJobFacts
  <1>5. ASSUME NEW s \in Listed, NEW j \in Jobs, StartJob(s, j) PROVE PipelineTypeOK'
    <2>1. UNCHANGED <<strategies, logLoop, written, counterQueue, updated>>
      BY <1>5 DEF StartJob, countVars
    <2>2. \A k \in Jobs : IF job'[k].at = "none" THEN job'[k] = NoJob ELSE job'[k].s \in Listed
      <3>1. job'[j].at = "on" /\ job'[j].s = s /\ \A k \in Jobs \ {j} : job'[k] = job[k]
        BY <1>5, StartJobFacts
      <3> QED
        BY <3>1
    <2> QED
      BY <1>5, <2>1, <2>2, StartJobFacts
  <1>6. ASSUME NEW j \in Jobs, JobStep(j) PROVE PipelineTypeOK'
    <2>1. counterQueue' \in Seq([s : Listed, line : Nat])
      <3>1. ASSUME NEW line \in job[j].busy,
                   counterQueue' = Append(counterQueue, [s |-> job[j].s, line |-> line])
            PROVE  counterQueue' \in Seq([s : Listed, line : Nat])
        <4>1. line \in Nat /\ job[j].s \in Listed
          BY <1>6, JobStepFacts DEF JobStates
        <4> QED
          BY <3>1, <4>1
      <3> QED
        BY <1>6, <3>1, QueueFlow
    <2>2. \A k \in Jobs : IF job'[k].at = "none" THEN job'[k] = NoJob ELSE job'[k].s \in Listed
      BY <1>6, JobStepFacts
    <2> QED
      BY <1>6, <2>1, <2>2, JobStepFacts
  <1>7. CASE TakePoint
    <2> DEFINE p == Head(counterQueue)
    <2>1. UNCHANGED <<strategies, logLoop, manager, job, written>>
      BY <1>7 DEF TakePoint, OnlyCount, loopVars
    <2>2. /\ p \in [s : Listed, line : Nat] /\ Tail(counterQueue) \in Seq([s : Listed, line : Nat])
          /\ counterQueue' = Tail(counterQueue)
          /\ updated' = [updated EXCEPT ![p.s.metric] = Append(@, p.line)]
      BY <1>7, TailFacts DEF TakePoint
    <2> HIDE DEF p
    <2>3. p.s.metric \in Metrics /\ p.line \in Nat
      BY <2>2 DEF Metrics
    <2>4. updated' \in [Metrics -> Seq(Nat)]
      <3>1. Append(updated[p.s.metric], p.line) \in Seq(Nat)
        BY <2>3
      <3> QED
        BY <2>2, <2>3, <3>1
    <2> QED
      BY <2>1, <2>2, <2>4
  <1>8. CASE WriteLine
    BY <1>8 DEF WriteLine, loopVars, countVars
  <1>9. CASE ChangeStrategies
    BY <1>9 DEF ChangeStrategies, countVars
  <1>10. CASE UNCHANGED pipelineVars
    BY <1>10 DEF pipelineVars
  <1> QED
    BY <1>1, <1>2, <1>3, <1>4, <1>5, <1>6, <1>7, <1>8, <1>9, <1>10, PipelineSteps

-----------------------------------------------------------------------------
(* The lists.                                                              *)

LEMMA ListsKnownInit == Init => ListsKnown
  <1> SUFFICES ASSUME Init PROVE ListsKnown
    OBVIOUS
  <1>1. LocalStrategies \cup {} = LocalStrategies
    OBVIOUS
  <1>2. LocalStrategies \in Lists
    BY <1>1 DEF Lists
  <1>3. logLoop.at = "sync" /\ syncChan = <<LocalStrategies>>
    BY DEF Init
  <1> QED
    BY <1>2, <1>3 DEF ListsKnown

LEMMA ListsKnownStep == PipelineTypeOK /\ ListsKnown /\ JobsKnown /\ [Next]_vars => ListsKnown'
  <1> SUFFICES ASSUME PipelineTypeOK, ListsKnown, JobsKnown, [Next]_vars PROVE ListsKnown'
    OBVIOUS
  <1>0. strategies \in ServerLists /\ logLoop \in LogLoopStates
    BY DEF PipelineTypeOK
  <1>1. CASE SyncReturns \/ SyncFails
    <2>1. PICK known \in ServerLists \cup {{}} : Synced(known)
      BY <1>0, <1>1 DEF SyncReturns, SyncFails
    <2>2. /\ logLoop' = [at |-> "send", list |-> LocalStrategies \cup known]
          /\ UNCHANGED <<syncChan, activeTarget>>
      BY <2>1 DEF Synced
    <2>3. LocalStrategies \cup known \in Lists
      BY DEF Lists
    <2> QED
      BY <2>2, <2>3 DEF ListsKnown
  <1>2. CASE SendList
    <2>1. /\ logLoop.at = "send" /\ syncChan' = <<logLoop.list>>
          /\ logLoop'.at = "select" /\ logLoop'.list = logLoop.list /\ UNCHANGED activeTarget
      BY <1>0, <1>2 DEF SendList, LogLoopStates
    <2>2. syncChan' # <<>>
      BY <2>1
    <2> QED
      BY <2>1, <2>2 DEF ListsKnown
  <1>3. CASE DoSync \/ LogTick \/ LogLoopEnds
    <2>1. logLoop'.at \in {"rpc", "sync", "ended"} /\ UNCHANGED <<syncChan, activeTarget>>
      BY <1>0, <1>3 DEF DoSync, LogTick, LogLoopEnds, LogLoopStates
    <2> QED
      BY <2>1 DEF ListsKnown
  <1>4. CASE Sync
    <2>1. PICK list \in Lists : /\ syncChan = <<list>> /\ syncChan' = <<>>
                                /\ DOMAIN activeTarget' = {s.metric : s \in list}
      BY <1>4, SyncFacts
    <2>2. UNCHANGED logLoop
      BY <1>4 DEF Sync
    <2>3. logLoop.at = "select" => list = logLoop.list
      BY <2>1 DEF ListsKnown
    <2> QED
      BY <2>1, <2>2, <2>3 DEF ListsKnown
  <1>5. ASSUME UNCHANGED <<logLoop, syncChan, activeTarget>> PROVE ListsKnown'
    BY <1>5 DEF ListsKnown
  <1>6. CASE SyncDone \/ SyncStop
    BY <1>5, <1>6 DEF SyncDone, SyncStop
  <1>7. ASSUME NEW j \in Jobs, StopJob(j) \/ \E s \in Listed : StartJob(s, j) PROVE ListsKnown'
    BY <1>5, <1>7 DEF StopJob, StartJob
  <1>8. ASSUME NEW j \in Jobs, JobStep(j) PROVE ListsKnown'
    BY <1>5, <1>8, JobStepFacts
  <1>9. CASE TakePoint \/ WriteLine \/ ChangeStrategies \/ UNCHANGED pipelineVars
    BY <1>5, <1>9 DEF TakePoint, OnlyCount, WriteLine, ChangeStrategies, pipelineVars, loopVars
  <1> QED
    BY <1>1, <1>2, <1>3, <1>4, <1>6, <1>7, <1>8, <1>9, PipelineSteps

-----------------------------------------------------------------------------
(* The jobs.                                                               *)

LEMMA JobsKnownInit == Init => JobsKnown
  <1> SUFFICES ASSUME Init PROVE JobsKnown
    OBVIOUS
  <1>0. DOMAIN <<>> = {}
    OBVIOUS
  <1>1. DOMAIN activeTarget = {} /\ manager = [at |-> "select", stop |-> {}, start |-> {}]
    BY <1>0 DEF Init
  <1>2. \A j \in Jobs : job[j].at # "on"
    BY NoJobIs DEF Init
  <1> QED
    BY <1>1, <1>2 DEF JobsKnown

\* Two running jobs never have one metric.
LEMMA OneOn ==
    ASSUME JobsKnown, NEW j \in Jobs, NEW k \in Jobs, job[j].at = "on", job[k].at = "on",
           job[j].s.metric = job[k].s.metric
    PROVE  j = k
  <1>1. CASE j \in manager.stop /\ manager.at = "sync"
    BY <1>1 DEF JobsKnown
  <1>2. CASE k \in manager.stop /\ manager.at = "sync"
    BY <1>2 DEF JobsKnown
  <1>3. CASE ~(j \in manager.stop /\ manager.at = "sync") /\ ~(k \in manager.stop /\ manager.at = "sync")
    BY <1>3 DEF JobsKnown
  <1> QED
    BY <1>1, <1>2, <1>3

LEMMA JobsKnownAtSync == PipelineTypeOK /\ ListsKnown /\ JobsKnown /\ Sync => JobsKnown'
  <1> SUFFICES ASSUME PipelineTypeOK, ListsKnown, JobsKnown, Sync PROVE JobsKnown'
    OBVIOUS
  <1>1. PICK list \in Lists :
            LET metrics == {s.metric : s \in list}
            IN  /\ manager.at = "select" /\ manager'.at = "sync" /\ manager' \in ManagerStates
                /\ DOMAIN activeTarget' = metrics
                /\ manager'.stop = {activeTarget[m] : m \in DOMAIN activeTarget \ metrics}
                /\ \A m \in metrics \cap DOMAIN activeTarget : activeTarget'[m] = activeTarget[m]
                /\ \A m \in metrics \ DOMAIN activeTarget :
                     /\ activeTarget'[m] \in Unused
                     /\ \A n \in metrics \ DOMAIN activeTarget :
                           activeTarget'[m] = activeTarget'[n] => m = n
                /\ \A s \in Listed : \A j \in Jobs : <<s, j>> \in manager'.start =>
                     s.metric \in metrics \ DOMAIN activeTarget /\ j = activeTarget'[s.metric]
                /\ \A m \in metrics \ DOMAIN activeTarget :
                     \E s \in Listed : s.metric = m /\ <<s, activeTarget'[m]>> \in manager'.start
                /\ \A s, t \in Listed : \A j, k \in Jobs :
                     <<s, j>> \in manager'.start /\ <<t, k>> \in manager'.start /\ s.metric = t.metric => s = t
    BY SyncFacts
  <1> DEFINE metrics == {s.metric : s \in list}
             old == DOMAIN activeTarget
  <1>2. UNCHANGED job
    BY DEF Sync
  <1>4. /\ manager.at = "select" /\ manager'.at = "sync"
        /\ DOMAIN activeTarget' = metrics
        /\ \A j : j \in manager'.stop <=> \E m \in old \ metrics : j = activeTarget[m]
        /\ \A m \in metrics \cap old : activeTarget'[m] = activeTarget[m]
        /\ \A m \in metrics \ old : activeTarget'[m] \in Unused
        /\ \A m, n \in metrics \ old : activeTarget'[m] = activeTarget'[n] => m = n
        /\ \A s \in Listed : \A j \in Jobs : <<s, j>> \in manager'.start =>
             s.metric \in metrics \ old /\ j = activeTarget'[s.metric]
        /\ \A m \in metrics \ old : \E s \in Listed : s.metric = m /\ <<s, activeTarget'[m]>> \in manager'.start
        /\ \A s, t \in Listed : \A j, k \in Jobs :
             <<s, j>> \in manager'.start /\ <<t, k>> \in manager'.start /\ s.metric = t.metric => s = t
    BY <1>1
  <1> HIDE DEF metrics
  \* Before, exactly the jobs of the map ran, each for its metric.
  <1>5. /\ \A m \in old : activeTarget[m] \in Jobs /\ job[activeTarget[m]].at = "on"
                          /\ job[activeTarget[m]].s.metric = m
        /\ \A m, n \in old : activeTarget[m] = activeTarget[n] => m = n
        /\ \A j \in Jobs : job[j].at = "on" => job[j].s.metric \in old /\ activeTarget[job[j].s.metric] = j
    BY <1>4 DEF JobsKnown
  <1>6. \A j \in Unused : j \in Jobs /\ job[j].at # "on" /\ \A m \in old : activeTarget[m] # j
    BY DEF Unused, Range
  <1>7. /\ \A m \in metrics : activeTarget'[m] \in Jobs
        /\ \A m, n \in metrics : activeTarget'[m] = activeTarget'[n] => m = n
    BY <1>4, <1>5, <1>6
  <1>8. \A j \in Jobs : job[j].at = "on" =>
            \/ job[j].s.metric \in metrics /\ activeTarget'[job[j].s.metric] = j
            \/ j \in manager'.stop
    BY <1>4, <1>5
  <1>9. \A j \in manager'.stop :
            /\ job[j].at = "on" /\ job[j].s.metric \notin metrics
            /\ \A k \in manager'.stop : job[j].s.metric = job[k].s.metric => j = k
    BY <1>4, <1>5
  <1>10. ASSUME NEW m \in metrics
         PROVE  \/ job[activeTarget'[m]].at = "on" /\ job[activeTarget'[m]].s.metric = m
                \/ \E s \in Listed : <<s, activeTarget'[m]>> \in manager'.start
    <2>1. CASE m \in old
      BY <1>4, <1>5, <2>1
    <2>2. CASE m \notin old
      BY <1>4, <2>2
    <2> QED
      BY <2>1, <2>2
  <1>11. ASSUME NEW s \in Listed, NEW t \in Listed, NEW j \in Jobs, NEW k \in Jobs,
                <<s, j>> \in manager'.start, <<t, k>> \in manager'.start
         PROVE  /\ s.metric \in metrics /\ activeTarget'[s.metric] = j /\ job[j].at # "on"
                /\ s.metric = t.metric => s = t
    <2>1. s.metric \in metrics \ old /\ j = activeTarget'[s.metric]
      BY <1>4, <1>11
    <2>2. s.metric = t.metric => s = t
      BY <1>4, <1>11
    <2> QED
      BY <1>4, <1>6, <2>1, <2>2
  <1> QED
    BY <1>2, <1>4, <1>7, <1>8, <1>9, <1>10, <1>11 DEF JobsKnown

LEMMA JobsKnownAtStop ==
    ASSUME PipelineTypeOK, JobsKnown, NEW j \in Jobs, StopJob(j)
    PROVE  JobsKnown'
  <1>1. /\ j \in manager.stop /\ manager'.stop = manager.stop \ {j}
        /\ manager'.start = manager.start /\ manager'.at = manager.at /\ UNCHANGED activeTarget
        /\ job'[j].at = "stopped" /\ \A k \in Jobs \ {j} : job'[k] = job[k]
        /\ \A k \in Jobs : job'[k].s = job[k].s
    BY StopJobFacts DEF StopJob
  <1>2. manager.at \in {"select", "sync", "ended"} /\ manager.stop \subseteq Jobs
    BY DEF PipelineTypeOK, ManagerStates
  <1>3. CASE manager.at = "sync"
    <2>1. \A m \in DOMAIN activeTarget :
            \/ activeTarget[m] # j /\ job'[activeTarget[m]].at = "on" /\ job'[activeTarget[m]].s.metric = m
            \/ \E s \in Listed : <<s, activeTarget[m]>> \in manager.start
      BY <1>1, <1>3 DEF JobsKnown
    <2>2. \A k \in manager'.stop : job'[k] = job[k] /\ k \in manager.stop /\ k \in Jobs
      BY <1>1, <1>2
    <2> QED
      BY <1>1, <1>2, <1>3, <2>1, <2>2 DEF JobsKnown
  <1>4. CASE manager.at = "ended"
    BY <1>1, <1>2, <1>4 DEF JobsKnown
  <1> QED
    BY <1>1, <1>2, <1>3, <1>4 DEF JobsKnown

LEMMA JobsKnownAtStart ==
    ASSUME PipelineTypeOK, JobsKnown, NEW s \in Listed, NEW j \in Jobs, StartJob(s, j)
    PROVE  JobsKnown'
  <1>1. /\ manager.at = "sync" /\ manager.stop = {} /\ <<s, j>> \in manager.start
        /\ manager'.at = "sync" /\ manager'.stop = {} /\ UNCHANGED activeTarget
        /\ manager'.start = manager.start \ {<<s, j>>}
        /\ \A k \in Jobs \ {j} : job'[k] = job[k]
        /\ job'[j].at = "on" /\ job'[j].s = s
    BY StartJobFacts DEF StartJob
  <1>2. s.metric \in DOMAIN activeTarget /\ activeTarget[s.metric] = j
    BY <1>1 DEF JobsKnown
  <1>3. /\ \A m \in DOMAIN activeTarget : activeTarget[m] \in Jobs
        /\ \A m, n \in DOMAIN activeTarget : activeTarget[m] = activeTarget[n] => m = n
    BY DEF JobsKnown
  <1>4. \A k \in Jobs : job'[k].at = "on" =>
            job'[k].s.metric \in DOMAIN activeTarget /\ activeTarget[job'[k].s.metric] = k
    BY <1>1, <1>2 DEF JobsKnown
  <1>5. ASSUME NEW m \in DOMAIN activeTarget
        PROVE  \/ job'[activeTarget[m]].at = "on" /\ job'[activeTarget[m]].s.metric = m
               \/ \E t \in Listed : <<t, activeTarget[m]>> \in manager'.start
    <2>1. CASE m = s.metric
      BY <1>1, <1>2, <2>1
    <2>2. CASE m # s.metric
      <3>1. activeTarget[m] # j /\ activeTarget[m] \in Jobs
        BY <1>2, <1>3, <2>2
      <3>2. job'[activeTarget[m]] = job[activeTarget[m]]
        BY <1>1, <3>1
      <3>3. \/ job[activeTarget[m]].at = "on" /\ job[activeTarget[m]].s.metric = m
            \/ \E t \in Listed : <<t, activeTarget[m]>> \in manager.start
        BY <1>1 DEF JobsKnown
      <3> QED
        BY <1>1, <3>1, <3>2, <3>3
    <2> QED
      BY <2>1, <2>2
  <1>6. ASSUME NEW t \in Listed, NEW u \in Listed, NEW k \in Jobs, NEW l \in Jobs,
               <<t, k>> \in manager'.start, <<u, l>> \in manager'.start
        PROVE  /\ t.metric \in DOMAIN activeTarget /\ activeTarget[t.metric] = k /\ job'[k].at # "on"
               /\ t.metric = u.metric => t = u
    <2>1. <<t, k>> \in manager.start /\ <<u, l>> \in manager.start /\ <<t, k>> # <<s, j>>
      BY <1>1, <1>6
    <2>2. /\ t.metric \in DOMAIN activeTarget /\ activeTarget[t.metric] = k /\ job[k].at # "on"
          /\ t.metric = u.metric => t = u
      BY <2>1 DEF JobsKnown
    <2>3. k # j
      <3> SUFFICES ASSUME k = j PROVE FALSE
        OBVIOUS
      <3>1. t.metric = s.metric
        BY <1>2, <1>3, <2>2
      <3>2. t = s
        BY <1>1, <2>1, <3>1 DEF JobsKnown
      <3> QED
        BY <2>1, <3>2
    <2> QED
      BY <1>1, <2>2, <2>3
  <1> QED
    BY <1>1, <1>3, <1>4, <1>5, <1>6 DEF JobsKnown

LEMMA JobsKnownStep == PipelineTypeOK /\ ListsKnown /\ JobsKnown /\ [Next]_vars => JobsKnown'
  <1> SUFFICES ASSUME PipelineTypeOK, ListsKnown, JobsKnown, [Next]_vars PROVE JobsKnown'
    OBVIOUS
  <1>1. ASSUME UNCHANGED <<manager, activeTarget>>,
               \A j \in Jobs : job'[j].at = job[j].at /\ job'[j].s = job[j].s
        PROVE  JobsKnown'
    <2>1. manager.stop \subseteq Jobs
      BY DEF PipelineTypeOK, ManagerStates
    <2> QED
      BY <1>1, <2>1 DEF JobsKnown
  <1>2. CASE DoSync \/ SyncReturns \/ SyncFails \/ SendList \/ LogTick \/ LogLoopEnds
    BY <1>1, <1>2 DEF DoSync, SyncReturns, SyncFails, Synced, SendList, LogTick, LogLoopEnds
  <1>3. CASE SyncDone
    <2>1. /\ manager.at = "sync" /\ manager.stop = {} /\ manager.start = {} /\ manager'.at = "select"
          /\ manager'.stop = {} /\ manager'.start = {} /\ UNCHANGED <<job, activeTarget>>
      BY <1>3 DEF SyncDone, PipelineTypeOK, ManagerStates
    <2> QED
      BY <2>1 DEF JobsKnown
  <1>4. CASE SyncStop
    <2>1. /\ manager.at = "select" /\ manager'.at = "ended" /\ manager'.start = manager.start
          /\ manager'.stop = Range(activeTarget) /\ UNCHANGED <<job, activeTarget>>
      BY <1>4 DEF SyncStop, PipelineTypeOK, ManagerStates
    <2>2. \A j \in Range(activeTarget) : job[j].at = "on"
      BY <2>1 DEF JobsKnown, Range
    <2> QED
      BY <2>1, <2>2 DEF JobsKnown
  <1>5. ASSUME NEW j \in Jobs, JobStep(j) PROVE JobsKnown'
    <2>1. \A k \in Jobs : job'[k].at = job[k].at /\ job'[k].s = job[k].s
      BY <1>5, JobStepFacts
    <2> QED
      BY <1>1, <1>5, <2>1, JobStepFacts
  <1>6. CASE TakePoint \/ WriteLine \/ ChangeStrategies \/ UNCHANGED pipelineVars
    BY <1>1, <1>6 DEF TakePoint, OnlyCount, WriteLine, ChangeStrategies, pipelineVars, loopVars
  <1> QED
    BY <1>2, <1>3, <1>4, <1>5, <1>6, PipelineSteps, JobsKnownAtSync, JobsKnownAtStop, JobsKnownAtStart

-----------------------------------------------------------------------------
(* The lines in hand.                                                      *)

\* What a step of a job does to the lines it has in hand: it reads the next line, it
\* moves or drops one, or it hands one to the queue.
LEMMA HandFlow ==
    ASSUME PipelineTypeOK, NEW j \in Jobs, JobStep(j),
           HandOnce(job[j]), 0 \notin InHand(job[j]),
           job[j].at = "on" => job[j].next + 1 \notin InHand(job[j])
    PROVE  /\ HandOnce(job'[j])
           /\ \/ /\ job[j].at = "on" /\ job[j].next < written /\ job'[j].next = job[j].next + 1
                 /\ InHand(job'[j]) = InHand(job[j]) \cup {job[j].next + 1} /\ UNCHANGED counterQueue
              \/ /\ job'[j].next = job[j].next
                 /\ InHand(job'[j]) \subseteq InHand(job[j]) /\ UNCHANGED counterQueue
              \/ /\ job'[j].next = job[j].next
                 /\ \E line \in InHand(job[j]) :
                      /\ InHand(job'[j]) \subseteq InHand(job[j]) \ {line}
                      /\ counterQueue' = Append(counterQueue, [s |-> job[j].s, line |-> line])
  <1>1. job \in [Jobs -> JobStates] /\ job[j] \in JobStates
    BY DEF PipelineTypeOK
  <1>2. /\ job[j].stream \in Seq(Nat) /\ job[j].busy \subseteq Nat /\ job[j].held \in Nat
        /\ job[j].next \in Nat
    BY <1>1 DEF JobStates
  <1>3. /\ IsInjective(job[j].stream) /\ ToSet(job[j].stream) \cap job[j].busy = {}
        /\ job[j].held \notin ToSet(job[j].stream) \cup job[j].busy
        /\ 0 \notin ToSet(job[j].stream) \cup job[j].busy
    BY DEF HandOnce, InHand
  <1>4. CASE Read(j)
    <2>1. /\ job[j].at = "on" /\ job[j].held = 0 /\ job[j].next < written /\ UNCHANGED counterQueue
          /\ job'[j].stream = job[j].stream /\ job'[j].busy = job[j].busy
          /\ job'[j].next = job[j].next + 1 /\ job'[j].held = job[j].next + 1
      BY <1>1, <1>4 DEF Read, JobStates
    <2>2. job[j].next + 1 # 0
      BY <1>2
    <2>3. InHand(job'[j]) = InHand(job[j]) \cup {job[j].next + 1}
      BY <2>1, <2>2 DEF InHand
    <2>4. HandOnce(job'[j])
      BY <1>3, <2>1 DEF HandOnce, InHand
    <2> QED
      BY <2>1, <2>3, <2>4
  <1>5. CASE Put(j)
    <2>1. /\ job[j].held # 0 /\ UNCHANGED counterQueue
          /\ job'[j].busy = job[j].busy /\ job'[j].next = job[j].next /\ job'[j].held = 0
          /\ job'[j].stream \in {job[j].stream, Append(job[j].stream, job[j].held)}
      <3>1. CASE Len(job[j].stream) < StreamSize
        BY <1>1, <1>5, <3>1 DEF Put, JobStates
      <3>2. CASE ~(Len(job[j].stream) < StreamSize)
        BY <1>1, <1>5, <3>2 DEF Put, JobStates
      <3> QED
        BY <3>1, <3>2
    <2>2. /\ ToSet(Append(job[j].stream, job[j].held)) = ToSet(job[j].stream) \cup {job[j].held}
          /\ IsInjective(Append(job[j].stream, job[j].held))
      BY <1>2, <1>3, AppendOnce
    <2>3. InHand(job'[j]) \subseteq InHand(job[j])
      BY <2>1, <2>2 DEF InHand
    <2>4. HandOnce(job'[j])
      <3>1. IsInjective(job'[j].stream)
        BY <1>3, <2>1, <2>2
      <3>2. ToSet(job'[j].stream) \cap job'[j].busy = {}
        BY <1>3, <2>1, <2>2
      <3>3. job'[j].held \notin ToSet(job'[j].stream) \cup job'[j].busy
        <4>1. ToSet(job'[j].stream) \subseteq ToSet(job[j].stream) \cup {job[j].held}
          BY <2>1, <2>2
        <4>2. job'[j].held = 0 /\ job[j].held # 0 /\ job'[j].busy = job[j].busy
          BY <2>1
        <4> QED
          BY <1>3, <4>1, <4>2
      <3> QED
        BY <3>1, <3>2, <3>3 DEF HandOnce
    <2> QED
      BY <2>1, <2>3, <2>4
  <1>6. CASE TakeLine(j)
    <2>1. /\ job[j].stream # <<>> /\ UNCHANGED counterQueue
          /\ job'[j].stream = Tail(job[j].stream) /\ job'[j].busy = job[j].busy \cup {Head(job[j].stream)}
          /\ job'[j].next = job[j].next /\ job'[j].held = job[j].held
      BY <1>1, <1>6 DEF TakeLine, JobStates
    <2>2. /\ ToSet(job[j].stream) = {Head(job[j].stream)} \cup ToSet(Tail(job[j].stream))
          /\ IsInjective(Tail(job[j].stream)) /\ Head(job[j].stream) \notin ToSet(Tail(job[j].stream))
      BY <1>2, <1>3, <2>1, TailOnce
    <2>3. InHand(job'[j]) \subseteq InHand(job[j])
      BY <2>1, <2>2 DEF InHand
    <2>4. HandOnce(job'[j])
      <3>1. IsInjective(job'[j].stream)
        BY <2>1, <2>2
      <3>2. ToSet(job'[j].stream) \cap job'[j].busy = {}
        BY <1>3, <2>1, <2>2
      <3>3. job'[j].held \notin ToSet(job'[j].stream) \cup job'[j].busy
        BY <1>3, <2>1, <2>2
      <3> QED
        BY <3>1, <3>2, <3>3 DEF HandOnce
    <2> QED
      BY <2>1, <2>3, <2>4
  <1>7. ASSUME NEW line \in job[j].busy, Analyse(j, line)
        PROVE  /\ HandOnce(job'[j])
               /\ job'[j].next = job[j].next /\ line \in InHand(job[j])
               /\ InHand(job'[j]) \subseteq InHand(job[j]) \ {line}
    <2>1. /\ job'[j].stream = job[j].stream /\ job'[j].busy = job[j].busy \ {line}
          /\ job'[j].next = job[j].next /\ job'[j].held = job[j].held
      BY <1>1, <1>7 DEF Analyse, JobStates
    <2>2. /\ line \in InHand(job[j]) /\ InHand(job'[j]) \subseteq InHand(job[j]) \ {line}
      BY <1>3, <2>1 DEF InHand
    <2>3. HandOnce(job'[j])
      BY <1>3, <2>1 DEF HandOnce
    <2> QED
      BY <2>1, <2>2, <2>3
  <1>8. CASE ConsumerEnds(j)
    <2>1. /\ job'[j].stream = job[j].stream /\ job'[j].busy = job[j].busy
          /\ job'[j].next = job[j].next /\ job'[j].held = job[j].held /\ UNCHANGED counterQueue
      BY <1>1, <1>8 DEF ConsumerEnds, JobStates
    <2> QED
      BY <1>3, <2>1 DEF HandOnce, InHand
  <1>9. ASSUME NEW line \in job[j].busy, Analyse(j, line)
        PROVE  UNCHANGED counterQueue \/ counterQueue' = Append(counterQueue, [s |-> job[j].s, line |-> line])
    BY <1>9 DEF Analyse
  <1>10. \/ Read(j) \/ Put(j) \/ TakeLine(j) \/ ConsumerEnds(j)
         \/ \E line \in job[j].busy : Analyse(j, line)
    BY DEF JobStep
  <1> QED
    <2>1. ASSUME NEW line \in job[j].busy, Analyse(j, line)
          PROVE  /\ HandOnce(job'[j])
                 /\ \/ /\ job'[j].next = job[j].next
                       /\ InHand(job'[j]) \subseteq InHand(job[j]) /\ UNCHANGED counterQueue
                    \/ /\ job'[j].next = job[j].next
                       /\ \E l \in InHand(job[j]) :
                            /\ InHand(job'[j]) \subseteq InHand(job[j]) \ {l}
                            /\ counterQueue' = Append(counterQueue, [s |-> job[j].s, line |-> l])
      BY <2>1, <1>7, <1>9
    <2> QED
      BY <1>4, <1>5, <1>6, <1>8, <1>10, <2>1

LEMMA EmptyHand ==
    ASSUME NEW r, r.held = 0, r.stream = <<>>, r.busy = {}
    PROVE  InHand(r) = {} /\ HandOnce(r)
  <1>1. DOMAIN <<>> = {}
    OBVIOUS
  <1> QED
    BY <1>1 DEF InHand, HandOnce, ToSet, IsInjective

\* TakePoint: the first point of the queue becomes the last line counted for its metric.
LEMMA TakePointFacts ==
    ASSUME PipelineTypeOK, TakePoint
    PROVE  \E p \in [s : Listed, line : Nat] :
             /\ UNCHANGED <<strategies, logLoop, syncChan, manager, activeTarget, job, written>>
             /\ p = Head(counterQueue) /\ counterQueue # <<>> /\ counterQueue' = Tail(counterQueue)
             /\ p.s.metric \in Metrics /\ p.line \in Nat
             /\ \A m \in Metrics : updated'[m] = IF m = p.s.metric THEN Append(updated[m], p.line)
                                                 ELSE updated[m]
             /\ \A m \in Metrics : updated[m] \in Seq(Nat)
  <1> DEFINE p == Head(counterQueue)
  <1>1. UNCHANGED <<strategies, logLoop, syncChan, manager, activeTarget, job, written>>
    BY DEF TakePoint, OnlyCount, loopVars
  <1>2. /\ counterQueue # <<>> /\ counterQueue' = Tail(counterQueue)
        /\ updated' = [updated EXCEPT ![p.s.metric] = Append(@, p.line)]
    BY DEF TakePoint
  <1>3. counterQueue \in Seq([s : Listed, line : Nat]) /\ updated \in [Metrics -> Seq(Nat)]
    BY DEF PipelineTypeOK
  <1>4. p \in [s : Listed, line : Nat]
    BY <1>2, <1>3, TailFacts
  <1>5. p = Head(counterQueue)
    OBVIOUS
  <1> HIDE DEF p
  <1>6. p.s.metric \in Metrics /\ p.line \in Nat
    BY <1>4 DEF Metrics
  <1>7. \A m \in Metrics : updated'[m] = IF m = p.s.metric THEN Append(updated[m], p.line) ELSE updated[m]
    BY <1>2, <1>3
  <1> QED
    BY <1>1, <1>2, <1>3, <1>4, <1>5, <1>6, <1>7

\* Whatever it takes, the lines sent for a metric are the same.
LEMMA TakePointMoves ==
    ASSUME PipelineTypeOK, TakePoint, NEW m \in Metrics
    PROVE  Sent(m)' = Sent(m)
  <1>1. PICK p \in [s : Listed, line : Nat] :
            /\ p = Head(counterQueue) /\ counterQueue # <<>> /\ counterQueue' = Tail(counterQueue)
            /\ updated'[m] = IF m = p.s.metric THEN Append(updated[m], p.line) ELSE updated[m]
            /\ updated[m] \in Seq(Nat) /\ p.line \in Nat
    BY TakePointFacts
  <1>2. counterQueue \in Seq([s : Listed, line : Nat])
    BY DEF PipelineTypeOK
  <1>3. Queued(counterQueue, m) = Queued(Tail(counterQueue), m) \cup (IF p.s.metric = m THEN {p.line} ELSE {})
    BY <1>1, <1>2, QueuedTail
  <1>4. ToSet(Append(updated[m], p.line)) = ToSet(updated[m]) \cup {p.line}
    BY <1>1, AppendOnce
  <1>5. Counted(m)' = Counted(m) \cup (IF p.s.metric = m THEN {p.line} ELSE {})
    BY <1>1, <1>4 DEF Counted
  <1>6. Queued(counterQueue, m)' = Queued(Tail(counterQueue), m)
    BY <1>1
  <1> QED
    BY <1>3, <1>5, <1>6 DEF Sent

\* The steps that move lines.
LEMMA LineSteps ==
    ASSUME [Next]_vars
    PROVE  \/ \E j \in Jobs : JobStep(j) \/ StopJob(j) \/ \E s \in Listed : StartJob(s, j)
           \/ TakePoint \/ WriteLine
           \/ UNCHANGED <<job, written, counterQueue, updated>>
  <1>1. CASE DoSync \/ SyncReturns \/ SyncFails \/ SendList \/ LogTick \/ LogLoopEnds
    BY <1>1 DEF DoSync, SyncReturns, SyncFails, Synced, SendList, LogTick, LogLoopEnds, countVars
  <1>2. CASE Sync \/ SyncDone \/ SyncStop
    BY <1>2 DEF Sync, SyncDone, SyncStop, countVars
  <1>3. CASE ChangeStrategies \/ UNCHANGED pipelineVars
    BY <1>3 DEF ChangeStrategies, countVars, pipelineVars
  <1> QED
    BY <1>1, <1>2, <1>3, PipelineSteps

\* What an analysed line does to the lines sent.
LEMMA SentAppend ==
    ASSUME PipelineTypeOK, NEW j \in Jobs, NEW line, UNCHANGED updated,
           counterQueue' = Append(counterQueue, [s |-> job[j].s, line |-> line])
    PROVE  /\ \A m \in Metrics : Queued(counterQueue, m)' =
                  Queued(counterQueue, m) \cup (IF job[j].s.metric = m THEN {line} ELSE {})
           /\ \A m \in Metrics : Counted(m)' = Counted(m)
           /\ \A m \in Metrics : Sent(m)' = Sent(m) \cup (IF job[j].s.metric = m THEN {line} ELSE {})
           /\ PointsOnce(counterQueue) /\ line \notin Queued(counterQueue, job[j].s.metric)
                => PointsOnce(counterQueue)'
  <1> DEFINE p == [s |-> job[j].s, line |-> line]
  <1>1. counterQueue \in Seq([s : Listed, line : Nat])
    BY DEF PipelineTypeOK
  <1>2. p.s = job[j].s /\ p.line = line /\ counterQueue' = Append(counterQueue, p)
    OBVIOUS
  <1> HIDE DEF p
  <1>3. /\ \A m : Queued(counterQueue', m) = Queued(counterQueue, m) \cup (IF p.s.metric = m THEN {p.line} ELSE {})
        /\ PointsOnce(counterQueue) /\ p.line \notin Queued(counterQueue, p.s.metric) => PointsOnce(counterQueue')
    BY <1>1, <1>2, QueuedAppend
  <1>4. \A m \in Metrics : Counted(m)' = Counted(m)
    BY DEF Counted
  <1> QED
    BY <1>2, <1>3, <1>4 DEF Sent

-----------------------------------------------------------------------------
(* LinesAhead.                                                             *)

LEMMA AheadKept ==
    ASSUME PipelineTypeOK, LinesAhead, UNCHANGED written,
           \A k \in Jobs : /\ job'[k].at = "on" => job[k].at = "on"
                           /\ job'[k].s = job[k].s /\ job'[k].next = job[k].next
                           /\ InHand(job'[k]) \subseteq InHand(job[k]),
           \A m \in Metrics : \A line \in Sent(m)' :
                line \in Sent(m) \/ \E k \in Jobs : job[k].s.metric = m /\ line \in InHand(job[k])
    PROVE  LinesAhead'
  <1>1. \A k \in Jobs : job'[k].next <= written' /\ InHand(job'[k]) \subseteq 1 .. written'
    BY DEF LinesAhead
  <1>2. \A m \in Metrics : Sent(m)' \subseteq 1 .. written'
    BY DEF LinesAhead
  <1>3. ASSUME NEW j \in Jobs, job'[j].at = "on"
        PROVE  /\ \A k \in Jobs : job'[k].s.metric = job'[j].s.metric => InHand(job'[k]) \subseteq 1 .. job'[j].next
               /\ \A m \in Metrics : job'[j].s.metric = m => Sent(m)' \subseteq 1 .. job'[j].next
    <2>1. job[j].at = "on"
      BY <1>3
    <2>2. /\ \A k \in Jobs : job[k].s.metric = job[j].s.metric => InHand(job[k]) \subseteq 1 .. job[j].next
          /\ \A m \in Metrics : job[j].s.metric = m => Sent(m) \subseteq 1 .. job[j].next
      BY <2>1 DEF LinesAhead
    <2>3. job'[j].next = job[j].next /\ job'[j].s = job[j].s
      OBVIOUS
    <2>4. ASSUME NEW m \in Metrics, job[j].s.metric = m PROVE Sent(m)' \subseteq 1 .. job[j].next
      BY <2>2, <2>4
    <2> QED
      BY <2>2, <2>3, <2>4
  <1> QED
    BY <1>1, <1>2, <1>3 DEF LinesAhead

\* The next line of a job that runs is no line of its metric yet.
LEMMA NextIsNew ==
    ASSUME PipelineTypeOK, LinesAhead, NEW j \in Jobs, job[j].at = "on"
    PROVE  /\ \A k \in Jobs : job[k].s.metric = job[j].s.metric => job[j].next + 1 \notin InHand(job[k])
           /\ \A m \in Metrics : job[j].s.metric = m => job[j].next + 1 \notin Sent(m)
  <1>1. job[j].next \in Nat
    BY DEF PipelineTypeOK, JobStates
  <1>2. job[j].next + 1 \notin 1 .. job[j].next
    BY <1>1
  <1> QED
    BY <1>2 DEF LinesAhead

\* HandFlow in the states of the invariant.
LEMMA HandFlowNow ==
    ASSUME PipelineTypeOK, LinesAhead, OnePlace, NEW j \in Jobs, JobStep(j)
    PROVE  /\ HandOnce(job'[j])
           /\ \/ /\ job[j].at = "on" /\ job[j].next < written /\ job'[j].next = job[j].next + 1
                 /\ InHand(job'[j]) = InHand(job[j]) \cup {job[j].next + 1} /\ UNCHANGED counterQueue
              \/ /\ job'[j].next = job[j].next
                 /\ InHand(job'[j]) \subseteq InHand(job[j]) /\ UNCHANGED counterQueue
              \/ /\ job'[j].next = job[j].next
                 /\ \E line \in InHand(job[j]) :
                      /\ InHand(job'[j]) \subseteq InHand(job[j]) \ {line}
                      /\ counterQueue' = Append(counterQueue, [s |-> job[j].s, line |-> line])
  <1>1. HandOnce(job[j])
    BY DEF OnePlace
  <1>2. 0 \notin InHand(job[j])
    <2>1. InHand(job[j]) \subseteq 1 .. written /\ written \in Nat
      BY DEF LinesAhead, PipelineTypeOK
    <2> QED
      BY <2>1
  <1>3. job[j].at = "on" => job[j].next + 1 \notin InHand(job[j])
    BY NextIsNew
  <1> QED
    BY <1>1, <1>2, <1>3, HandFlow

LEMMA LinesAheadInit == Init => LinesAhead
  <1> SUFFICES ASSUME Init PROVE LinesAhead
    OBVIOUS
  <1>1. \A j \in Jobs : job[j] = NoJob
    BY DEF Init
  <1>2. \A m \in Metrics : Sent(m) = {}
    <2>1. DOMAIN <<>> = {}
      OBVIOUS
    <2> QED
      BY <2>1 DEF Init, Sent, Queued, Counted, ToSet
  <1>3. written = 0
    BY DEF Init
  <1> QED
    BY <1>1, <1>2, <1>3, NoJobIs DEF LinesAhead

LEMMA LinesAheadStep ==
    PipelineTypeOK /\ JobsKnown /\ LinesAhead /\ OnePlace /\ [Next]_vars => LinesAhead'
  <1> SUFFICES ASSUME PipelineTypeOK, JobsKnown, LinesAhead, OnePlace, [Next]_vars PROVE LinesAhead'
    OBVIOUS
  <1>1. \A k \in Jobs : job[k].next \in Nat /\ job[k].next <= written /\ InHand(job[k]) \subseteq 1 .. written
    BY DEF LinesAhead, PipelineTypeOK, JobStates
  <1>2. written \in Nat /\ \A m \in Metrics : Sent(m) \subseteq 1 .. written
    BY DEF LinesAhead, PipelineTypeOK
  <1>3. ASSUME NEW j \in Jobs, JobStep(j) PROVE LinesAhead'
    <2>1. /\ UNCHANGED <<written, updated>>
          /\ \A k \in Jobs \ {j} : job'[k] = job[k]
          /\ \A k \in Jobs : job'[k].at = job[k].at /\ job'[k].s = job[k].s
      BY <1>3, JobStepFacts
    <2>2. CASE /\ job[j].at = "on" /\ job[j].next < written /\ job'[j].next = job[j].next + 1
               /\ InHand(job'[j]) = InHand(job[j]) \cup {job[j].next + 1} /\ UNCHANGED counterQueue
      <3> DEFINE n == job[j].next
      <3>1. n \in Nat /\ n + 1 <= written /\ n + 1 \in 1 .. written /\ 1 .. n \subseteq 1 .. (n + 1)
            /\ n + 1 \in 1 .. (n + 1)
        BY <1>1, <1>2, <2>2
      <3>2. \A k \in Jobs : job'[k].next <= written /\ InHand(job'[k]) \subseteq 1 .. written
        BY <1>1, <2>1, <2>2, <3>1
      <3>3. \A m \in Metrics : Sent(m)' = Sent(m)
        BY <2>1, <2>2 DEF Sent, Counted
      <3>4. ASSUME NEW k \in Jobs, job'[k].at = "on", NEW l \in Jobs, job'[l].s.metric = job'[k].s.metric
            PROVE  InHand(job'[l]) \subseteq 1 .. job'[k].next
        <4>1. job[k].at = "on" /\ job[l].s.metric = job[k].s.metric
          BY <2>1, <3>4
        <4>2. InHand(job[l]) \subseteq 1 .. job[k].next
          BY <4>1 DEF LinesAhead
        <4>3. CASE k = j
          BY <2>1, <2>2, <3>1, <4>2, <4>3
        <4>4. CASE k # j
          <5>1. l # j
            BY <2>2, <4>1, <4>4, OneOn
          <5> QED
            BY <2>1, <4>2, <4>4, <5>1
        <4> QED
          BY <4>3, <4>4
      <3>5. ASSUME NEW k \in Jobs, job'[k].at = "on", NEW m \in Metrics, job'[k].s.metric = m
            PROVE  Sent(m)' \subseteq 1 .. job'[k].next
        <4>1. Sent(m) \subseteq 1 .. job[k].next
          BY <2>1, <3>5 DEF LinesAhead
        <4> QED
          BY <2>1, <2>2, <3>1, <3>3, <4>1
      <3> QED
        BY <1>2, <2>1, <3>2, <3>3, <3>4, <3>5 DEF LinesAhead
    <2>3. CASE /\ job'[j].next = job[j].next
               /\ InHand(job'[j]) \subseteq InHand(job[j]) /\ UNCHANGED counterQueue
      <3>1. \A m \in Metrics : Sent(m)' = Sent(m)
        BY <2>1, <2>3 DEF Sent, Counted
      <3>2. \A k \in Jobs : job'[k].next = job[k].next /\ InHand(job'[k]) \subseteq InHand(job[k])
        BY <2>1, <2>3
      <3> QED
        BY <2>1, <3>1, <3>2, AheadKept
    <2>4. ASSUME NEW line \in InHand(job[j]), job'[j].next = job[j].next,
                 InHand(job'[j]) \subseteq InHand(job[j]) \ {line},
                 counterQueue' = Append(counterQueue, [s |-> job[j].s, line |-> line])
          PROVE  LinesAhead'
      <3>1. \A m \in Metrics : Sent(m)' = Sent(m) \cup (IF job[j].s.metric = m THEN {line} ELSE {})
        BY <2>1, <2>4, SentAppend
      <3>2. \A k \in Jobs : job'[k].next = job[k].next /\ InHand(job'[k]) \subseteq InHand(job[k])
        BY <2>1, <2>4
      <3>3. \A m \in Metrics : \A x \in Sent(m)' :
                x \in Sent(m) \/ \E k \in Jobs : job[k].s.metric = m /\ x \in InHand(job[k])
        BY <2>4, <3>1
      <3> QED
        BY <2>1, <3>2, <3>3, AheadKept
    <2> QED
      BY <1>3, <2>2, <2>3, <2>4, HandFlowNow
  <1>4. ASSUME NEW j \in Jobs, StopJob(j) PROVE LinesAhead'
    <2>1. UNCHANGED <<written, counterQueue, updated>>
      BY <1>4 DEF StopJob, countVars
    <2>2. \A k \in Jobs : /\ job'[k].at = "on" => job[k].at = "on"
                          /\ job'[k].s = job[k].s /\ job'[k].next = job[k].next
                          /\ InHand(job'[k]) = InHand(job[k])
      BY <1>4, StopJobFacts DEF InHand
    <2>3. \A m \in Metrics : Sent(m)' = Sent(m)
      BY <2>1 DEF Sent, Counted
    <2> QED
      BY <2>1, <2>2, <2>3, AheadKept
  <1>5. ASSUME NEW s \in Listed, NEW j \in Jobs, StartJob(s, j) PROVE LinesAhead'
    <2>1. UNCHANGED <<written, counterQueue, updated>>
      BY <1>5 DEF StartJob, countVars
    <2>2. /\ job'[j].next = written /\ InHand(job'[j]) = {} /\ \A k \in Jobs \ {j} : job'[k] = job[k]
      BY <1>5, StartJobFacts, EmptyHand
    <2>3. \A m \in Metrics : Sent(m)' = Sent(m)
      BY <2>1 DEF Sent, Counted
    <2>4. ASSUME NEW k \in Jobs, job'[k].at = "on"
          PROVE  /\ \A l \in Jobs : job'[l].s.metric = job'[k].s.metric => InHand(job'[l]) \subseteq 1 .. job'[k].next
                 /\ \A m \in Metrics : job'[k].s.metric = m => Sent(m)' \subseteq 1 .. job'[k].next
      <3>1. CASE k = j
        BY <1>1, <1>2, <2>2, <2>3, <3>1
      <3>2. CASE k # j
        BY <2>2, <2>3, <2>4, <3>2 DEF LinesAhead
      <3> QED
        BY <3>1, <3>2
    <2>5. \A k \in Jobs : job'[k].next <= written /\ InHand(job'[k]) \subseteq 1 .. written
      BY <1>1, <1>2, <2>2
    <2> QED
      BY <1>2, <2>1, <2>3, <2>4, <2>5 DEF LinesAhead
  <1>6. CASE TakePoint
    <2>1. UNCHANGED <<job, written>>
      BY <1>6, TakePointFacts
    <2>2. \A m \in Metrics : Sent(m)' = Sent(m)
      BY <1>6, TakePointMoves
    <2> QED
      BY <2>1, <2>2, AheadKept
  <1>7. CASE WriteLine
    <2>1. UNCHANGED <<job, counterQueue, updated>> /\ written' = written + 1
      BY <1>7 DEF WriteLine, countVars
    <2>2. \A m \in Metrics : Sent(m)' = Sent(m)
      BY <2>1 DEF Sent, Counted
    <2>3. 1 .. written \subseteq 1 .. written' /\ \A n \in Nat : n <= written => n <= written'
      BY <1>2, <2>1
    <2> QED
      BY <1>1, <1>2, <2>1, <2>2, <2>3 DEF LinesAhead
  <1>8. CASE UNCHANGED <<job, written, counterQueue, updated>>
    <2>1. \A m \in Metrics : Sent(m)' = Sent(m)
      BY <1>8 DEF Sent, Counted
    <2> QED
      BY <1>8, <2>1, AheadKept
  <1> QED
    BY <1>3, <1>4, <1>5, <1>6, <1>7, <1>8, LineSteps

-----------------------------------------------------------------------------
(* OnePlace.                                                               *)

LEMMA OnePlaceInit == Init => OnePlace
  <1> SUFFICES ASSUME Init PROVE OnePlace
    OBVIOUS
  <1>1. \A j \in Jobs : job[j] = NoJob
    BY DEF Init
  <1>2. DOMAIN <<>> = {}
    OBVIOUS
  <1>3. counterQueue = <<>> /\ \A m \in Metrics : updated[m] = <<>>
    BY DEF Init
  <1>4. PointsOnce(<<>>) /\ IsInjective(<<>>) /\ ToSet(<<>>) = {} /\ \A m : Queued(<<>>, m) = {}
    BY <1>2 DEF PointsOnce, IsInjective, ToSet, Queued
  <1>5. InHand(NoJob) = {} /\ HandOnce(NoJob)
    BY NoJobIs
  <1> QED
    BY <1>1, <1>3, <1>4, <1>5 DEF OnePlace, Sent, Counted

\* Hands that only lose lines, while nothing more is sent, stay apart.
LEMMA PlaceKept ==
    ASSUME OnePlace,
           \A k \in Jobs : /\ HandOnce(job'[k]) /\ InHand(job'[k]) \subseteq InHand(job[k])
                           /\ InHand(job'[k]) = {} \/ job'[k].s = job[k].s,
           \A m \in Metrics : Sent(m)' = Sent(m),
           PointsOnce(counterQueue)',
           \A m \in Metrics : IsInjective(updated'[m]) /\ (Queued(counterQueue, m) \cap Counted(m))' = {}
    PROVE  OnePlace'
  <1>1. ASSUME NEW j \in Jobs, NEW m \in Metrics, job'[j].s.metric = m
        PROVE  InHand(job'[j]) \cap Sent(m)' = {}
    <2>1. CASE InHand(job'[j]) = {}
      BY <2>1
    <2>2. CASE job'[j].s = job[j].s
      <3>1. InHand(job[j]) \cap Sent(m) = {}
        BY <1>1, <2>2 DEF OnePlace
      <3> QED
        BY <3>1
    <2> QED
      BY <2>1, <2>2
  <1>2. ASSUME NEW j \in Jobs, NEW k \in Jobs, j # k, job'[j].s.metric = job'[k].s.metric
        PROVE  InHand(job'[j]) \cap InHand(job'[k]) = {}
    <2>1. CASE InHand(job'[j]) = {} \/ InHand(job'[k]) = {}
      BY <2>1
    <2>2. CASE job'[j].s = job[j].s /\ job'[k].s = job[k].s
      <3>1. InHand(job[j]) \cap InHand(job[k]) = {}
        BY <1>2, <2>2 DEF OnePlace
      <3> QED
        BY <3>1
    <2> QED
      BY <2>1, <2>2
  <1> QED
    BY <1>1, <1>2 DEF OnePlace

LEMMA OnePlaceStep ==
    PipelineTypeOK /\ JobsKnown /\ LinesAhead /\ OnePlace /\ [Next]_vars => OnePlace'
  <1> SUFFICES ASSUME PipelineTypeOK, JobsKnown, LinesAhead, OnePlace, [Next]_vars PROVE OnePlace'
    OBVIOUS
  <1>1. /\ \A k \in Jobs : HandOnce(job[k])
        /\ PointsOnce(counterQueue)
        /\ \A m \in Metrics : IsInjective(updated[m]) /\ Queued(counterQueue, m) \cap Counted(m) = {}
    BY DEF OnePlace
  <1>2. ASSUME UNCHANGED <<counterQueue, updated>>
        PROVE  /\ \A m \in Metrics : Sent(m)' = Sent(m)
               /\ PointsOnce(counterQueue)'
               /\ \A m \in Metrics : IsInjective(updated'[m]) /\ (Queued(counterQueue, m) \cap Counted(m))' = {}
    BY <1>1, <1>2 DEF Sent, Counted
  <1>3. ASSUME NEW j \in Jobs, JobStep(j) PROVE OnePlace'
    <2>1. /\ UNCHANGED <<written, updated>>
          /\ \A k \in Jobs \ {j} : job'[k] = job[k]
          /\ \A k \in Jobs : job'[k].s = job[k].s
          /\ job[j].at # "none"
      BY <1>3, JobStepFacts
    <2>2. HandOnce(job'[j])
      BY <1>3, HandFlowNow
    <2>3. \A k \in Jobs : HandOnce(job'[k])
      BY <1>1, <2>1, <2>2
    <2>4. CASE /\ job[j].at = "on"
               /\ InHand(job'[j]) = InHand(job[j]) \cup {job[j].next + 1} /\ UNCHANGED counterQueue
      <3> DEFINE n == job[j].next + 1
      <3>1. /\ \A k \in Jobs : job[k].s.metric = job[j].s.metric => n \notin InHand(job[k])
            /\ \A m \in Metrics : job[j].s.metric = m => n \notin Sent(m)
        BY <2>4, NextIsNew
      <3>2. InHand(job'[j]) = InHand(job[j]) \cup {n}
        BY <2>4
      <3> HIDE DEF n
      <3>3. ASSUME NEW k \in Jobs, NEW m \in Metrics, job'[k].s.metric = m
            PROVE  InHand(job'[k]) \cap Sent(m)' = {}
        <4>1. InHand(job[k]) \cap Sent(m) = {} /\ Sent(m)' = Sent(m)
          BY <1>2, <2>1, <2>4, <3>3 DEF OnePlace
        <4> QED
          BY <2>1, <3>1, <3>2, <3>3, <4>1
      <3>4. ASSUME NEW k \in Jobs, NEW l \in Jobs, k # l, job'[k].s.metric = job'[l].s.metric
            PROVE  InHand(job'[k]) \cap InHand(job'[l]) = {}
        <4>1. InHand(job[k]) \cap InHand(job[l]) = {} /\ job[k].s.metric = job[l].s.metric
          BY <2>1, <3>4 DEF OnePlace
        <4> QED
          BY <2>1, <3>1, <3>2, <3>4, <4>1
      <3> QED
        BY <1>2, <2>1, <2>3, <2>4, <3>3, <3>4 DEF OnePlace
    <2>5. CASE InHand(job'[j]) \subseteq InHand(job[j]) /\ UNCHANGED counterQueue
      <3>1. \A k \in Jobs : HandOnce(job'[k]) /\ InHand(job'[k]) \subseteq InHand(job[k]) /\ job'[k].s = job[k].s
        BY <2>1, <2>3, <2>5
      <3> QED
        BY <1>2, <2>1, <2>5, <3>1, PlaceKept
    <2>6. ASSUME NEW line \in InHand(job[j]), InHand(job'[j]) \subseteq InHand(job[j]) \ {line},
                 counterQueue' = Append(counterQueue, [s |-> job[j].s, line |-> line])
          PROVE  OnePlace'
      <3> DEFINE m0 == job[j].s.metric
      <3>1. m0 \in Metrics
        BY <2>1 DEF PipelineTypeOK, Metrics
      <3>2. line \notin Sent(m0) /\ line \notin Queued(counterQueue, m0) /\ line \notin Counted(m0)
        BY <3>1 DEF OnePlace, Sent
      <3>3. /\ \A m \in Metrics : Queued(counterQueue, m)' =
                   Queued(counterQueue, m) \cup (IF m0 = m THEN {line} ELSE {})
            /\ \A m \in Metrics : Counted(m)' = Counted(m)
            /\ \A m \in Metrics : Sent(m)' = Sent(m) \cup (IF m0 = m THEN {line} ELSE {})
            /\ PointsOnce(counterQueue)'
        BY <1>1, <2>1, <2>6, <3>2, SentAppend
      <3>4. \A m \in Metrics : IsInjective(updated'[m]) /\ (Queued(counterQueue, m) \cap Counted(m))' = {}
        BY <1>1, <2>1, <3>2, <3>3
      <3>5. \A k \in Jobs : job[k].s.metric = m0 => line \notin InHand(job'[k])
        <4>1. \A k \in Jobs \ {j} : job[k].s.metric = m0 => line \notin InHand(job[k])
          BY DEF OnePlace
        <4> QED
          BY <2>1, <2>6, <4>1
      <3>6. \A k \in Jobs : InHand(job'[k]) \subseteq InHand(job[k])
        BY <2>1, <2>6
      <3> HIDE DEF m0
      <3>7. ASSUME NEW k \in Jobs, NEW m \in Metrics, job'[k].s.metric = m
            PROVE  InHand(job'[k]) \cap Sent(m)' = {}
        <4>1. InHand(job[k]) \cap Sent(m) = {} /\ job[k].s.metric = m
          BY <2>1, <3>7 DEF OnePlace
        <4> QED
          BY <3>3, <3>5, <3>6, <4>1
      <3>8. ASSUME NEW k \in Jobs, NEW l \in Jobs, k # l, job'[k].s.metric = job'[l].s.metric
            PROVE  InHand(job'[k]) \cap InHand(job'[l]) = {}
        <4>1. InHand(job[k]) \cap InHand(job[l]) = {}
          BY <2>1, <3>8 DEF OnePlace
        <4> QED
          BY <3>6, <4>1
      <3> QED
        BY <2>3, <3>3, <3>4, <3>7, <3>8 DEF OnePlace
    <2> QED
      BY <1>3, <2>4, <2>5, <2>6, HandFlowNow
  <1>4. ASSUME NEW j \in Jobs, StopJob(j) PROVE OnePlace'
    <2>1. UNCHANGED <<counterQueue, updated>>
      BY <1>4 DEF StopJob, countVars
    <2>2. \A k \in Jobs : /\ job'[k].s = job[k].s /\ job'[k].held = job[k].held
                          /\ job'[k].stream = job[k].stream /\ job'[k].busy = job[k].busy
      BY <1>4, StopJobFacts
    <2>3. \A k \in Jobs : InHand(job'[k]) = InHand(job[k]) /\ HandOnce(job'[k])
      BY <1>1, <2>2 DEF InHand, HandOnce
    <2> QED
      BY <1>2, <2>1, <2>2, <2>3, PlaceKept
  <1>5. ASSUME NEW s \in Listed, NEW j \in Jobs, StartJob(s, j) PROVE OnePlace'
    <2>1. UNCHANGED <<counterQueue, updated>>
      BY <1>5 DEF StartJob, countVars
    <2>2. /\ InHand(job'[j]) = {} /\ HandOnce(job'[j]) /\ \A k \in Jobs \ {j} : job'[k] = job[k]
      BY <1>5, StartJobFacts, EmptyHand
    <2>3. \A k \in Jobs : /\ HandOnce(job'[k]) /\ InHand(job'[k]) \subseteq InHand(job[k])
                          /\ InHand(job'[k]) = {} \/ job'[k].s = job[k].s
      BY <1>1, <2>2
    <2> QED
      BY <1>2, <2>1, <2>3, PlaceKept
  <1>6. CASE TakePoint
    <2>1. PICK p \in [s : Listed, line : Nat] :
             /\ UNCHANGED job
             /\ p = Head(counterQueue) /\ counterQueue # <<>> /\ counterQueue' = Tail(counterQueue)
             /\ p.s.metric \in Metrics /\ p.line \in Nat
             /\ \A m \in Metrics : updated'[m] = IF m = p.s.metric THEN Append(updated[m], p.line)
                                                 ELSE updated[m]
             /\ \A m \in Metrics : updated[m] \in Seq(Nat)
      BY <1>6, TakePointFacts
    <2>2. counterQueue \in Seq([s : Listed, line : Nat])
      BY DEF PipelineTypeOK
    <2>3. /\ \A m : Queued(counterQueue, m) = Queued(Tail(counterQueue), m) \cup (IF p.s.metric = m THEN {p.line} ELSE {})
          /\ PointsOnce(Tail(counterQueue)) /\ p.line \notin Queued(Tail(counterQueue), p.s.metric)
      BY <1>1, <2>1, <2>2, QueuedTail
    <2>4. \A m \in Metrics : Sent(m)' = Sent(m)
      BY <1>6, TakePointMoves
    <2>5. ASSUME NEW m \in Metrics
          PROVE  IsInjective(updated'[m]) /\ (Queued(counterQueue, m) \cap Counted(m))' = {}
      <3>1. CASE m = p.s.metric
        <4>1. p.line \in Queued(counterQueue, m)
          BY <2>3, <3>1
        <4>2. p.line \notin ToSet(updated[m])
          BY <1>1, <4>1 DEF Counted
        <4>3. updated'[m] = Append(updated[m], p.line) /\ updated[m] \in Seq(Nat)
          BY <2>1, <3>1
        <4>4. IsInjective(updated'[m]) /\ Counted(m)' = Counted(m) \cup {p.line}
          BY <1>1, <4>2, <4>3, AppendOnce DEF Counted
        <4>5. Queued(counterQueue, m)' \subseteq Queued(counterQueue, m) \ {p.line}
          BY <2>1, <2>3, <3>1
        <4> QED
          BY <1>1, <4>4, <4>5
      <3>2. CASE m # p.s.metric
        <4>1. updated'[m] = updated[m]
          BY <2>1, <3>2
        <4>2. Counted(m)' = Counted(m)
          BY <4>1 DEF Counted
        <4>3. Queued(counterQueue, m)' \subseteq Queued(counterQueue, m)
          BY <2>1, <2>3
        <4> QED
          BY <1>1, <4>1, <4>2, <4>3
      <3> QED
        BY <3>1, <3>2
    <2>6. PointsOnce(counterQueue)'
      BY <2>1, <2>3
    <2> QED
      BY <1>1, <2>1, <2>4, <2>5, <2>6, PlaceKept
  <1>7. CASE WriteLine \/ UNCHANGED <<job, written, counterQueue, updated>>
    <2>1. UNCHANGED <<job, counterQueue, updated>>
      BY <1>7 DEF WriteLine, countVars
    <2> QED
      BY <1>1, <1>2, <2>1, PlaceKept
  <1> QED
    BY <1>3, <1>4, <1>5, <1>6, <1>7, LineSteps

-----------------------------------------------------------------------------
(* LinesKept.                                                              *)

LEMMA LinesKeptInit == Init => LinesKept
  <1> SUFFICES ASSUME Init PROVE LinesKept
    OBVIOUS
  <1>1. \A j \in Jobs : job[j].at # "on"
    BY NoJobIs DEF Init
  <1> QED
    BY <1>1 DEF LinesKept

\* A job may go on to another state, and points may be queued or counted, if every line
\* stays in one of the places.
LEMMA StaysPlaced ==
    ASSUME NEW r, NEW t, NEW line, NEW q, NEW qq, NEW c, NEW cc,
           Placed(r, line, q, c), t.s = r.s,
           line \in ToSet(r.stream) \cup r.busy \cup r.dropped \cup {r.held} =>
               \/ Value[line] = NoMatch
               \/ line \in ToSet(t.stream) \cup t.busy \cup t.dropped \cup {t.held}
               \/ [s |-> r.s, line |-> line] \in ToSet(qq),
           [s |-> r.s, line |-> line] \in ToSet(q) =>
               [s |-> r.s, line |-> line] \in ToSet(qq) \/ line \in ToSet(cc),
           ToSet(c) \subseteq ToSet(cc)
    PROVE  Placed(t, line, qq, cc)
  BY DEF Placed

LEMMA LinesKeptAtJobStep ==
    ASSUME PipelineTypeOK, LinesKept, NEW j \in Jobs, JobStep(j)
    PROVE  LinesKept'
  <1>1. /\ UNCHANGED updated
        /\ \A k \in Jobs \ {j} : job'[k] = job[k]
        /\ job'[j].at = job[j].at /\ job'[j].s = job[j].s /\ job'[j].first = job[j].first
    BY JobStepFacts
  <1>2. job \in [Jobs -> JobStates] /\ job[j] \in JobStates /\ counterQueue \in Seq([s : Listed, line : Nat])
    BY DEF PipelineTypeOK
  <1>3. /\ job[j].next \in Nat /\ job[j].first \in Nat /\ job[j].stream \in Seq(Nat)
    BY <1>2 DEF JobStates
  <1>4. ToSet(counterQueue) \subseteq ToSet(counterQueue')
    <2>1. ASSUME NEW p, counterQueue' = Append(counterQueue, p) PROVE ToSet(counterQueue) \subseteq ToSet(counterQueue')
      BY <1>2, <2>1, AppendOnce
    <2> QED
      BY <2>1, QueueFlow
  <1>5. ASSUME NEW k \in Jobs, k # j, job'[k].at = "on", NEW line \in (job'[k].first + 1) .. job'[k].next
        PROVE  Placed(job'[k], line, counterQueue', updated'[job'[k].s.metric])
    <2>1. job'[k] = job[k] /\ job[k].at = "on"
      BY <1>1, <1>5
    <2>2. Placed(job[k], line, counterQueue, updated[job[k].s.metric])
      BY <1>5, <2>1 DEF LinesKept
    <2> QED
      BY <1>1, <1>4, <2>1, <2>2 DEF Placed
  <1>6. ASSUME job'[j].at = "on", NEW line \in (job'[j].first + 1) .. job'[j].next
        PROVE  Placed(job'[j], line, counterQueue', updated'[job'[j].s.metric])
    <2>1. ASSUME line \in (job[j].first + 1) .. job[j].next
          PROVE  Placed(job[j], line, counterQueue, updated[job[j].s.metric])
      BY <1>1, <1>6, <2>1 DEF LinesKept
    <2>2. ASSUME line \in (job[j].first + 1) .. job[j].next,
                 line \in ToSet(job[j].stream) \cup job[j].busy \cup job[j].dropped \cup {job[j].held} =>
                   \/ Value[line] = NoMatch
                   \/ line \in ToSet(job'[j].stream) \cup job'[j].busy \cup job'[j].dropped \cup {job'[j].held}
                   \/ [s |-> job[j].s, line |-> line] \in ToSet(counterQueue')
          PROVE  Placed(job'[j], line, counterQueue', updated'[job'[j].s.metric])
      <3> DEFINE counted == updated[job[j].s.metric]
                 point == [s |-> job[j].s, line |-> line]
      <3>1. updated'[job'[j].s.metric] = counted /\ job'[j].s = job[j].s
        BY <1>1
      <3>2. Placed(job[j], line, counterQueue, counted)
        BY <2>1, <2>2
      <3>3. point \in ToSet(counterQueue) => point \in ToSet(counterQueue')
        BY <1>4
      <3> HIDE DEF counted
      <3>4. Placed(job'[j], line, counterQueue', counted)
        BY <2>2, <3>1, <3>2, <3>3, StaysPlaced
      <3> QED
        BY <3>1, <3>4
    <2>3. CASE Read(j)
      <3>1. /\ job[j].held = 0
            /\ job'[j].stream = job[j].stream /\ job'[j].busy = job[j].busy /\ job'[j].dropped = job[j].dropped
            /\ job'[j].next = job[j].next + 1 /\ job'[j].held = job[j].next + 1
        BY <1>2, <2>3 DEF Read, JobStates
      <3>2. CASE line = job[j].next + 1
        BY <3>1, <3>2 DEF Placed
      <3>3. CASE line # job[j].next + 1
        <4>1. line \in (job[j].first + 1) .. job[j].next /\ line # 0
          BY <1>1, <1>3, <1>6, <3>1, <3>3
        <4> QED
          BY <2>2, <3>1, <4>1
      <3> QED
        BY <3>2, <3>3
    <2>4. ASSUME job'[j].next = job[j].next PROVE line \in (job[j].first + 1) .. job[j].next
      BY <1>1, <1>6, <2>4
    <2>5. CASE Put(j)
      <3>1. CASE Len(job[j].stream) < StreamSize
        <4>1. /\ job'[j].stream = Append(job[j].stream, job[j].held)
              /\ job'[j].busy = job[j].busy /\ job'[j].dropped = job[j].dropped /\ job'[j].next = job[j].next
          BY <1>2, <2>5, <3>1 DEF Put, JobStates
        <4>2. ToSet(job'[j].stream) = ToSet(job[j].stream) \cup {job[j].held}
          BY <1>3, <4>1, AppendOnce
        <4> QED
          BY <2>2, <2>4, <4>1, <4>2
      <3>2. CASE ~(Len(job[j].stream) < StreamSize)
        <4>1. /\ job'[j].stream = job[j].stream /\ job'[j].busy = job[j].busy
              /\ job'[j].dropped = job[j].dropped \cup {job[j].held} /\ job'[j].next = job[j].next
          BY <1>2, <2>5, <3>2 DEF Put, JobStates
        <4> QED
          BY <2>2, <2>4, <4>1
      <3> QED
        BY <3>1, <3>2
    <2>6. CASE TakeLine(j)
      <3>1. /\ job[j].stream # <<>> /\ job'[j].stream = Tail(job[j].stream)
            /\ job'[j].busy = job[j].busy \cup {Head(job[j].stream)}
            /\ job'[j].dropped = job[j].dropped /\ job'[j].next = job[j].next /\ job'[j].held = job[j].held
        BY <1>2, <2>6 DEF TakeLine, JobStates
      <3>2. ToSet(job[j].stream) = {Head(job[j].stream)} \cup ToSet(Tail(job[j].stream))
        BY <1>3, <3>1, TailOnce
      <3> QED
        BY <2>2, <2>4, <3>1, <3>2
    <2>7. ASSUME NEW done \in job[j].busy, Analyse(j, done)
          PROVE  Placed(job'[j], line, counterQueue', updated'[job'[j].s.metric])
      <3>1. /\ job'[j].stream = job[j].stream /\ job'[j].busy = job[j].busy \ {done}
            /\ job'[j].dropped = job[j].dropped /\ job'[j].next = job[j].next /\ job'[j].held = job[j].held
        BY <1>2, <2>7 DEF Analyse, JobStates
      <3>2. Value[done] = NoMatch \/ counterQueue' = Append(counterQueue, [s |-> job[j].s, line |-> done])
        BY <2>7 DEF Analyse
      <3>3. Value[done] = NoMatch \/ [s |-> job[j].s, line |-> done] \in ToSet(counterQueue')
        <4> DEFINE p == [s |-> job[j].s, line |-> done]
        <4> HIDE DEF p
        <4>1. ASSUME counterQueue' = Append(counterQueue, p) PROVE p \in ToSet(counterQueue')
          <5>1. ToSet(Append(counterQueue, p)) = ToSet(counterQueue) \cup {p}
            BY <1>2, AppendOnce
          <5> QED
            BY <4>1, <5>1
        <4> QED
          BY <3>2, <4>1 DEF p
      <3> QED
        BY <2>2, <2>4, <3>1, <3>3
    <2>8. CASE ConsumerEnds(j)
      <3>1. /\ job'[j].stream = job[j].stream /\ job'[j].busy = job[j].busy
            /\ job'[j].dropped = job[j].dropped /\ job'[j].next = job[j].next /\ job'[j].held = job[j].held
        BY <1>2, <2>8 DEF ConsumerEnds, JobStates
      <3> QED
        BY <2>2, <2>4, <3>1
    <2> QED
      BY <2>3, <2>5, <2>6, <2>7, <2>8 DEF JobStep
  <1> QED
    BY <1>5, <1>6 DEF LinesKept

LEMMA LinesKeptStep == PipelineTypeOK /\ LinesKept /\ [Next]_vars => LinesKept'
  <1> SUFFICES ASSUME PipelineTypeOK, LinesKept, [Next]_vars PROVE LinesKept'
    OBVIOUS
  <1>1. ASSUME NEW j \in Jobs, StopJob(j) PROVE LinesKept'
    <2>1. UNCHANGED <<counterQueue, updated>>
      BY <1>1 DEF StopJob, countVars
    <2>2. \A k \in Jobs : job'[k].at = "on" => job'[k] = job[k]
      BY <1>1, StopJobFacts
    <2> QED
      BY <2>1, <2>2 DEF LinesKept
  <1>2. ASSUME NEW s \in Listed, NEW j \in Jobs, StartJob(s, j) PROVE LinesKept'
    <2>1. UNCHANGED <<counterQueue, updated>>
      BY <1>2 DEF StartJob, countVars
    <2>2. /\ job'[j].next = written /\ job'[j].first = written /\ written \in Nat
          /\ \A k \in Jobs \ {j} : job'[k] = job[k]
      BY <1>2, StartJobFacts DEF PipelineTypeOK
    <2>3. (job'[j].first + 1) .. job'[j].next = {}
      BY <2>2
    <2> QED
      BY <2>1, <2>2, <2>3 DEF LinesKept
  <1>3. CASE TakePoint
    <2>1. PICK p \in [s : Listed, line : Nat] :
             /\ UNCHANGED job
             /\ p = Head(counterQueue) /\ counterQueue # <<>> /\ counterQueue' = Tail(counterQueue)
             /\ p.s.metric \in Metrics
             /\ \A m \in Metrics : updated'[m] = IF m = p.s.metric THEN Append(updated[m], p.line)
                                                 ELSE updated[m]
             /\ \A m \in Metrics : updated[m] \in Seq(Nat)
      BY <1>3, TakePointFacts
    <2>2. counterQueue \in Seq([s : Listed, line : Nat])
      BY DEF PipelineTypeOK
    <2>3. ToSet(counterQueue) = {p} \cup ToSet(counterQueue')
      BY <2>1, <2>2, TailOnce
    <2>4. ToSet(Append(updated[p.s.metric], p.line)) = ToSet(updated[p.s.metric]) \cup {p.line}
      BY <2>1, AppendOnce
    <2>5. \A m \in Metrics : /\ ToSet(updated[m]) \subseteq ToSet(updated'[m])
                             /\ m = p.s.metric => p.line \in ToSet(updated'[m])
      BY <2>1, <2>4
    <2>6. ASSUME NEW k \in Jobs, job[k].at = "on", NEW line \in (job[k].first + 1) .. job[k].next
          PROVE  Placed(job[k], line, counterQueue', updated'[job[k].s.metric])
      <3>1. Placed(job[k], line, counterQueue, updated[job[k].s.metric])
        BY <2>6 DEF LinesKept
      <3>2. job[k].s.metric \in Metrics
        BY <2>6 DEF PipelineTypeOK, Metrics
      <3> DEFINE x == [s |-> job[k].s, line |-> line]
      <3>3. x.s = job[k].s /\ x.line = line
        OBVIOUS
      <3>4. x = p => p.s.metric = job[k].s.metric /\ p.line = line
        BY <3>3
      <3> HIDE DEF x
      <3>5. x \in ToSet(counterQueue) => x \in ToSet(counterQueue') \/ line \in ToSet(updated'[job[k].s.metric])
        BY <2>3, <2>5, <3>2, <3>4
      <3> QED
        BY <2>5, <3>1, <3>2, <3>5, StaysPlaced DEF x
    <2> QED
      BY <2>1, <2>6 DEF LinesKept
  <1>4. CASE WriteLine \/ UNCHANGED <<job, written, counterQueue, updated>>
    <2>1. UNCHANGED <<job, counterQueue, updated>>
      BY <1>4 DEF WriteLine, countVars
    <2> QED
      BY <2>1 DEF LinesKept
  <1> QED
    BY <1>1, <1>2, <1>3, <1>4, LineSteps, LinesKeptAtJobStep

-----------------------------------------------------------------------------
(* What the counters know.  Sum is a recursive function; that it does what *)
(* its definition says needs an induction of its own.                      *)

\* Induction, on a set of numbers.
LEMMA AllNumbers ==
    ASSUME NEW S \in SUBSET Nat, 0 \in S, \A n \in S : n + 1 \in S
    PROVE  S = Nat
  <1> SUFFICES ASSUME Nat \ S # {} PROVE FALSE
    OBVIOUS
  <1>1. PICK m \in Nat \ S : \A y \in Nat \ S : ~(<<y, m>> \in OpToRel(<, Nat))
    BY NatLessThanWellFounded, WFMin
  <1>2. \A y \in Nat : y < m => y \in S
    BY <1>1 DEF OpToRel
  <1>3. m # 0
    OBVIOUS
  <1>4. m - 1 \in Nat /\ m - 1 < m
    BY <1>3
  <1>5. m - 1 \in S
    BY <1>2, <1>4
  <1> QED
    BY <1>5

\* The sums of the first lines, without recursion.
IsSums(f, lines) ==
    /\ f \in [0..Len(lines) -> Int]
    /\ f[0] = 0
    /\ \A n \in 1..Len(lines) : f[n] = f[n - 1] + Value[lines[n]]

LEMMA SumsThere ==
    ASSUME NEW lines \in Seq(Numbered)
    PROVE  \E f : IsSums(f, lines)
  <1> DEFINE Rec(f, k) == /\ f \in [0..k -> Int] /\ f[0] = 0
                          /\ \A n \in 1..k : f[n] = f[n - 1] + Value[lines[n]]
             Has(k) == k <= Len(lines) => \E f \in [0..k -> Int] : Rec(f, k)
             S == {k \in Nat : Has(k)}
  <1>0. \A n \in 1..Len(lines) : Value[lines[n]] \in Int
    BY DEF Numbered
  <1>1. 0 \in S
    <2> DEFINE f == [n \in 0..0 |-> 0]
    <2>1. Rec(f, 0) /\ f \in [0..0 -> Int]
      OBVIOUS
    <2> QED
      BY <2>1
  <1>2. ASSUME NEW k \in Nat, Has(k), k + 1 <= Len(lines)
        PROVE  \E f \in [0..k+1 -> Int] : Rec(f, k + 1)
    <2>0. k <= Len(lines)
      BY <1>2
    <2>1. PICK f \in [0..k -> Int] : Rec(f, k)
      <3> HIDE DEF Rec
      <3> QED
        BY <1>2, <2>0
    <2> DEFINE g == [n \in 0..k+1 |-> IF n <= k THEN f[n] ELSE f[k] + Value[lines[k + 1]]]
    <2>2. g \in [0..k+1 -> Int]
      BY <1>0, <1>2
    <2>3. ASSUME NEW n \in 1..k+1 PROVE g[n] = g[n - 1] + Value[lines[n]]
      BY <2>1
    <2>4. g[0] = 0
      BY <2>1
    <2> HIDE DEF g
    <2> QED
      BY <2>2, <2>3, <2>4
  <1>3. S = Nat
    <2>1. \A k \in Nat : Has(k) => Has(k + 1)
      <3> HIDE DEF Rec
      <3> QED
        BY <1>2
    <2> HIDE DEF Has
    <2>2. S \in SUBSET Nat /\ \A k \in S : k + 1 \in S
      BY <2>1
    <2> HIDE DEF S
    <2> QED
      BY <1>1, <2>2, AllNumbers
  <1>4. Has(Len(lines))
    <2> HIDE DEF Has
    <2> QED
      BY <1>3
  <1> QED
    BY <1>4 DEF IsSums

LEMMA SumIs ==
    ASSUME NEW lines \in Seq(Numbered), NEW f, IsSums(f, lines)
    PROVE  Sum(lines) = f[Len(lines)]
  <1> DEFINE N == Len(lines)
             g == CHOOSE g : g = [n \in 0..N |-> IF n = 0 THEN 0 ELSE g[n - 1] + Value[lines[n]]]
             S == {n \in Nat : n <= N => g[n] = f[n]}
  <1>1. N \in Nat
    OBVIOUS
  <1>2. Sum(lines) = g[N]
    BY DEF Sum
  <1>3. f = [n \in 0..N |-> IF n = 0 THEN 0 ELSE f[n - 1] + Value[lines[n]]]
    BY DEF IsSums
  <1>4. g = [n \in 0..N |-> IF n = 0 THEN 0 ELSE g[n - 1] + Value[lines[n]]]
    BY <1>3
  <1> HIDE DEF g, N
  <1>5. g[0] = 0
    BY <1>1, <1>4
  <1>6. \A n \in 1..N : g[n] = g[n - 1] + Value[lines[n]]
    BY <1>1, <1>4
  <1>7. 0 \in S
    BY <1>5 DEF IsSums
  <1>8. ASSUME NEW n \in S PROVE n + 1 \in S
    <2> SUFFICES ASSUME n + 1 <= N PROVE g[n + 1] = f[n + 1]
      OBVIOUS
    <2>1. n + 1 \in 1..N /\ (n + 1) - 1 = n
      BY <1>1
    <2> QED
      BY <1>1, <1>6, <2>1 DEF IsSums, N
  <1>9. S = Nat
    <2>1. S \in SUBSET Nat
      OBVIOUS
    <2> HIDE DEF S
    <2> QED
      BY <1>7, <1>8, <2>1, AllNumbers
  <1>10. N \in S
    BY <1>1, <1>9
  <1> QED
    BY <1>1, <1>2, <1>10 DEF N

LEMMA SumNone == Sum(<<>>) = 0
  <1> DEFINE f == [n \in 0..0 |-> 0]
  <1>1. IsSums(f, <<>>)
    BY DEF IsSums
  <1> HIDE DEF f
  <1>2. <<>> \in Seq(Numbered) /\ Len(<<>>) = 0
    OBVIOUS
  <1>3. Sum(<<>>) = f[Len(<<>>)]
    BY <1>1, <1>2, SumIs
  <1> QED
    BY <1>1, <1>2, <1>3 DEF IsSums

LEMMA SumAppend ==
    ASSUME NEW lines \in Seq(Numbered), NEW line \in Numbered
    PROVE  /\ Sum(lines) \in Int
           /\ Sum(Append(lines, line)) = Sum(lines) + Value[line]
  <1> DEFINE N == Len(lines)
             more == Append(lines, line)
  <1>1. PICK f : IsSums(f, lines)
    BY SumsThere
  <1>2. Sum(lines) = f[N] /\ f[N] \in Int
    BY <1>1, SumIs DEF IsSums
  <1> DEFINE g == [n \in 0..N + 1 |-> IF n <= N THEN f[n] ELSE f[N] + Value[line]]
  <1>3. more \in Seq(Numbered) /\ Len(more) = N + 1 /\ more[N + 1] = line /\ \A n \in 1..N : more[n] = lines[n]
    OBVIOUS
  <1>4. g \in [0..N + 1 -> Int] /\ g[0] = 0
    <2>1. f \in [0..N -> Int] /\ f[0] = 0 /\ f[N] + Value[line] \in Int
      BY <1>1, <1>2 DEF IsSums, Numbered
    <2> QED
      BY <2>1
  <1>5. ASSUME NEW n \in 1..N + 1 PROVE g[n] = g[n - 1] + Value[more[n]]
    BY <1>1, <1>3 DEF IsSums
  <1>6. IsSums(g, more)
    BY <1>3, <1>4, <1>5 DEF IsSums
  <1>7. g[N + 1] = f[N] + Value[line]
    OBVIOUS
  <1>8. Sum(more) = g[N + 1]
    <2> HIDE DEF g, more
    <2> QED
      BY <1>3, <1>6, SumIs
  <1> QED
    BY <1>2, <1>7, <1>8

\* The first lines stay the first when one more is counted.
LEMMA FirstsStay ==
    ASSUME NEW S, NEW lines \in Seq(S), NEW line \in S
    PROVE  /\ Append(lines, line) # <<>> /\ Len(Append(lines, line)) = Len(lines) + 1
           /\ SubSeq(lines, 1, Len(lines)) = lines
           /\ \A n \in 0..Len(lines) : /\ SubSeq(lines, 1, n) \in Seq(S) /\ Len(SubSeq(lines, 1, n)) = n
                                       /\ SubSeq(Append(lines, line), 1, n) = SubSeq(lines, 1, n)
  OBVIOUS

LEMMA SubLines ==
    ASSUME NEW S, NEW lines \in Seq(S), NEW n \in 0..Len(lines)
    PROVE  /\ SubSeq(lines, 1, n) \in Seq(S) /\ Len(SubSeq(lines, 1, n)) = n
           /\ SubSeq(lines, 1, Len(lines)) = lines
  OBVIOUS

\* Comparing with one more value.
LEMMA ExtremesAppend ==
    ASSUME NEW lines \in Seq(Numbered), NEW line \in Numbered, NEW x
    PROVE  /\ Greatest(x, Values(lines)) =>
                Greatest(IF Value[line] > x THEN Value[line] ELSE x, Values(Append(lines, line)))
           /\ Least(x, Values(lines)) =>
                Least(IF Value[line] < x THEN Value[line] ELSE x, Values(Append(lines, line)))
  <1>1. ToSet(Append(lines, line)) = ToSet(lines) \cup {line}
    BY AppendOnce
  <1>2. Values(Append(lines, line)) = Values(lines) \cup {Value[line]}
    BY <1>1 DEF Values
  <1>3. ToSet(lines) \subseteq Numbered
    BY DEF ToSet
  <1>4. Values(lines) \subseteq Int /\ Value[line] \in Int
    BY <1>3 DEF Values, Numbered
  <1> QED
    BY <1>2, <1>4 DEF Greatest, Least

LEMMA NumbersInit == Init => NumbersSent
  <1> SUFFICES ASSUME Init PROVE NumbersSent
    OBVIOUS
  <1>1. written = 0 /\ counterQueue = <<>> /\ updated = [m \in Metrics |-> <<>>]
    BY DEF Init
  <1>2. Len(Value) \in Nat
    BY ValuesAreNumbers
  <1>3. \A S : <<>> \in Seq(S)
    OBVIOUS
  <1> QED
    BY <1>1, <1>2, <1>3 DEF NumbersSent

\* Only lines that give a number get into the queue.
LEMMA NumbersStep ==
    ASSUME PipelineTypeOK, LinesAhead, NumbersSent, [Next]_vars
    PROVE  NumbersSent'
  <1> USE DEF NumbersSent
  <1>1. ASSUME NEW j \in Jobs, JobStep(j) PROVE NumbersSent'
    <2>1. UNCHANGED <<written, updated>> /\ job[j].at # "none"
      BY <1>1, JobStepFacts
    <2>2. job[j].s \in Listed
      BY <2>1 DEF PipelineTypeOK
    <2>3. ASSUME NEW line \in job[j].busy, Analyse(j, line)
          PROVE  counterQueue' \in Seq([s : Listed, line : Numbered])
      <3>1. line \in 1 .. written
        BY <2>3 DEF LinesAhead, InHand
      <3>2. line \in DOMAIN Value /\ Value[line] \in Int \cup {NoMatch}
        BY <3>1, ValuesAreNumbers DEF PipelineTypeOK
      <3>3. CASE Value[line] = NoMatch
        BY <2>3, <3>3 DEF Analyse
      <3>4. CASE Value[line] # NoMatch
        <4> DEFINE p == [s |-> job[j].s, line |-> line]
        <4>1. p \in [s : Listed, line : Numbered]
          BY <2>2, <3>2, <3>4 DEF Numbered
        <4>2. counterQueue' = Append(counterQueue, p)
          BY <2>3, <3>4 DEF Analyse
        <4> HIDE DEF p
        <4> QED
          BY <4>1, <4>2
      <3> QED
        BY <3>3, <3>4
    <2>4. counterQueue' \in Seq([s : Listed, line : Numbered])
      BY <1>1, <2>3 DEF JobStep, Read, Put, TakeLine, ConsumerEnds
    <2> QED
      BY <2>1, <2>4
  <1>2. ASSUME NEW j \in Jobs, StopJob(j) \/ \E s \in Listed : StartJob(s, j) PROVE NumbersSent'
    BY <1>2 DEF StopJob, StartJob, countVars
  <1>3. CASE TakePoint
    <2> DEFINE p == Head(counterQueue)
    <2>1. /\ p \in [s : Listed, line : Numbered] /\ Tail(counterQueue) \in Seq([s : Listed, line : Numbered])
          /\ counterQueue' = Tail(counterQueue)
      BY <1>3, TailFacts DEF TakePoint
    <2>2. updated' = [updated EXCEPT ![p.s.metric] = Append(@, p.line)] /\ written' = written
      BY <1>3 DEF TakePoint, OnlyCount
    <2> HIDE DEF p
    <2>3. p.s.metric \in Metrics /\ p.line \in Numbered
      BY <2>1 DEF Metrics
    <2>4. Append(updated[p.s.metric], p.line) \in Seq(Numbered)
      BY <2>3
    <2>5. updated' \in [Metrics -> Seq(Numbered)]
      BY <2>2, <2>4
    <2> QED
      BY <2>1, <2>2, <2>5
  <1>4. CASE WriteLine
    BY <1>4, ValuesAreNumbers DEF WriteLine, countVars, PipelineTypeOK
  <1>5. CASE UNCHANGED <<job, written, counterQueue, updated>>
    BY <1>5
  <1> QED
    BY <1>1, <1>2, <1>3, <1>4, <1>5, LineSteps

\* The steps that change counters.
LEMMA CounterSteps ==
    ASSUME [Next]_vars
    PROVE  UpdaterStep \/ UpdaterEnds \/ UNCHANGED countVars
  <1>1. ASSUME NEW j \in Jobs, JobStep(j) \/ StopJob(j) \/ \E s \in Listed : StartJob(s, j)
        PROVE  UNCHANGED countVars
    BY <1>1 DEF JobStep, Read, Put, TakeLine, ConsumerEnds, Analyse, OnlyJob, StopJob, StartJob
  <1>2. ASSUME NEW l \in Loops, OtherCall(l) \/ ClientMoves(l) PROVE UNCHANGED countVars
    BY <1>2 DEF OtherCall, ClientMoves
  <1>3. CASE DoSync \/ SyncReturns \/ SyncFails \/ SendList \/ LogTick \/ LogLoopEnds \/ Sync \/ SyncDone \/ SyncStop
    BY <1>3 DEF DoSync, SyncReturns, SyncFails, Synced, SendList, LogTick, LogLoopEnds, Sync, SyncDone, SyncStop
  <1>4. CASE (\E m \in Metrics : SetMetrics(m)) \/ SetAverage \/ SetterEnds
    BY <1>4 DEF SetMetrics, SetAverage, SetterEnds
  <1>5. CASE WriteLine \/ ChangeStrategies \/ Cancel \/ UNCHANGED vars
    BY <1>5 DEF WriteLine, ChangeStrategies, Cancel, vars
  <1> QED
    BY LogLoop, <1>1, <1>2, <1>3, <1>4, <1>5 DEF Next, LogLoopStep, ManagerStep

LEMMA CountersInit == Init => CountersRight
  <1> SUFFICES ASSUME Init PROVE CountersRight
    OBVIOUS
  <1>1. updater = [at |-> "select", metric |-> "", line |-> 0] /\ updated = [m \in Metrics |-> <<>>]
    BY DEF Init
  <1>2. counter = <<>>
    BY DEF Init
  <1>3. DOMAIN <<>> = {}
    OBVIOUS
  <1> QED
    BY <1>1, <1>2, <1>3 DEF CountersRight, Updating

\* A field knows all lines unless the updater is about to write it.
LEMMA KnownLines ==
    ASSUME NumbersSent, NEW m \in Metrics, NEW stages, updater.at \notin stages \/ updater.metric # m
    PROVE  Known(m, stages) = updated[m]
  BY SubLines DEF NumbersSent, Known

LEMMA CountersAtTakePoint ==
    ASSUME PipelineTypeOK, NumbersSent, NumbersSent', CountersRight, TakePoint
    PROVE  CountersRight'
  <1>1. PICK p \in [s : Listed, line : Numbered] : p = Head(counterQueue)
    BY TailFacts DEF TakePoint, NumbersSent
  <1>2. PICK taken, line, lines : taken = p.s.metric /\ line = p.line /\ lines = updated[taken]
    OBVIOUS
  <1>3. taken \in Metrics /\ line \in Numbered
    BY <1>1, <1>2 DEF Metrics
  <1>4. /\ updater.at = "select"
        /\ updater' = [at |-> "sum", metric |-> taken, line |-> line]
        /\ updated' = [updated EXCEPT ![taken] = Append(lines, line)]
        /\ counter' = IF taken \in DOMAIN counter THEN counter ELSE With(counter, taken, NewCounter(p.s.func))
    BY <1>1, <1>2 DEF TakePoint
  <1>5. updated \in [Metrics -> Seq(Numbered)] /\ lines \in Seq(Numbered)
    BY <1>2, <1>3 DEF NumbersSent
  <1>6. updated'[taken] = Append(lines, line) /\ \A m \in Metrics \ {taken} : updated'[m] = updated[m]
    BY <1>2, <1>4, <1>3, <1>5
  <1>7. ASSUME NEW stages, "sum" \in stages, "select" \notin stages
        PROVE  Known(taken, stages)' = lines /\ Known(taken, stages) = lines
    <2>1. Known(taken, stages) = lines
      BY <1>2, <1>4, <1>3, <1>7, KnownLines
    <2>2. Known(taken, stages)' = SubSeq(Append(lines, line), 1, Len(Append(lines, line)) - 1)
      BY <1>4, <1>6, <1>7 DEF Known
    <2>3. SubSeq(Append(lines, line), 1, Len(Append(lines, line)) - 1) = lines
      <3>1. Len(Append(lines, line)) - 1 = Len(lines) /\ Len(lines) \in 0..Len(lines)
        BY <1>3, <1>5
      <3> QED
        BY <1>3, <1>5, <3>1, FirstsStay
    <2> QED
      BY <2>1, <2>2, <2>3
  <1>8. ASSUME NEW m \in Metrics \ {taken}, NEW stages, "select" \notin stages
        PROVE  Known(m, stages)' = updated[m] /\ Known(m, stages) = updated[m]
    <2>1. Known(m, stages) = updated[m]
      BY <1>4, <1>8, KnownLines
    <2>2. Known(m, stages)' = SubSeq(updated[m], 1, Len(updated[m]) - 0)
      BY <1>4, <1>6 DEF Known
    <2> QED
      BY <1>5, <2>1, <2>2, SubLines
  <1>9. DOMAIN counter' = DOMAIN counter \cup {taken}
    BY <1>4 DEF With
  <1>10. ASSUME NEW m \in DOMAIN counter'
        PROVE  IsRight(counter'[m], Known(m, Updating)', Known(m, {"sum"})', Known(m, {"sum", "extremes"})')
    <2>1. CASE m \in DOMAIN counter
      <3>1. counter'[m] = counter[m] /\ m \in Metrics
        BY <1>4, <2>1 DEF With, CountersRight
      <3>2. IsRight(counter[m], Known(m, Updating), Known(m, {"sum"}), Known(m, {"sum", "extremes"}))
        BY <2>1 DEF CountersRight
      <3>3. /\ Known(m, Updating)' = Known(m, Updating)
            /\ Known(m, {"sum"})' = Known(m, {"sum"})
            /\ Known(m, {"sum", "extremes"})' = Known(m, {"sum", "extremes"})
        <4>1. CASE m = taken
          BY <1>7, <4>1 DEF Updating
        <4>2. CASE m # taken
          BY <1>8, <3>1, <4>2 DEF Updating
        <4> QED
          BY <4>1, <4>2
      <3> QED
        BY <3>1, <3>2, <3>3
    <2>2. CASE m \notin DOMAIN counter
      <3>1. m = taken /\ counter'[m] = NewCounter(p.s.func) /\ lines = <<>>
        BY <1>2, <1>4, <1>3, <1>9, <2>2 DEF With, CountersRight
      <3>2. Known(m, Updating)' = <<>> /\ Known(m, {"sum"})' = <<>> /\ Known(m, {"sum", "extremes"})' = <<>>
        BY <1>7, <3>1 DEF Updating
      <3>3. ToSet(<<>>) = {} /\ Len(<<>>) = 0
        BY DEF ToSet
      <3>4. Values(<<>>) = {0}
        BY <3>3 DEF Values
      <3>5. IsRight(NewCounter(p.s.func), <<>>, <<>>, <<>>)
        BY <3>3, <3>4, SumNone DEF IsRight, NewCounter, Greatest, Least
      <3> QED
        BY <3>1, <3>2, <3>5
    <2> QED
      BY <2>1, <2>2
  <1>11. DOMAIN counter' \subseteq Metrics /\ \A m \in Metrics \ DOMAIN counter' : updated'[m] = <<>>
    BY <1>3, <1>6, <1>9 DEF CountersRight
  <1>12. updated'[updater'.metric] = Append(Known(taken, Updating)', line)
    <2>1. Known(taken, Updating)' = lines
      BY <1>7 DEF Updating
    <2> QED
      BY <1>4, <1>6, <2>1
  <1>13. updater' = [at |-> updater'.at, metric |-> updater'.metric, line |-> updater'.line]
    BY <1>4
  <1>14. updater'.metric = taken /\ updater'.line = line /\ taken \in DOMAIN counter'
    BY <1>4, <1>9
  <1> QED
    BY <1>3, <1>10, <1>11, <1>12, <1>13, <1>14 DEF CountersRight

\* One field of one counter is written.  `known` are the lines of the counter before the
\* one in hand.
LEMMA CountersAtField ==
    ASSUME NumbersSent, CountersRight, UNCHANGED updated, NEW m \in Metrics, NEW lines \in Seq(Numbered),
           NEW line \in Numbered, NEW from \in Updating, NEW to \in Updating \cup {"select"}, NEW c,
           updater = [at |-> from, metric |-> m, line |-> line],
           updater' = [at |-> to, metric |-> m, line |-> line],
           counter' = [counter EXCEPT ![m] = c], lines = Known(m, Updating),
           IsRight(c, IF to \in Updating THEN lines ELSE Append(lines, line),
                      IF to = "sum" THEN lines ELSE Append(lines, line),
                      IF to \in {"sum", "extremes"} THEN lines ELSE Append(lines, line))
    PROVE  CountersRight'
  <1>1. m \in DOMAIN counter /\ updated[m] = Append(lines, line) /\ updated' = updated
    BY DEF CountersRight
  <1>2. ASSUME NEW stages
        PROVE  /\ to \in stages => Known(m, stages)' = lines
               /\ to \notin stages => Known(m, stages)' = Append(lines, line)
    <2>1. Len(Append(lines, line)) - 1 = Len(lines) /\ Len(lines) \in 0..Len(lines)
      OBVIOUS
    <2>2. to \in stages => Known(m, stages)' = SubSeq(Append(lines, line), 1, Len(Append(lines, line)) - 1)
      BY <1>1 DEF Known
    <2>3. SubSeq(Append(lines, line), 1, Len(Append(lines, line)) - 1) = lines
      BY <2>1, FirstsStay
    <2>4. to \notin stages => Known(m, stages)' = SubSeq(Append(lines, line), 1, Len(Append(lines, line)) - 0)
      BY <1>1 DEF Known
    <2>5. SubSeq(Append(lines, line), 1, Len(Append(lines, line)) - 0) = Append(lines, line)
      OBVIOUS
    <2> QED
      BY <2>2, <2>3, <2>4, <2>5
  <1>3. ASSUME NEW n \in DOMAIN counter, n # m, NEW stages
        PROVE  Known(n, stages)' = Known(n, stages)
    BY <1>1, <1>3 DEF Known
  <1>4. DOMAIN counter' = DOMAIN counter /\ counter'[m] = c
    BY <1>1
  <1>5. ASSUME NEW n \in DOMAIN counter
        PROVE  IsRight(counter'[n], Known(n, Updating)', Known(n, {"sum"})', Known(n, {"sum", "extremes"})')
    <2>1. CASE n = m
      <3>1. Known(m, Updating)' = IF to \in Updating THEN lines ELSE Append(lines, line)
        BY <1>2
      <3>2. Known(m, {"sum"})' = IF to = "sum" THEN lines ELSE Append(lines, line)
        BY <1>2
      <3>3. Known(m, {"sum", "extremes"})' = IF to \in {"sum", "extremes"} THEN lines ELSE Append(lines, line)
        BY <1>2
      <3> QED
        BY <1>4, <2>1, <3>1, <3>2, <3>3
    <2>2. CASE n # m
      <3>1. counter'[n] = counter[n]
        BY <2>2
      <3>2. IsRight(counter[n], Known(n, Updating), Known(n, {"sum"}), Known(n, {"sum", "extremes"}))
        BY DEF CountersRight
      <3> QED
        BY <1>3, <2>2, <3>1, <3>2
    <2> QED
      BY <2>1, <2>2
  <1>6. updater'.at \in Updating => updated'[m] = Append(Known(m, Updating)', line)
    BY <1>1, <1>2
  <1>7. /\ updater' = [at |-> updater'.at, metric |-> updater'.metric, line |-> updater'.line]
        /\ updater'.metric = m /\ updater'.line = line
    OBVIOUS
  <1>8. DOMAIN counter \subseteq Metrics /\ \A n \in Metrics \ DOMAIN counter : updated[n] = <<>>
    BY DEF CountersRight
  <1> QED
    BY <1>1, <1>4, <1>5, <1>6, <1>7, <1>8 DEF CountersRight

\* The updater at one of its stages.
LEMMA AtStage ==
    ASSUME NumbersSent, CountersRight, NEW from \in Updating, NEW to, NEW c, UpdateField(from, to, c)
    PROVE  \E m \in DOMAIN counter, line \in Numbered, lines \in Seq(Numbered) :
             /\ m \in Metrics /\ lines = Known(m, Updating)
             /\ UNCHANGED updated
             /\ updater = [at |-> from, metric |-> m, line |-> line]
             /\ updater' = [at |-> to, metric |-> m, line |-> line]
             /\ counter' = [counter EXCEPT ![m] = c]
             /\ Known(m, {"sum"}) = IF from = "sum" THEN lines ELSE Append(lines, line)
             /\ Known(m, {"sum", "extremes"}) = IF from \in {"sum", "extremes"} THEN lines ELSE Append(lines, line)
  <1>1. PICK m, line, lines : m = updater.metric /\ line = updater.line /\ lines = Known(m, Updating)
    OBVIOUS
  <1>2. /\ updater = [at |-> from, metric |-> m, line |-> line]
        /\ m \in DOMAIN counter /\ m \in Metrics /\ line \in Numbered /\ updated[m] = Append(lines, line)
    BY <1>1 DEF UpdateField, CountersRight
  <1>3. updater' = [updater EXCEPT !.at = to] /\ counter' = [counter EXCEPT ![m] = c] /\ UNCHANGED updated
    BY <1>1 DEF UpdateField
  <1>4. updater' = [at |-> to, metric |-> m, line |-> line]
    BY <1>2, <1>3
  <1>5. updated[m] \in Seq(Numbered)
    BY <1>2 DEF NumbersSent
  <1>6. Len(updated[m]) > 0
    <2>1. updated[m] # <<>>
      <3>1. CASE lines = <<>>
        BY <1>2, <3>1
      <3>2. lines = SubSeq(updated[m], 1, Len(updated[m]) - 1)
        BY <1>1, <1>2 DEF Known
      <3>3. CASE updated[m] = <<>>
        BY <1>2, <3>1, <3>2, <3>3
      <3> QED
        BY <3>3
    <2> QED
      BY <1>5, <2>1
  <1>7. lines = SubSeq(updated[m], 1, Len(updated[m]) - 1) /\ Len(updated[m]) - 1 \in 0..Len(updated[m])
    BY <1>1, <1>2, <1>5, <1>6 DEF Known
  <1>8. lines \in Seq(Numbered)
    BY <1>5, <1>7, SubLines
  <1>9. ASSUME NEW stages
        PROVE  Known(m, stages) = IF from \in stages THEN lines ELSE Append(lines, line)
    <2>1. CASE from \in stages
      BY <1>2, <1>7, <2>1 DEF Known
    <2>2. CASE from \notin stages
      <3>1. Known(m, stages) = updated[m]
        BY <1>2, <2>2, KnownLines
      <3> QED
        BY <1>2, <2>2, <3>1
    <2> QED
      BY <2>1, <2>2
  <1>10. /\ Known(m, {"sum"}) = IF from = "sum" THEN lines ELSE Append(lines, line)
         /\ Known(m, {"sum", "extremes"}) = IF from \in {"sum", "extremes"} THEN lines ELSE Append(lines, line)
    BY <1>9
  <1> QED
    BY <1>1, <1>2, <1>3, <1>4, <1>8, <1>10

LEMMA CountersAtSum ==
    ASSUME NumbersSent, CountersRight, UpdateSum
    PROVE  CountersRight'
  <1> DEFINE c == [counter[updater.metric] EXCEPT !.sum = @ + Value[updater.line]]
  <1>1. UpdateField("sum", "extremes", c)
    BY DEF UpdateSum
  <1> HIDE DEF c
  <1>2. "sum" \in Updating
    BY DEF Updating
  <1>3. PICK m \in DOMAIN counter, line \in Numbered, lines \in Seq(Numbered) :
             /\ m \in Metrics /\ lines = Known(m, Updating)
             /\ UNCHANGED updated
             /\ updater = [at |-> "sum", metric |-> m, line |-> line]
             /\ updater' = [at |-> "extremes", metric |-> m, line |-> line]
             /\ counter' = [counter EXCEPT ![m] = c]
             /\ Known(m, {"sum"}) = lines /\ Known(m, {"sum", "extremes"}) = lines
    BY <1>1, <1>2, AtStage
  <1>4. IsRight(counter[m], lines, lines, lines)
    BY <1>3 DEF CountersRight
  <1>5. Sum(Append(lines, line)) = Sum(lines) + Value[line]
    BY SumAppend
  <1>6. c = [counter[m] EXCEPT !.sum = @ + Value[line]]
    BY <1>3 DEF c
  <1>7. IsRight(c, lines, Append(lines, line), lines)
    BY <1>4, <1>5, <1>6 DEF IsRight
  <1> QED
    BY <1>3, <1>7, CountersAtField DEF Updating

LEMMA CountersAtExtremes ==
    ASSUME NumbersSent, CountersRight, UpdateExtremes
    PROVE  CountersRight'
  <1> DEFINE v == Value[updater.line]
             c == [counter[updater.metric] EXCEPT !.max = IF v > @ THEN v ELSE @, !.min = IF v < @ THEN v ELSE @]
  <1>1. UpdateField("extremes", "count", c)
    BY DEF UpdateExtremes
  <1> HIDE DEF c
  <1>2. "extremes" \in Updating
    BY DEF Updating
  <1>3. PICK m \in DOMAIN counter, line \in Numbered, lines \in Seq(Numbered) :
             /\ m \in Metrics /\ lines = Known(m, Updating)
             /\ UNCHANGED updated
             /\ updater = [at |-> "extremes", metric |-> m, line |-> line]
             /\ updater' = [at |-> "count", metric |-> m, line |-> line]
             /\ counter' = [counter EXCEPT ![m] = c]
             /\ Known(m, {"sum"}) = Append(lines, line) /\ Known(m, {"sum", "extremes"}) = lines
    BY <1>1, <1>2, AtStage
  <1>4. IsRight(counter[m], lines, Append(lines, line), lines)
    BY <1>3 DEF CountersRight
  <1>5. c = [counter[m] EXCEPT !.max = IF Value[line] > @ THEN Value[line] ELSE @,
                               !.min = IF Value[line] < @ THEN Value[line] ELSE @]
    BY <1>3 DEF c
  <1> DEFINE old == counter[m]
  <1> HIDE DEF old
  <1>6. /\ c.max = IF Value[line] > counter[m].max THEN Value[line] ELSE counter[m].max
        /\ c.min = IF Value[line] < counter[m].min THEN Value[line] ELSE counter[m].min
        /\ c = [func |-> c.func, count |-> Len(lines), sum |-> Sum(Append(lines, line)), max |-> c.max, min |-> c.min]
    <2>1. PICK func, most, least :
              old = [func |-> func, count |-> Len(lines), sum |-> Sum(Append(lines, line)), max |-> most, min |-> least]
      BY <1>4 DEF IsRight, old
    <2> DEFINE max == IF Value[line] > most THEN Value[line] ELSE most
               min == IF Value[line] < least THEN Value[line] ELSE least
    <2>2. c = [old EXCEPT !.max = max, !.min = min]
      BY <1>5, <2>1 DEF old
    <2> HIDE DEF max, min
    <2>4. c = [func |-> func, count |-> Len(lines), sum |-> Sum(Append(lines, line)), max |-> max, min |-> min]
      BY <2>1, <2>2
    <2>3. /\ c.max = IF Value[line] > old.max THEN Value[line] ELSE old.max
          /\ c.min = IF Value[line] < old.min THEN Value[line] ELSE old.min
          /\ c = [func |-> c.func, count |-> Len(lines), sum |-> Sum(Append(lines, line)), max |-> c.max, min |-> c.min]
      BY <2>1, <2>4 DEF max, min
    <2> QED
      BY <2>3 DEF old
  <1>7. IsRight(c, lines, Append(lines, line), Append(lines, line))
    BY <1>4, <1>6, ExtremesAppend DEF IsRight
  <1> QED
    BY <1>3, <1>7, CountersAtField DEF Updating

LEMMA CountersAtCount ==
    ASSUME NumbersSent, CountersRight, UpdateCount
    PROVE  CountersRight'
  <1> DEFINE c == [counter[updater.metric] EXCEPT !.count = @ + 1]
  <1>1. UpdateField("count", "select", c)
    BY DEF UpdateCount
  <1> HIDE DEF c
  <1>2. "count" \in Updating
    BY DEF Updating
  <1>3. PICK m \in DOMAIN counter, line \in Numbered, lines \in Seq(Numbered) :
             /\ m \in Metrics /\ lines = Known(m, Updating)
             /\ UNCHANGED updated
             /\ updater = [at |-> "count", metric |-> m, line |-> line]
             /\ updater' = [at |-> "select", metric |-> m, line |-> line]
             /\ counter' = [counter EXCEPT ![m] = c]
             /\ Known(m, {"sum"}) = Append(lines, line) /\ Known(m, {"sum", "extremes"}) = Append(lines, line)
    BY <1>1, <1>2, AtStage
  <1>4. IsRight(counter[m], lines, Append(lines, line), Append(lines, line))
    BY <1>3 DEF CountersRight
  <1>5. c = [counter[m] EXCEPT !.count = @ + 1] /\ Len(Append(lines, line)) = Len(lines) + 1
    BY <1>3 DEF c
  <1>6. IsRight(c, Append(lines, line), Append(lines, line), Append(lines, line))
    BY <1>4, <1>5 DEF IsRight
  <1> QED
    BY <1>3, <1>6, CountersAtField DEF Updating

LEMMA CountersStep ==
    ASSUME PipelineTypeOK, LinesAhead, NumbersSent, CountersRight, [Next]_vars
    PROVE  CountersRight'
  <1>1. NumbersSent'
    BY NumbersStep
  <1>2. CASE UpdaterEnds
    <2>1. updater' = [updater EXCEPT !.at = "ended"] /\ updater.at = "select" /\ UNCHANGED <<counter, updated>>
      BY <1>2 DEF UpdaterEnds
    <2>2. updater' = [at |-> "ended", metric |-> updater.metric, line |-> updater.line]
      BY <2>1 DEF CountersRight
    <2>3. ASSUME NEW m, NEW stages, "select" \notin stages, "ended" \notin stages
          PROVE  Known(m, stages)' = Known(m, stages)
      BY <2>1, <2>2, <2>3 DEF Known
    <2>4. \A m \in DOMAIN counter : /\ Known(m, Updating)' = Known(m, Updating)
                                    /\ Known(m, {"sum"})' = Known(m, {"sum"})
                                    /\ Known(m, {"sum", "extremes"})' = Known(m, {"sum", "extremes"})
      BY <2>3 DEF Updating
    <2> QED
      BY <2>1, <2>2, <2>4 DEF CountersRight, Updating
  <1>3. CASE UNCHANGED countVars
    BY <1>3 DEF countVars, CountersRight, Known
  <1> QED
    BY <1>1, <1>2, <1>3, CounterSteps, CountersAtTakePoint, CountersAtSum, CountersAtExtremes, CountersAtCount
    DEF UpdaterStep

-----------------------------------------------------------------------------
(* What the metrics show.                                                  *)

\* What a field knows are the first lines, all or all but one.
LEMMA KnownAreFirst ==
    ASSUME NumbersSent, CountersRight, NEW m \in DOMAIN counter, NEW stages \in SUBSET Updating
    PROVE  \E n \in 0..Len(updated[m]) :
             /\ n >= Len(updated[m]) - 1
             /\ Known(m, stages) = SubSeq(updated[m], 1, n) /\ Len(Known(m, stages)) = n
  <1>1. m \in Metrics /\ updated[m] \in Seq(Numbered)
    BY DEF NumbersSent, CountersRight
  <1>2. CASE updater.at \notin stages \/ updater.metric # m
    BY <1>1, <1>2, KnownLines, SubLines
  <1>3. CASE updater.at \in stages /\ updater.metric = m
    <2>1. updated[m] = Append(Known(m, Updating), updater.line)
      BY <1>3 DEF CountersRight
    <2>2. updated[m] # <<>>
      <3>1. Known(m, Updating) = SubSeq(updated[m], 1, Len(updated[m]) - 1)
        BY <1>3 DEF Known
      <3>2. ASSUME updated[m] = <<>> PROVE FALSE
        <4>1. Known(m, Updating) = <<>>
          BY <3>1, <3>2
        <4>2. updater.line \in Numbered /\ <<>> \in Seq(Numbered)
          BY <1>3 DEF CountersRight
        <4>3. Append(<<>>, updater.line) # <<>>
          BY <4>2, FirstsStay
        <4> QED
          BY <2>1, <3>2, <4>1, <4>3
      <3> QED
        BY <3>2
    <2>3. Len(updated[m]) - 1 \in 0..Len(updated[m])
      BY <1>1, <2>2
    <2>4. Known(m, stages) = SubSeq(updated[m], 1, Len(updated[m]) - 1)
      BY <1>3 DEF Known
    <2> QED
      BY <1>1, <2>3, <2>4, SubLines
  <1> QED
    BY <1>2, <1>3

\* A counter stays, with its function.
LEMMA FuncsStay ==
    ASSUME CountersRight, [Next]_vars, NEW m \in DOMAIN counter
    PROVE  m \in DOMAIN counter' /\ counter'[m].func = counter[m].func
  <1>1. CASE TakePoint
    BY <1>1 DEF TakePoint, With
  <1>2. counter[m] = [func |-> counter[m].func, count |-> counter[m].count, sum |-> counter[m].sum,
                      max |-> counter[m].max, min |-> counter[m].min]
    BY DEF CountersRight, IsRight
  <1>3. ASSUME NEW c, counter' = [counter EXCEPT ![updater.metric] = c], c.func = counter[updater.metric].func
        PROVE  m \in DOMAIN counter' /\ counter'[m].func = counter[m].func
    BY <1>3
  <1>4. CASE UpdateSum
    <2> DEFINE c == [counter[updater.metric] EXCEPT !.sum = @ + Value[updater.line]]
    <2>1. counter' = [counter EXCEPT ![updater.metric] = c]
      BY <1>4 DEF UpdateSum, UpdateField
    <2>2. m = updater.metric => c.func = counter[m].func
      BY <1>2
    <2> HIDE DEF c
    <2> QED
      BY <2>1, <2>2
  <1>5. CASE UpdateExtremes
    <2> DEFINE v == Value[updater.line]
               c == [counter[updater.metric] EXCEPT !.max = IF v > @ THEN v ELSE @, !.min = IF v < @ THEN v ELSE @]
    <2>1. counter' = [counter EXCEPT ![updater.metric] = c]
      BY <1>5 DEF UpdateExtremes, UpdateField
    <2>2. m = updater.metric => c.func = counter[m].func
      BY <1>2
    <2> HIDE DEF c
    <2> QED
      BY <2>1, <2>2
  <1>6. CASE UpdateCount
    <2> DEFINE c == [counter[updater.metric] EXCEPT !.count = @ + 1]
    <2>1. counter' = [counter EXCEPT ![updater.metric] = c]
      BY <1>6 DEF UpdateCount, UpdateField
    <2>2. m = updater.metric => c.func = counter[m].func
      BY <1>2
    <2> HIDE DEF c
    <2> QED
      BY <2>1, <2>2
  <1>7. CASE UpdaterEnds \/ UNCHANGED countVars
    BY <1>7 DEF UpdaterEnds, countVars
  <1> QED
    BY <1>1, <1>4, <1>5, <1>6, <1>7, CounterSteps DEF UpdaterStep

\* The lines counted for a metric are those before, or one more.
LEMMA LinesGrow ==
    ASSUME NumbersSent, NumbersSent', [Next]_vars, NEW m \in Metrics
    PROVE  /\ updated[m] \in Seq(Numbered) /\ updated'[m] \in Seq(Numbered)
           /\ \/ updated'[m] = updated[m]
              \/ setter.at # "set" /\ \E line \in Numbered : updated'[m] = Append(updated[m], line)
  <1>1. updated[m] \in Seq(Numbered) /\ updated'[m] \in Seq(Numbered)
    BY DEF NumbersSent
  <1>2. CASE TakePoint
    <2> DEFINE p == Head(counterQueue)
    <2>1. p \in [s : Listed, line : Numbered] /\ setter.at # "set"
      BY <1>2, TailFacts DEF TakePoint, NumbersSent
    <2>2. updated' = [updated EXCEPT ![p.s.metric] = Append(@, p.line)]
      BY <1>2 DEF TakePoint
    <2>3. p.line \in Numbered
      BY <2>1
    <2> HIDE DEF p
    <2>4. updated'[m] = updated[m] \/ updated'[m] = Append(updated[m], p.line)
      BY <2>2 DEF NumbersSent
    <2> QED
      BY <1>1, <2>1, <2>3, <2>4
  <1>3. CASE UNCHANGED updated
    BY <1>1, <1>3
  <1> QED
    BY <1>2, <1>3, CounterSteps
    DEF UpdaterStep, UpdateSum, UpdateExtremes, UpdateCount, UpdateField, UpdaterEnds, countVars

\* The steps of the setter.
LEMMA SetterSteps ==
    ASSUME [Next]_vars
    PROVE  \/ \E m \in Metrics : SetMetrics(m)
           \/ SetAverage \/ SetterEnds
           \/ UNCHANGED <<gauge, setter>>
  <1>1. ASSUME NEW j \in Jobs, JobStep(j) \/ StopJob(j) \/ \E s \in Listed : StartJob(s, j)
        PROVE  UNCHANGED <<gauge, setter>>
    BY <1>1 DEF JobStep, Read, Put, TakeLine, ConsumerEnds, Analyse, OnlyJob, StopJob, StartJob
  <1>2. ASSUME NEW l \in Loops, OtherCall(l) \/ ClientMoves(l) PROVE UNCHANGED <<gauge, setter>>
    BY <1>2 DEF OtherCall, ClientMoves
  <1>3. CASE DoSync \/ SyncReturns \/ SyncFails \/ SendList \/ LogTick \/ LogLoopEnds \/ Sync \/ SyncDone \/ SyncStop
    BY <1>3 DEF DoSync, SyncReturns, SyncFails, Synced, SendList, LogTick, LogLoopEnds, Sync, SyncDone, SyncStop
  <1>4. CASE UpdaterStep \/ UpdaterEnds
    BY <1>4 DEF UpdaterStep, UpdaterEnds, TakePoint, UpdateSum, UpdateExtremes, UpdateCount, UpdateField, OnlyCount
  <1>5. CASE WriteLine \/ ChangeStrategies \/ Cancel \/ UNCHANGED vars
    BY <1>5 DEF WriteLine, ChangeStrategies, Cancel, vars
  <1> QED
    BY LogLoop, <1>1, <1>2, <1>3, <1>4, <1>5 DEF Next, LogLoopStep, ManagerStep

LEMMA SumReadStep ==
    ASSUME NumbersSent, NumbersSent', CountersRight, SumRead, [Next]_vars
    PROVE  SumRead'
  <1>1. ASSUME NEW m \in Metrics, SetMetrics(m) PROVE SumRead'
    <2>1. CASE counter[m].func = "avg"
      <3>1. /\ setter' = [at |-> "set", metric |-> m, sum |-> counter[m].sum] /\ m \in DOMAIN counter
            /\ UNCHANGED <<updater, counter, updated>>
        BY <1>1, <2>1 DEF SetMetrics, countVars
      <3>2. counter[m].sum = Sum(Known(m, {"sum"}))
        BY <3>1 DEF CountersRight, IsRight
      <3>3. {"sum"} \in SUBSET Updating
        BY DEF Updating
      <3>4. PICK n \in 0..Len(updated[m]) : n >= Len(updated[m]) - 1 /\ Known(m, {"sum"}) = SubSeq(updated[m], 1, n)
        BY <3>1, <3>3, KnownAreFirst
      <3> QED
        BY <2>1, <3>1, <3>2, <3>4 DEF SumRead
    <2>2. CASE counter[m].func # "avg"
      BY <1>1, <2>2 DEF SetMetrics, SumRead
    <2> QED
      BY <2>1, <2>2
  <1>2. CASE SetAverage
    BY <1>2 DEF SetAverage, NotSetting, SumRead
  <1>3. CASE SetterEnds
    BY <1>3 DEF SetterEnds, SumRead
  <1>4. CASE UNCHANGED <<gauge, setter>>
    <2>1. setter' = setter
      BY <1>4
    <2>2. CASE setter.at = "set"
      <3>1. setter.metric \in DOMAIN counter /\ setter.metric \in Metrics
        BY <2>2 DEF SumRead, CountersRight
      <3>2. updated'[setter.metric] = updated[setter.metric]
        BY <2>2, <3>1, LinesGrow
      <3>3. setter.metric \in DOMAIN counter' /\ counter'[setter.metric].func = counter[setter.metric].func
        BY <3>1, FuncsStay
      <3> QED
        BY <2>1, <2>2, <3>2, <3>3 DEF SumRead
    <2>3. CASE setter.at # "set"
      BY <2>1, <2>3 DEF SumRead
    <2> QED
      BY <2>2, <2>3
  <1> QED
    BY <1>1, <1>2, <1>3, <1>4, SetterSteps

\* What one metric shows.
MetricRight(g, func, lines) == \E n \in 0..Len(lines) :
    IF func = "avg" THEN g[1] = Sum(SubSeq(lines, 1, n)) /\ g[2] \in (n - 1)..(n + 1)
    ELSE Gives(func, SubSeq(lines, 1, n), g[1]) /\ g[2] = 1

LEMMA ShownFromMetrics ==
    PublishedRight <=> \A m \in DOMAIN gauge : MetricRight(gauge[m], counter[m].func, updated[m])
  BY DEF PublishedRight, MetricRight

\* It stays right when one more line is counted.
LEMMA MetricStays ==
    ASSUME NEW g, NEW func, NEW lines \in Seq(Numbered), NEW line \in Numbered, MetricRight(g, func, lines)
    PROVE  MetricRight(g, func, Append(lines, line))
  <1>1. PICK n \in 0..Len(lines) :
            IF func = "avg" THEN g[1] = Sum(SubSeq(lines, 1, n)) /\ g[2] \in (n - 1)..(n + 1)
            ELSE Gives(func, SubSeq(lines, 1, n), g[1]) /\ g[2] = 1
    BY DEF MetricRight
  <1>2. n \in 0..Len(Append(lines, line)) /\ SubSeq(Append(lines, line), 1, n) = SubSeq(lines, 1, n)
    BY FirstsStay
  <1> QED
    BY <1>1, <1>2 DEF MetricRight

\* What is shown of a counter that is not an average.
LEMMA ShownGives ==
    ASSUME NumbersSent, CountersRight, NEW m \in DOMAIN counter, counter[m].func # "avg"
    PROVE  MetricRight(<<Shown(counter[m]), 1>>, counter[m].func, updated[m])
  <1> DEFINE c == counter[m]
             x == Shown(c)
  <1>1. IsRight(c, Known(m, Updating), Known(m, {"sum"}), Known(m, {"sum", "extremes"}))
    BY DEF CountersRight
  <1>2. Updating \in SUBSET Updating /\ {"sum"} \in SUBSET Updating /\ {"sum", "extremes"} \in SUBSET Updating
    BY DEF Updating
  <1>3. \E stages \in SUBSET Updating : Gives(c.func, Known(m, stages), x)
    <2>1. c.count = Len(Known(m, Updating)) /\ c.sum = Sum(Known(m, {"sum"}))
      BY <1>1 DEF IsRight
    <2>2. /\ Greatest(c.max, Values(Known(m, {"sum", "extremes"})))
          /\ Least(c.min, Values(Known(m, {"sum", "extremes"})))
      BY <1>1 DEF IsRight
    <2> HIDE DEF c
    <2>3. CASE c.func = "cnt"
      BY <1>2, <2>1, <2>3 DEF Gives, Shown
    <2>4. CASE c.func = "sum"
      BY <1>2, <2>1, <2>4 DEF Gives, Shown
    <2>5. CASE c.func = "max"
      BY <1>2, <2>2, <2>5 DEF Gives, Shown
    <2>6. CASE c.func = "min"
      BY <1>2, <2>2, <2>6 DEF Gives, Shown
    <2>7. CASE c.func \notin {"cnt", "sum", "max", "min"}
      BY <1>2, <2>7 DEF Gives, Shown
    <2> QED
      BY <2>3, <2>4, <2>5, <2>6, <2>7
  <1>4. PICK stages \in SUBSET Updating : Gives(c.func, Known(m, stages), x)
    BY <1>3
  <1>5. PICK n \in 0..Len(updated[m]) : Known(m, stages) = SubSeq(updated[m], 1, n)
    BY KnownAreFirst
  <1> HIDE DEF x
  <1>6. <<x, 1>>[1] = x /\ <<x, 1>>[2] = 1
    OBVIOUS
  <1>7. MetricRight(<<x, 1>>, c.func, updated[m])
    BY <1>4, <1>5, <1>6 DEF MetricRight
  <1> QED
    BY <1>7 DEF x

\* Of an average, whose sum was read before.
LEMMA AverageGives ==
    ASSUME NumbersSent, CountersRight, SumRead, setter.at = "set"
    PROVE  MetricRight(<<setter.sum, counter[setter.metric].count>>, "avg", updated[setter.metric])
  <1>1. PICK m : m = setter.metric
    OBVIOUS
  <1>2. m \in DOMAIN counter
    BY <1>1 DEF SumRead
  <1>3. PICK n \in 0..Len(updated[m]) : n >= Len(updated[m]) - 1 /\ setter.sum = Sum(SubSeq(updated[m], 1, n))
    BY <1>1 DEF SumRead
  <1>4. Updating \in SUBSET Updating
    OBVIOUS
  <1>5. PICK k \in 0..Len(updated[m]) : k >= Len(updated[m]) - 1 /\ Len(Known(m, Updating)) = k
    BY <1>2, <1>4, KnownAreFirst
  <1>6. counter[m].count = k
    BY <1>2, <1>5 DEF CountersRight, IsRight
  <1>7. Len(updated[m]) \in Nat
    BY <1>2 DEF CountersRight, NumbersSent
  <1>8. k \in (n - 1)..(n + 1)
    BY <1>3, <1>5, <1>7
  <1> QED
    BY <1>1, <1>3, <1>6, <1>8 DEF MetricRight

LEMMA ShownStep ==
    ASSUME NumbersSent, NumbersSent', CountersRight, SumRead, ShownRight, [Next]_vars
    PROVE  ShownRight'
  <1>0. /\ DOMAIN gauge \subseteq DOMAIN counter /\ DOMAIN counter \subseteq Metrics
        /\ \A m \in DOMAIN gauge : MetricRight(gauge[m], counter[m].func, updated[m])
    BY ShownFromMetrics DEF ShownRight, CountersRight
  <1> SUFFICES /\ DOMAIN gauge' \subseteq DOMAIN counter'
               /\ \A m \in DOMAIN gauge' : MetricRight(gauge'[m], counter'[m].func, updated'[m])
    BY DEF ShownRight, PublishedRight, MetricRight
  <1>1. ASSUME NEW m \in Metrics, SetMetrics(m), counter[m].func # "avg"
        PROVE  /\ DOMAIN gauge' \subseteq DOMAIN counter'
               /\ \A n \in DOMAIN gauge' : MetricRight(gauge'[n], counter'[n].func, updated'[n])
    <2>1. /\ gauge' = With(gauge, m, <<Shown(counter[m]), 1>>) /\ m \in DOMAIN counter
          /\ UNCHANGED <<counter, updated>>
      BY <1>1 DEF SetMetrics, countVars
    <2>2. MetricRight(<<Shown(counter[m]), 1>>, counter[m].func, updated[m])
      BY <1>1, <2>1, ShownGives
    <2> QED
      BY <1>0, <2>1, <2>2 DEF With
  <1>2. CASE SetAverage
    <2>1. PICK m : m = setter.metric
      OBVIOUS
    <2>2. /\ gauge' = With(gauge, m, <<setter.sum, counter[m].count>>) /\ setter.at = "set"
          /\ UNCHANGED <<counter, updated>>
      BY <1>2, <2>1 DEF SetAverage, countVars
    <2>3. MetricRight(<<setter.sum, counter[m].count>>, "avg", updated[m])
      BY <2>1, <2>2, AverageGives
    <2>4. m \in DOMAIN counter /\ counter[m].func = "avg"
      BY <2>1, <2>2 DEF SumRead
    <2> QED
      BY <1>0, <2>2, <2>3, <2>4 DEF With
  <1>3. CASE UNCHANGED gauge
    <2>1. ASSUME NEW m \in DOMAIN gauge PROVE m \in DOMAIN counter' /\ MetricRight(gauge[m], counter'[m].func, updated'[m])
      <3>1. m \in DOMAIN counter' /\ counter'[m].func = counter[m].func
        BY <1>0, FuncsStay
      <3>2. MetricRight(gauge[m], counter[m].func, updated'[m])
        BY <1>0, LinesGrow, MetricStays
      <3> QED
        BY <3>1, <3>2
    <2> QED
      BY <1>3, <2>1
  <1>4. ASSUME NEW m \in Metrics, SetMetrics(m), counter[m].func = "avg" PROVE UNCHANGED gauge
    BY <1>4 DEF SetMetrics
  <1>5. CASE SetterEnds
    BY <1>3, <1>5 DEF SetterEnds
  <1> QED
    BY <1>1, <1>2, <1>3, <1>4, <1>5, SetterSteps

-----------------------------------------------------------------------------
(* The theorems.                                                           *)

\* LogInv holds in every state of the log pipeline.
THEOREM LogInvariantHolds == Spec => []LogInv
  <1>1. Init => LogInv
    <2>1. ASSUME Init PROVE SumRead /\ ShownRight
      <3>1. gauge = <<>> /\ setter = [at |-> "select", metric |-> "", sum |-> 0]
        BY <2>1 DEF Init, NotSetting
      <3>2. DOMAIN <<>> = {}
        OBVIOUS
      <3> QED
        BY <3>1, <3>2 DEF SumRead, ShownRight, PublishedRight
    <2> QED
      BY <2>1, PipelineTypeInit, ListsKnownInit, JobsKnownInit, LinesAheadInit, OnePlaceInit, LinesKeptInit,
         NumbersInit, CountersInit DEF LogInv
  <1>2. LogInv /\ [Next]_vars => LogInv'
    <2>1. ASSUME LogInv, [Next]_vars
          PROVE  /\ PipelineTypeOK' /\ ListsKnown' /\ JobsKnown' /\ LinesAhead' /\ OnePlace' /\ LinesKept'
                 /\ NumbersSent' /\ CountersRight'
      BY <2>1, PipelineTypeStep, ListsKnownStep, JobsKnownStep, LinesAheadStep, OnePlaceStep, LinesKeptStep,
         NumbersStep, CountersStep DEF LogInv
    <2> QED
      BY <2>1, SumReadStep, ShownStep DEF LogInv
  <1> QED
    BY <1>1, <1>2, PTL DEF Spec

\* Whenever the manager is at rest, exactly one job runs for each metric in the last list
\* sent and none for any other (sync.go, Manager.Sync): for any lists the server may give,
\* through any number of failed calls, of jobs that still end while their metric comes
\* back, and of strategies that change.
THEOREM JobsListed == Spec => []JobsAsListed
  <1>1. LogInv => JobsAsListed
    <2> SUFFICES ASSUME LogInv, manager.at = "select", syncChan = <<>>, logLoop.at = "select"
                 PROVE  /\ DOMAIN activeTarget = {s.metric : s \in logLoop.list}
                        /\ {job[j].s.metric : j \in {j \in Jobs : job[j].at = "on"}} = DOMAIN activeTarget
                        /\ \A j, k \in Jobs : job[j].at = "on" /\ job[k].at = "on" /\ j # k
                              => job[j].s.metric # job[k].s.metric
      BY DEF JobsAsListed
    <2>1. JobsKnown /\ manager.start = {}
      BY DEF LogInv, JobsKnown
    <2>2. DOMAIN activeTarget = {s.metric : s \in logLoop.list}
      BY DEF LogInv, ListsKnown
    <2>3. \A j \in Jobs : job[j].at = "on" => job[j].s.metric \in DOMAIN activeTarget
      BY <2>1 DEF JobsKnown
    <2>4. \A m \in DOMAIN activeTarget : /\ activeTarget[m] \in Jobs
                                         /\ job[activeTarget[m]].at = "on" /\ job[activeTarget[m]].s.metric = m
      BY <2>1 DEF JobsKnown
    <2>5. {job[j].s.metric : j \in {j \in Jobs : job[j].at = "on"}} = DOMAIN activeTarget
      <3> DEFINE running == {job[j].s.metric : j \in {j \in Jobs : job[j].at = "on"}}
      <3>1. running \subseteq DOMAIN activeTarget
        BY <2>3
      <3>2. ASSUME NEW m \in DOMAIN activeTarget PROVE m \in running
        BY <2>4
      <3> HIDE DEF running
      <3>3. running = DOMAIN activeTarget
        BY <3>1, <3>2
      <3> QED
        BY <3>3 DEF running
    <2> QED
      BY <2>1, <2>2, <2>5, OneOn
  <1> QED
    BY <1>1, LogInvariantHolds, PTL

\* Every line a running job has read and that matches is on its way or counted, unless the
\* stream was full, and no line is counted twice for a metric (Reader.Start,
\* Consumer.worker and analysis, PointCounterManager.Update): for any number of jobs,
\* consumers and lines and any sizes of the queues, also while a stopped job's consumers
\* work beside those of the job started after it.
THEOREM LinesCountedOnce == Spec => []EachLineOnce
  <1>1. LogInv => EachLineOnce
    <2> SUFFICES ASSUME LogInv PROVE EachLineOnce
      OBVIOUS
    <2>1. ASSUME NEW j \in Jobs, job[j].at = "on", NEW line \in (job[j].first + 1)..job[j].next
          PROVE  \/ Value[line] = NoMatch
                 \/ line \in ToSet(job[j].stream) \cup job[j].busy \cup job[j].dropped \cup {job[j].held}
                 \/ \E k \in DOMAIN counterQueue : counterQueue[k] = [s |-> job[j].s, line |-> line]
                 \/ line \in ToSet(updated[job[j].s.metric])
      BY <2>1 DEF LogInv, LinesKept, Placed, ToSet
    <2>2. \A m \in Metrics : IsInjective(updated[m])
      BY DEF LogInv, OnePlace
    <2>3. \A m \in Metrics : \A i, k \in DOMAIN updated[m] : updated[m][i] = updated[m][k] => i = k
      BY <2>2 DEF IsInjective
    <2> QED
      BY <2>1, <2>3 DEF EachLineOnce
  <1> QED
    BY <1>1, LogInvariantHolds, PTL

\* A metric shows its function of the first values counted for it, for some number of them;
\* the count of an average may be off by one (PointCounter.Update, SetMetrics): for any
\* values, negative ones too, any functions and any interleaving of the two.
THEOREM MetricsRight == Spec => []PublishedRight
  <1>1. LogInv => PublishedRight
    BY DEF LogInv, ShownRight
  <1> QED
    BY <1>1, LogInvariantHolds, PTL
=============================================================================
