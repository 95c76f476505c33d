--------------------------- MODULE TargetProofs ---------------------------
(***************************************************************************)
(* Proofs about TargetSystem, for every set of agents, regions, files and  *)
(* protocols, every TTL and any number of faults: no agent pings at home,  *)
(* none pings an agent long gone, and what is configured is kept.          *)
(*                                                                         *)
(* First what the lists of groups contain, then the invariant, part by     *)
(* part.                                                                   *)
(***************************************************************************)
EXTENDS TargetInvariant, WellFoundedInduction, TLAPS

-----------------------------------------------------------------------------
(* Lists of groups.                                                        *)

LEMMA LeastOf ==
    ASSUME NEW S \in SUBSET Nat, S # {}
    PROVE  \E m \in S : \A x \in S : m <= x
  <1>1. PICK m \in S : \A y \in S : ~(<<y, m>> \in OpToRel(<, Nat))
    BY NatLessThanWellFounded, WFMin
  <1>2. \A x \in S : ~(x < m)
    BY <1>1 DEF OpToRel
  <1> QED
    BY <1>2

\* A bounded set of numbers has a greatest one.
LEMMA GreatestOf ==
    ASSUME NEW S \in SUBSET Nat, S # {}, NEW n \in Nat, \A x \in S : x <= n
    PROVE  \E m \in S : \A x \in S : m >= x
  <1> DEFINE T == {n - x : x \in S}
  <1>1. T \in SUBSET Nat /\ T # {}
    <2>1. \A x \in S : n - x \in Nat
      OBVIOUS
    <2>2. PICK x \in S : TRUE
      OBVIOUS
    <2> QED
      BY <2>1, <2>2
  <1>2. PICK t \in T : \A y \in T : t <= y
    BY <1>1, LeastOf
  <1>3. PICK m \in S : t = n - m
    OBVIOUS
  <1>4. ASSUME NEW x \in S PROVE m >= x
    BY <1>2, <1>3
  <1> QED
    BY <1>4

IsList(groups) == \A g \in groups :
    g = Group(g.at, g.type, g.region, g.target, g.every) /\ g.at \in Nat

\* The targets a list of groups gives.
LEMMA UidsDesired ==
    ASSUME NEW groups, NEW u
    PROVE  u \in DOMAIN Desired(groups) <=> \E g \in groups : g.type \in Supported /\ u \in UidsOf(g)
  BY DEF Desired, Targets

LEMMA GroupFields ==
    ASSUME NEW at, NEW type, NEW region, NEW target, NEW every
    PROVE  LET g == Group(at, type, region, target, every)
           IN  g.at = at /\ g.type = type /\ g.region = region /\ g.target = target /\ g.every = every
  BY DEF Group

\* Merging changes no target.
LEMMA MergedUids ==
    ASSUME NEW groups, IsList(groups), NEW u
    PROVE  u \in DOMAIN Desired(MergeEquivalent(groups)) <=> u \in DOMAIN Desired(groups)
  <1> DEFINE Same(g) == {o \in groups : Key(o) = Key(g)}
             Merged(g) == [g EXCEPT !.target = UNION {o.target : o \in Same(g)}]
  <1>1. MergeEquivalent(groups) = {Merged(g) : g \in {g \in groups : \A o \in Same(g) : g.at <= o.at}}
    BY DEF MergeEquivalent
  <1>2. ASSUME NEW g \in groups
        PROVE  /\ Merged(g).type = g.type /\ Merged(g).region = g.region
               /\ Merged(g).target = UNION {o.target : o \in Same(g)}
    <2>1. g = [at |-> g.at, type |-> g.type, region |-> g.region, target |-> g.target, every |-> g.every]
      BY DEF IsList, Group
    <2> QED
      BY <2>1
  <1>3. ASSUME NEW g \in groups, NEW o \in Same(g) PROVE o \in groups /\ o.type = g.type /\ o.region = g.region
    BY DEF Key
  <1>4. ASSUME NEW g \in groups
        PROVE  u \in UidsOf(Merged(g)) <=> \E o \in Same(g) : u \in UidsOf(o)
    <2> HIDE DEF Merged
    <2> QED
      BY <1>2, <1>3 DEF UidsOf, Uid
  <1>5. ASSUME NEW o \in groups
        PROVE  \E g \in groups : o \in Same(g) /\ \A p \in Same(g) : g.at <= p.at
    <2> DEFINE places == {p.at : p \in Same(o)}
    <2>1. places \in SUBSET Nat /\ places # {}
      BY DEF IsList
    <2>2. PICK m \in places : \A x \in places : m <= x
      BY <2>1, LeastOf
    <2>3. PICK g \in Same(o) : g.at = m
      OBVIOUS
    <2>4. Same(g) = Same(o)
      BY <2>3
    <2> QED
      BY <2>2, <2>3, <2>4
  <1> HIDE DEF Merged, Same
  <1>6. ASSUME NEW g \in groups, \A o \in Same(g) : g.at <= o.at,
               Merged(g).type \in Supported, u \in UidsOf(Merged(g))
        PROVE  \E o \in groups : o.type \in Supported /\ u \in UidsOf(o)
    BY <1>2, <1>3, <1>4, <1>6
  <1>7. ASSUME NEW o \in groups, o.type \in Supported, u \in UidsOf(o)
        PROVE  \E g \in MergeEquivalent(groups) : g.type \in Supported /\ u \in UidsOf(g)
    <2>1. PICK g \in groups : o \in Same(g) /\ \A p \in Same(g) : g.at <= p.at
      BY <1>5
    <2>2. Merged(g).type \in Supported /\ u \in UidsOf(Merged(g))
      BY <1>2, <1>3, <1>4, <1>7, <2>1
    <2> QED
      BY <1>1, <2>1, <2>2
  <1> QED
    BY <1>1, <1>6, <1>7, UidsDesired

IsBounded(groups) == \E n \in Nat : \A g \in groups : g.at <= n

\* What a file gives is a bounded list.
LEMMA ReadIsList ==
    ASSUME NEW f \in Files \ {Broken}
    PROVE  IsList(ReadGroups(f)) /\ IsBounded(ReadGroups(f))
  <1> DEFINE used == {k \in DOMAIN f : f[k].type # "" /\ f[k].target # {}}
             At(k) == Group(k, TypeName(f[k].type), f[k].region, f[k].target, f[k].every)
  <1>1. f \in Seq(ToSet(f))
    BY FilesAreLists
  <1>2. DOMAIN f = 1 .. Len(f) /\ Len(f) \in Nat
    BY <1>1
  <1>3. \A k \in used : k \in Nat /\ k <= Len(f)
    <2>1. used \subseteq DOMAIN f
      OBVIOUS
    <2> HIDE DEF used
    <2> QED
      BY <1>2, <2>1
  <1>4. ReadGroups(f) = {At(k) : k \in used}
    BY DEF ReadGroups
  <1>5. ASSUME NEW k \in used
        PROVE  At(k) = Group(At(k).at, At(k).type, At(k).region, At(k).target, At(k).every) /\ At(k).at = k
    BY DEF Group
  <1> HIDE DEF At, used
  <1> QED
    BY <1>2, <1>3, <1>4, <1>5 DEF IsList, IsBounded

LEMMA CatalogIsList ==
    ASSUME FromAFile
    PROVE  IsList(configured) /\ IsBounded(configured)
  <1>1. CASE configured = {}
    BY <1>1 DEF IsList, IsBounded
  <1>2. ASSUME NEW f \in Files \ {Broken}, configured = ReadGroups(f) PROVE IsList(configured) /\ IsBounded(configured)
    BY <1>2, ReadIsList
  <1> QED
    BY <1>1, <1>2 DEF FromAFile

\* The pings come after the configuration.
LEMMA LastPosition ==
    ASSUME FromAFile
    PROVE  Max({g.at : g \in configured} \cup {0}) \in Nat
  <1> DEFINE places == {g.at : g \in configured} \cup {0}
  <1>1. places \in SUBSET Nat /\ places # {}
    BY CatalogIsList DEF IsList
  <1>2. PICK n \in Nat : \A x \in places : x <= n
    BY CatalogIsList DEF IsBounded
  <1>3. PICK m \in places : \A x \in places : m >= x
    <2> HIDE DEF places
    <2> QED
      BY <1>1, <1>2, GreatestOf
  <1>4. Max(places) \in places
    BY <1>3 DEF Max
  <1> QED
    BY <1>1, <1>4

LEMMA AnswerIsList ==
    ASSUME FromAFile, NEW region
    PROVE  IsList(Foreign(region) \cup Mesh(region, Max({g.at : g \in configured} \cup {0})))
  <1> DEFINE last == Max({g.at : g \in configured} \cup {0})
  <1>1. last \in Nat
    BY LastPosition
  <1> HIDE DEF last
  <1>2. IsList(Foreign(region))
    BY CatalogIsList DEF Foreign, IsList
  <1>3. ASSUME NEW g \in Mesh(region, last)
        PROVE  g = Group(g.at, g.type, g.region, g.target, g.every) /\ g.at \in Nat
    <2> DEFINE Of(r) == {b \in DOMAIN RemoveExpired(agents) : Region[b] = r}
    <2>1. PICK i \in DOMAIN SortedRegions :
              g = Group(last + i, "icmp", SortedRegions[i], Of(SortedRegions[i]), "zero")
      BY DEF Mesh
    <2>2. i \in Nat
      BY RegionsListed
    <2> QED
      BY <1>1, <2>1, <2>2, GroupFields
  <1> QED
    BY <1>2, <1>3 DEF IsList, last

-----------------------------------------------------------------------------
(* What an answer contains.                                                *)

Answer(a) == DOMAIN Desired(GetTargetsByRegion(Region[a]))

\* A target of an answer is configured and not a ping at home, or pings agents of
\* another region that are known and have not expired.
LEMMA AnswerNames ==
    ASSUME FromAFile, NEW a \in Agents, NEW u
    PROVE  u \in Answer(a) =>
             \/ u \in DOMAIN Desired(configured) /\ ~HomePing(a, u)
             \/ /\ ~HomePing(a, u)
                /\ \E b \in DOMAIN agents : agents[b] <= TTL /\ u = Pinged(b)
  <1> SUFFICES ASSUME u \in Answer(a)
               PROVE  \/ u \in DOMAIN Desired(configured) /\ ~HomePing(a, u)
                      \/ /\ ~HomePing(a, u)
                         /\ \E b \in DOMAIN agents : agents[b] <= TTL /\ u = Pinged(b)
    OBVIOUS
  <1> DEFINE last == Max({g.at : g \in configured} \cup {0})
             region == Region[a]
  <1>1. PICK g \in Foreign(region) \cup Mesh(region, last) : g.type \in Supported /\ u \in UidsOf(g)
    BY MergedUids, AnswerIsList, UidsDesired DEF Answer, GetTargetsByRegion
  <1>2. PICK x \in g.target : u = <<g.type, g.region, x>>
    BY <1>1 DEF UidsOf, Uid
  <1> HIDE DEF last
  <1>3. CASE g \in Foreign(region)
    <2>1. g \in configured /\ ~(g.type = "icmp" /\ g.region = region)
      BY <1>3 DEF Foreign
    <2> QED
      BY <1>1, <1>2, <2>1, UidsDesired DEF HomePing
  <1>4. CASE g \in Mesh(region, last)
    <2> DEFINE Of(r) == {b \in DOMAIN RemoveExpired(agents) : Region[b] = r}
    <2>1. PICK i \in DOMAIN SortedRegions :
              SortedRegions[i] # region /\ g = Group(last + i, "icmp", SortedRegions[i], Of(SortedRegions[i]), "zero")
      BY <1>4 DEF Mesh
    <2>2. g.type = "icmp" /\ g.region = SortedRegions[i] /\ g.target = Of(SortedRegions[i])
      BY <2>1, GroupFields
    <2>3. x \in DOMAIN agents /\ agents[x] <= TTL /\ Region[x] = SortedRegions[i]
      BY <1>2, <2>2 DEF RemoveExpired
    <2> QED
      BY <1>2, <2>1, <2>2, <2>3 DEF HomePing, Pinged, Uid
  <1> QED
    BY <1>1, <1>3, <1>4

\* Every configured target is in the answer, but for pings at home.
LEMMA AnswerKeeps ==
    ASSUME FromAFile, NEW a \in Agents, NEW u \in DOMAIN Desired(configured), ~HomePing(a, u)
    PROVE  u \in Answer(a)
  <1>1. PICK g \in configured : g.type \in Supported /\ u \in UidsOf(g)
    BY UidsDesired
  <1>2. g \in Foreign(Region[a])
    BY <1>1 DEF Foreign, UidsOf, Uid, HomePing
  <1> QED
    BY <1>1, <1>2, MergedUids, AnswerIsList, UidsDesired DEF Answer, GetTargetsByRegion

-----------------------------------------------------------------------------
(* The invariant holds at first.                                           *)

LEMMA TargetInitInv ==
    ASSUME Init
    PROVE  TargetInv
  <1> USE DEF Init, CatalogInit
  <1>1. TargetTypeOK
    BY TTLPositive DEF TargetTypeOK, NoCall, Stages
  <1>2. FromAFile
    BY DEF FromAFile
  <1>3. SteadyConfigured
    BY DEF SteadyConfigured
  <1>4. AnswersRight
    BY DEF AnswersRight, NoCall
  <1>5. NoPingAtHome
    BY DEF NoPingAtHome
  <1>6. Fading
    BY DEF Fading
  <1>7. GoneUntold
    BY TTLPositive DEF GoneUntold, LongGone
  <1> QED
    BY <1>1, <1>2, <1>3, <1>4, <1>5, <1>6, <1>7 DEF TargetInv

-----------------------------------------------------------------------------
(* Every step keeps it.  First what the catalog knows of an agent.         *)

LEMMA StillKnown ==
    ASSUME NEW known
    PROVE  /\ DOMAIN RemoveExpired(known) = {b \in DOMAIN known : known[b] <= TTL}
           /\ \A b \in DOMAIN RemoveExpired(known) : RemoveExpired(known)[b] = known[b]
  BY DEF RemoveExpired

\* The types of the catalog.
LEMMA CatalogTypeStep ==
    ASSUME TargetInv, [Next]_vars
    PROVE  (DOMAIN agents \subseteq Agents /\ \A a \in DOMAIN agents : agents[a] \in Nat)'
  <1> USE DEF TargetInv, TargetTypeOK
  <1>1. ASSUME NEW a \in Agents, HandlerRecords(a)
        PROVE  DOMAIN agents' \subseteq Agents /\ \A b \in DOMAIN agents' : agents'[b] \in Nat
    <2> DEFINE known == [b \in DOMAIN agents \cup {a} |-> IF b = a THEN 0 ELSE agents[b]]
    <2>1. agents' = RemoveExpired(known)
      BY <1>1 DEF HandlerRecords, RecordAgent
    <2>2. DOMAIN known \subseteq Agents /\ \A b \in DOMAIN known : known[b] \in Nat
      OBVIOUS
    <2> HIDE DEF known
    <2> QED
      BY <2>1, <2>2, StillKnown
  <1>2. CASE agents' = RemoveExpired(agents)
    BY <1>2, StillKnown
  <1>3. CASE Tick
    BY <1>3, TTLPositive DEF Tick, Older
  <1>4. CASE ServerCrash
    BY <1>4 DEF ServerCrash, CatalogRestart
  <1>5. CASE UNCHANGED agents
    BY <1>5
  <1> QED
    BY <1>1, <1>2, <1>3, <1>4, <1>5
    DEF Next, CallStep, vars, catalogVars, Ask, HandlerAnswers, Forget, Answered, CallFails, AgentDies, AgentStarts,
        Edit, WriteFile, Refresh, RefreshCatalog

\* The types of the calls.
LEMMA CallTypeStep ==
    ASSUME TargetInv, [Next]_vars
    PROVE  (/\ call = [a \in Agents |-> [at |-> call[a].at, groups |-> call[a].groups]]
            /\ \A a \in Agents : call[a].at \in Stages)'
  <1> USE DEF TargetInv, TargetTypeOK, Stages, NoCall
  <1>1. ASSUME NEW a \in Agents, CallStep(a) \/ CallFails(a) \/ AgentDies(a) \/ AgentStarts(a)
        PROVE  \E c : /\ call' = [call EXCEPT ![a] = c]
                      /\ c = [at |-> c.at, groups |-> c.groups] /\ c.at \in Stages
    <2>1. CASE Ask(a)
      <3> DEFINE c == [at |-> "record", groups |-> call[a].groups]
      <3>1. call' = [call EXCEPT ![a].at = "record"]
        BY <2>1 DEF Ask
      <3>2. call[a] = [at |-> call[a].at, groups |-> call[a].groups]
        OBVIOUS
      <3>3. [call[a] EXCEPT !.at = "record"] = c
        BY <3>2
      <3>4. call' = [call EXCEPT ![a] = c]
        BY <3>1, <3>3
      <3>5. c = [at |-> c.at, groups |-> c.groups] /\ c.at \in Stages
        OBVIOUS
      <3> QED
        BY <3>4, <3>5
    <2>2. CASE HandlerRecords(a)
      <3> DEFINE c == [at |-> "answer", groups |-> call[a].groups]
      <3>1. call' = [call EXCEPT ![a].at = "answer"]
        BY <2>2 DEF HandlerRecords
      <3>2. call[a] = [at |-> call[a].at, groups |-> call[a].groups]
        OBVIOUS
      <3>3. [call[a] EXCEPT !.at = "answer"] = c
        BY <3>2
      <3>4. call' = [call EXCEPT ![a] = c]
        BY <3>1, <3>3
      <3>5. c = [at |-> c.at, groups |-> c.groups] /\ c.at \in Stages
        OBVIOUS
      <3> QED
        BY <3>4, <3>5
    <2>3. CASE HandlerAnswers(a)
      <3> DEFINE c == IF a \in up THEN [at |-> "done", groups |-> GetTargetsByRegion(Region[a])] ELSE NoCall
      <3> call' = [call EXCEPT ![a] = c] /\ c = [at |-> c.at, groups |-> c.groups] /\ c.at \in Stages
        BY <2>3 DEF HandlerAnswers
      <3> QED
        OBVIOUS
    <2>4. CASE Answered(a) \/ CallFails(a)
      BY <2>4 DEF Answered, CallFails
    <2>5. CASE AgentDies(a)
      <3> DEFINE c == IF call[a].at = "done" THEN NoCall ELSE call[a]
      <3> call' = [call EXCEPT ![a] = c] /\ c = [at |-> c.at, groups |-> c.groups] /\ c.at \in Stages
        BY <2>5 DEF AgentDies
      <3> QED
        OBVIOUS
    <2>6. CASE AgentStarts(a)
      BY <2>6 DEF AgentStarts
    <2> QED
      BY <1>1, <2>1, <2>2, <2>3, <2>4, <2>5, <2>6 DEF CallStep
  <1>2. CASE \E a \in Agents : CallStep(a) \/ CallFails(a) \/ AgentDies(a) \/ AgentStarts(a)
    BY <1>1, <1>2
  <1>3. CASE ServerCrash
    BY <1>3 DEF ServerCrash
  <1>4. CASE (\E f \in Files : Edit(f)) \/ Refresh \/ Tick \/ UNCHANGED vars
    BY <1>4 DEF Edit, Refresh, Tick, vars
  <1> QED
    BY <1>2, <1>3, <1>4 DEF Next

LEMMA TargetTypeStep ==
    ASSUME TargetInv, [Next]_vars
    PROVE  TargetTypeOK'
  <1> USE DEF TargetInv, TargetTypeOK
  <1>1. file' \in Files
    BY DEF Next, CallStep, vars, catalogVars, Ask, HandlerRecords, RecordAgent, HandlerAnswers, Forget, Answered, CallFails,
           AgentDies, AgentStarts, ServerCrash, CatalogRestart, Edit, WriteFile, Refresh, RefreshCatalog, Tick
  <1>2. up' \subseteq Agents
    BY DEF Next, CallStep, vars, Ask, HandlerRecords, HandlerAnswers, Answered, CallFails,
           AgentDies, AgentStarts, ServerCrash, Edit, Refresh, Tick
  <1>3. targets' = [a \in Agents |-> targets'[a]]
    BY DEF Next, CallStep, vars, Ask, HandlerRecords, HandlerAnswers, Answered, CallFails,
           AgentDies, AgentStarts, ServerCrash, Edit, Refresh, Tick
  <1>4. deadFor' \in [Agents -> 0 .. TTL + 1]
    <2>1. CASE Tick
      BY <2>1, TTLPositive DEF Tick
    <2>2. ASSUME NEW a \in Agents, AgentDies(a) PROVE deadFor' \in [Agents -> 0 .. TTL + 1]
      BY <2>2, TTLPositive DEF AgentDies
    <2>3. CASE UNCHANGED deadFor
      BY <2>3
    <2> QED
      BY <2>1, <2>2, <2>3
      DEF Next, CallStep, vars, historyVars, Ask, HandlerRecords, HandlerAnswers, Answered, CallFails,
          AgentStarts, ServerCrash, Edit, Refresh
  <1> QED
    BY <1>1, <1>2, <1>3, <1>4, CatalogTypeStep, CallTypeStep

-----------------------------------------------------------------------------
(* The file and the catalog.                                               *)

LEMMA FromAFileStep ==
    ASSUME TargetInv, [Next]_vars
    PROVE  FromAFile'
  <1> USE DEF TargetInv, FromAFile
  <1>1. CASE Refresh
    BY <1>1 DEF Refresh, RefreshCatalog, TargetTypeOK
  <1>2. CASE ServerCrash
    BY <1>2 DEF ServerCrash, CatalogRestart
  <1>3. CASE UNCHANGED configured
    BY <1>3
  <1> QED
    BY <1>1, <1>2, <1>3
    DEF Next, CallStep, vars, catalogVars, Ask, HandlerRecords, RecordAgent, HandlerAnswers, Forget, Answered, CallFails,
        AgentDies, AgentStarts, Edit, WriteFile, Tick

\* Only an edit changes steady, and takes targets from it.
LEMMA SteadyShrinks ==
    ASSUME [Next]_vars
    PROVE  steady' \subseteq steady /\ (hasty => hasty')
  <1>1. ASSUME NEW a \in Agents, HandlerAnswers(a) PROVE hasty => hasty'
    BY <1>1 DEF HandlerAnswers
  <1>2. (\A a \in Agents : ~HandlerAnswers(a)) => hasty' = hasty
    BY DEF Next, CallStep, vars, historyVars, Ask, HandlerRecords, Answered, CallFails,
           AgentDies, AgentStarts, ServerCrash, Edit, Refresh, Tick
  <1>3. hasty => hasty'
    BY <1>1, <1>2
  <1>4. steady' \subseteq steady
    BY DEF Next, CallStep, vars, historyVars, Ask, HandlerRecords, HandlerAnswers, Answered, CallFails,
           AgentDies, AgentStarts, ServerCrash, Edit, Refresh, Tick
  <1> QED
    BY <1>3, <1>4

LEMMA SteadyStep ==
    ASSUME TargetInv, [Next]_vars
    PROVE  SteadyConfigured'
  <1> USE DEF TargetInv, SteadyConfigured
  <1>1. ASSUME NEW f \in Files, Edit(f) PROVE SteadyConfigured'
    BY <1>1, SteadyShrinks DEF Edit, WriteFile
  <1>2. CASE Refresh
    BY <1>2 DEF Refresh, RefreshCatalog, historyVars, FileUids
  <1>3. CASE ServerCrash
    BY <1>3 DEF ServerCrash, CatalogRestart, historyVars
  <1>4. CASE UNCHANGED <<configured, file, ready>>
    BY <1>4, SteadyShrinks
  <1> QED
    BY <1>1, <1>2, <1>3, <1>4
    DEF Next, CallStep, vars, catalogVars, Ask, HandlerRecords, RecordAgent, HandlerAnswers, Forget, Answered, CallFails,
        AgentDies, AgentStarts, Tick

-----------------------------------------------------------------------------
(* Answers.                                                                *)

\* Only the handler gives an answer.
LEMMA OnlyAnswered ==
    ASSUME TargetInv, [Next]_vars, NEW b \in Agents, call'[b].at = "done"
    PROVE  call'[b] = call[b] \/ (HandlerAnswers(b) /\ b \in up)
  <1> USE DEF TargetInv, TargetTypeOK, NoCall
  <1>1. ASSUME NEW a \in Agents, Ask(a) PROVE call'[b] = call[b]
    BY <1>1 DEF Ask
  <1>2. ASSUME NEW a \in Agents, HandlerRecords(a) PROVE call'[b] = call[b]
    BY <1>2 DEF HandlerRecords
  <1>3. ASSUME NEW a \in Agents, HandlerAnswers(a) PROVE call'[b] = call[b] \/ (HandlerAnswers(b) /\ b \in up)
    BY <1>3 DEF HandlerAnswers
  <1>4. ASSUME NEW a \in Agents, Answered(a) \/ CallFails(a) PROVE call'[b] = call[b]
    BY <1>4 DEF Answered, CallFails
  <1>5. ASSUME NEW a \in Agents, AgentDies(a) \/ AgentStarts(a) PROVE call'[b] = call[b]
    <2>1. CASE AgentDies(a)
      <3>1. call' = [call EXCEPT ![a] = IF call[a].at = "done" THEN NoCall ELSE call[a]]
        BY <2>1 DEF AgentDies
      <3>2. b = a => call'[b] = IF call[b].at = "done" THEN NoCall ELSE call[b]
        BY <3>1
      <3>3. b # a => call'[b] = call[b]
        BY <3>1
      <3> QED
        BY <3>2, <3>3
    <2>2. CASE AgentStarts(a)
      BY <2>2 DEF AgentStarts
    <2> QED
      BY <1>5, <2>1, <2>2
  <1>6. ~ServerCrash
    BY DEF ServerCrash
  <1>7. CASE (\E f \in Files : Edit(f)) \/ Refresh \/ Tick \/ UNCHANGED vars
    BY <1>7 DEF Edit, Refresh, Tick, vars
  <1> QED
    BY <1>1, <1>2, <1>3, <1>4, <1>5, <1>6, <1>7 DEF Next, CallStep

\* What the handler tells an agent that runs.
LEMMA ToldAnswer ==
    ASSUME TargetInv, NEW a \in up, HandlerAnswers(a)
    PROVE  DOMAIN Desired(call'[a].groups) = Answer(a)
  <1>1. call'[a] = [at |-> "done", groups |-> GetTargetsByRegion(Region[a])]
    BY DEF HandlerAnswers, TargetInv, TargetTypeOK
  <1> QED
    BY <1>1 DEF Answer

LEMMA AnswersStep ==
    ASSUME TargetInv, [Next]_vars
    PROVE  AnswersRight'
  <1> SUFFICES ASSUME NEW a \in Agents, call'[a].at = "done"
               PROVE  /\ \A u \in DOMAIN Desired(call'[a].groups) : ~HomePing(a, u)
                      /\ ~hasty' => \A u \in steady' : HomePing(a, u) \/ u \in DOMAIN Desired(call'[a].groups)
    BY DEF AnswersRight, Told, HomePing
  <1> USE DEF TargetInv
  <1>1. CASE call'[a] = call[a]
    BY <1>1, SteadyShrinks DEF AnswersRight, Told
  <1>2. CASE HandlerAnswers(a) /\ a \in up
    <2>1. DOMAIN Desired(call'[a].groups) = Answer(a)
      BY <1>2, ToldAnswer
    <2>2. \A u \in Answer(a) : ~HomePing(a, u)
      BY AnswerNames
    <2>3. ~hasty' => ready /\ steady' = steady
      BY <1>2 DEF HandlerAnswers
    <2>4. ~hasty' => \A u \in steady' : HomePing(a, u) \/ u \in Answer(a)
      BY <2>3, AnswerKeeps DEF SteadyConfigured
    <2> QED
      BY <2>1, <2>2, <2>4
  <1> QED
    BY <1>1, <1>2, OnlyAnswered

\* The targets of an agent change when it takes over its answer or ends.
LEMMA TargetsChange ==
    ASSUME TargetInv, [Next]_vars, NEW a \in Agents
    PROVE  \/ targets'[a] = targets[a]
           \/ Answered(a) /\ targets'[a] = Desired(call[a].groups)
           \/ AgentDies(a) /\ targets'[a] = << >>
  <1> USE DEF TargetInv, TargetTypeOK
  <1>1. ASSUME NEW b \in Agents, Answered(b)
        PROVE  targets'[a] = targets[a] \/ (Answered(a) /\ targets'[a] = Desired(call[a].groups))
    BY <1>1 DEF Answered
  <1>2. ASSUME NEW b \in Agents, AgentDies(b)
        PROVE  targets'[a] = targets[a] \/ (AgentDies(a) /\ targets'[a] = << >>)
    BY <1>2 DEF AgentDies
  <1>3. CASE UNCHANGED targets
    BY <1>3
  <1> QED
    BY <1>1, <1>2, <1>3
    DEF Next, CallStep, vars, Ask, HandlerRecords, HandlerAnswers, CallFails, AgentStarts, ServerCrash, Edit, Refresh, Tick

LEMMA NoPingStep ==
    ASSUME TargetInv, [Next]_vars
    PROVE  NoPingAtHome'
  <1> SUFFICES ASSUME NEW a \in Agents, NEW u \in DOMAIN targets'[a], u[1] = "icmp"
               PROVE  u[2] # Region[a]
    BY DEF NoPingAtHome
  <1> USE DEF TargetInv
  <1>1. CASE targets'[a] = targets[a]
    BY <1>1 DEF NoPingAtHome
  <1>2. CASE Answered(a) /\ targets'[a] = Desired(call[a].groups)
    BY <1>2 DEF Answered, AnswersRight, Told, HomePing
  <1>3. CASE targets'[a] = << >>
    BY <1>3
  <1> QED
    BY <1>1, <1>2, <1>3, TargetsChange

-----------------------------------------------------------------------------
(* Agents that are gone.                                                   *)

LEMMA FadingStep ==
    ASSUME TargetInv, [Next]_vars
    PROVE  Fading'
  <1> SUFFICES ASSUME NEW b \in Agents, b \notin up'
               PROVE  /\ DOMAIN targets'[b] = {}
                      /\ call'[b].at # "done"
                      /\ deadFor'[b] > 0 => call'[b].at = "idle"
                      /\ b \in DOMAIN agents' => agents'[b] >= deadFor'[b]
    BY DEF Fading
  <1> USE DEF TargetInv, TargetTypeOK, NoCall
  <1>0. b \notin up => /\ DOMAIN targets[b] = {} /\ call[b].at # "done"
                       /\ deadFor[b] > 0 => call[b].at = "idle"
                       /\ b \in DOMAIN agents => agents[b] >= deadFor[b]
    BY DEF Fading
  <1>1. ASSUME NEW a \in Agents, Ask(a)
        PROVE  b \notin up /\ UNCHANGED <<agents, targets, deadFor, call[b]>>
    BY <1>1 DEF Ask, catalogVars, historyVars
  <1>2. ASSUME NEW a \in Agents, HandlerRecords(a)
        PROVE  /\ b \notin up /\ UNCHANGED <<targets, deadFor>>
               /\ call'[b].at # "done" /\ (deadFor[b] > 0 => call'[b].at = "idle")
               /\ b \in DOMAIN agents' => agents'[b] >= deadFor[b]
    <2>1. b \notin up /\ UNCHANGED <<targets, deadFor>>
      BY <1>2 DEF HandlerRecords, historyVars
    <2>2. call[a].at = "record" /\ call'[a].at = "answer" /\ (b # a => call'[b] = call[b])
      BY <1>2 DEF HandlerRecords
    <2>3. b \in DOMAIN agents' => agents'[b] = (IF b = a THEN 0 ELSE agents[b]) /\ (b # a => b \in DOMAIN agents)
      <3> DEFINE known == [c \in DOMAIN agents \cup {a} |-> IF c = a THEN 0 ELSE agents[c]]
      <3>1. agents' = RemoveExpired(known)
        BY <1>2 DEF HandlerRecords, RecordAgent
      <3>2. DOMAIN known = DOMAIN agents \cup {a}
        OBVIOUS
      <3>3. b \in DOMAIN known => known[b] = IF b = a THEN 0 ELSE agents[b]
        OBVIOUS
      <3> HIDE DEF known
      <3> QED
        BY <3>1, <3>2, <3>3, StillKnown
    <2>4. deadFor[b] \in Nat
      BY TTLPositive
    <2> QED
      BY <1>0, <2>1, <2>2, <2>3, <2>4
  <1>3. ASSUME NEW a \in Agents, HandlerAnswers(a)
        PROVE  /\ b \notin up /\ UNCHANGED <<targets, deadFor>>
               /\ call'[b] = NoCall \/ call'[b] = call[b]
               /\ b \in DOMAIN agents' => b \in DOMAIN agents /\ agents'[b] = agents[b]
    BY <1>3, StillKnown DEF HandlerAnswers, Forget
  <1>4. ASSUME NEW a \in Agents, Answered(a)
        PROVE  /\ b \notin up /\ UNCHANGED <<agents, deadFor>>
               /\ call'[b] = call[b] /\ targets'[b] = targets[b]
    BY <1>0, <1>4 DEF Answered, catalogVars
  <1>5. ASSUME NEW a \in Agents, CallFails(a)
        PROVE  /\ b \notin up /\ UNCHANGED <<agents, deadFor, targets>>
               /\ call'[b] = NoCall \/ call'[b] = call[b]
    BY <1>5 DEF CallFails, catalogVars, historyVars
  <1>6. ASSUME NEW a \in Agents, AgentDies(a), b # a
        PROVE  b \notin up /\ UNCHANGED <<agents, deadFor[b], targets[b], call[b]>>
    BY <1>6 DEF AgentDies, catalogVars
  <1>7. ASSUME AgentDies(b)
        PROVE  /\ UNCHANGED agents /\ deadFor'[b] = 0 /\ targets'[b] = << >>
               /\ call'[b].at # "done"
    BY <1>7 DEF AgentDies, catalogVars
  <1>8. ASSUME NEW a \in Agents, AgentStarts(a)
        PROVE  b \notin up /\ UNCHANGED <<agents, deadFor, targets, call>>
    BY <1>8 DEF AgentStarts, catalogVars
  <1>9. CASE ServerCrash
    <2>1. b \notin up /\ UNCHANGED <<deadFor, targets>> /\ call'[b] = NoCall /\ DOMAIN agents' = {}
      BY <1>9 DEF ServerCrash, CatalogRestart, historyVars
    <2> QED
      BY <1>0, <2>1
  <1>10. CASE Tick
    <2>1. b \notin up /\ UNCHANGED targets /\ call'[b] = NoCall /\ agents' = Older(agents)
      BY <1>10 DEF Tick
    <2>2. deadFor'[b] = IF deadFor[b] < TTL + 1 THEN deadFor[b] + 1 ELSE deadFor[b]
      BY <1>10, <2>1 DEF Tick
    <2>3. b \in DOMAIN agents' => agents'[b] >= deadFor'[b]
      BY <1>0, <2>1, <2>2, TTLPositive DEF Older
    <2> QED
      BY <1>0, <2>1, <2>3
  <1>11. CASE (\E f \in Files : Edit(f)) \/ UNCHANGED vars
    BY <1>0, <1>11 DEF Edit, WriteFile, vars, catalogVars, historyVars
  <1>12. CASE Refresh
    BY <1>0, <1>12, StillKnown DEF Refresh, RefreshCatalog, historyVars
  <1>13. ASSUME NEW a \in Agents, CallStep(a) \/ CallFails(a) \/ AgentDies(a) \/ AgentStarts(a)
         PROVE  /\ DOMAIN targets'[b] = {}
                /\ call'[b].at # "done"
                /\ deadFor'[b] > 0 => call'[b].at = "idle"
                /\ b \in DOMAIN agents' => agents'[b] >= deadFor'[b]
    <2>1. CASE Ask(a)
      BY <1>0, <1>1, <2>1
    <2>2. CASE HandlerRecords(a)
      BY <1>0, <1>2, <2>2
    <2>3. CASE HandlerAnswers(a)
      BY <1>0, <1>3, <2>3
    <2>4. CASE Answered(a)
      BY <1>0, <1>4, <2>4
    <2>5. CASE CallFails(a)
      BY <1>0, <1>5, <2>5
    <2>6. CASE AgentDies(a) /\ b # a
      BY <1>0, <1>6, <2>6
    <2>7. CASE AgentDies(a) /\ b = a
      <3>1. \A c \in DOMAIN agents : agents[c] >= 0
        OBVIOUS
      <3> QED
        BY <1>7, <2>7, <3>1
    <2>8. CASE AgentStarts(a)
      BY <1>0, <1>8, <2>8
    <2> QED
      BY <1>13, <2>1, <2>2, <2>3, <2>4, <2>5, <2>6, <2>7, <2>8 DEF CallStep
  <1> QED
    BY <1>9, <1>10, <1>11, <1>12, <1>13 DEF Next

\* No file names the address of an agent long gone, so the catalog does not.
LEMMA GoneNotConfigured ==
    ASSUME TargetInv, NEW b \in Agents, LongGone(b)
    PROVE  Pinged(b) \notin DOMAIN Desired(configured)
  <1>1. CASE configured = {}
    BY <1>1, UidsDesired
  <1>2. ASSUME NEW f \in Files \ {Broken}, configured = ReadGroups(f)
        PROVE  Pinged(b) \notin DOMAIN Desired(configured)
    BY <1>2 DEF LongGone, FileUids
  <1> QED
    BY <1>1, <1>2 DEF TargetInv, FromAFile

\* Nor does the handler, which forgets the agent.
LEMMA GoneNotAnswered ==
    ASSUME TargetInv, NEW a \in Agents, NEW b \in Agents, LongGone(b)
    PROVE  Pinged(b) \notin Answer(a)
  <1> USE DEF TargetInv, TargetTypeOK
  <1> SUFFICES ASSUME Pinged(b) \in Answer(a) PROVE FALSE
    OBVIOUS
  <1>1. PICK c \in DOMAIN agents : agents[c] <= TTL /\ Pinged(b) = Pinged(c)
    BY AnswerNames, GoneNotConfigured
  <1>2. c = b
    BY <1>1 DEF Pinged, Uid
  <1>3. deadFor[b] > TTL /\ agents[b] >= deadFor[b]
    BY <1>1, <1>2 DEF LongGone, Fading
  <1> QED
    BY <1>1, <1>2, <1>3, TTLPositive

\* Only a tick makes an agent long gone.
LEMMA GoneBefore ==
    ASSUME TargetInv, [Next]_vars, ~Tick, NEW b \in Agents, b \notin up', deadFor'[b] > TTL
    PROVE  b \notin up /\ deadFor[b] > TTL
  <1> USE DEF TargetInv, TargetTypeOK
  <1>1. ASSUME NEW a \in Agents, AgentDies(a) PROVE b \notin up /\ deadFor[b] > TTL
    BY <1>1, TTLPositive DEF AgentDies
  <1>2. ASSUME NEW a \in Agents, AgentStarts(a) PROVE b \notin up /\ deadFor[b] > TTL
    BY <1>2 DEF AgentStarts
  <1>3. CASE UNCHANGED <<up, deadFor>>
    BY <1>3
  <1> QED
    BY <1>1, <1>2, <1>3
    DEF Next, CallStep, vars, historyVars, Ask, HandlerRecords, HandlerAnswers, Answered, CallFails,
        ServerCrash, Edit, Refresh

\* An agent is no longer late because it took over an answer or started.
LEMMA LessLate ==
    ASSUME TargetInv, [Next]_vars, NEW a \in up', a \notin late'
    PROVE  (a \in up /\ a \notin late) \/ Answered(a) \/ AgentStarts(a)
  <1>1. ASSUME NEW b \in Agents, Answered(b) PROVE (a \in up /\ a \notin late) \/ Answered(a)
    BY <1>1 DEF Answered
  <1>2. ASSUME NEW b \in Agents, AgentStarts(b) PROVE (a \in up /\ a \notin late) \/ AgentStarts(a)
    BY <1>2 DEF AgentStarts
  <1>3. CASE up' \subseteq up /\ late' = late
    BY <1>3
  <1>4. CASE Tick
    BY <1>4 DEF Tick, TargetInv, TargetTypeOK
  <1> QED
    BY <1>1, <1>2, <1>3, <1>4
    DEF Next, CallStep, vars, historyVars, Ask, HandlerRecords, HandlerAnswers, CallFails, AgentDies,
        ServerCrash, Edit, Refresh

LEMMA GoneStep ==
    ASSUME TargetInv, [Next]_vars
    PROVE  GoneUntold'
  <1> SUFFICES ASSUME NEW a \in Agents, NEW b \in Agents, b \notin up', deadFor'[b] > TTL,
                      \A f \in Files : Pinged(b) \notin FileUids(f)
               PROVE  /\ call'[a].at = "done" => Pinged(b) \notin DOMAIN Desired(call'[a].groups)
                      /\ a \in up' /\ a \notin late' => Pinged(b) \notin DOMAIN targets'[a]
    BY DEF GoneUntold, LongGone, Told, Pinged, Uid
  <1> USE DEF TargetInv
  <1>1. CASE Tick
    BY <1>1 DEF Tick, NoCall, TargetTypeOK
  <1>2. CASE ~Tick
    <2>1. LongGone(b)
      BY <1>2, GoneBefore DEF LongGone
    <2>2. ASSUME call'[a].at = "done" PROVE Pinged(b) \notin DOMAIN Desired(call'[a].groups)
      <3>1. CASE call'[a] = call[a]
        BY <2>1, <2>2, <3>1 DEF GoneUntold, Told
      <3>2. CASE HandlerAnswers(a) /\ a \in up
        BY <2>1, <3>2, ToldAnswer, GoneNotAnswered
      <3> QED
        BY <2>2, <3>1, <3>2, OnlyAnswered
    <2>3. ASSUME a \in up', a \notin late' PROVE Pinged(b) \notin DOMAIN targets'[a]
      <3>1. CASE Answered(a)
        <4>1. targets'[a] = Desired(call[a].groups) /\ call[a].at = "done"
          BY <3>1 DEF Answered, TargetTypeOK
        <4> QED
          BY <2>1, <4>1 DEF GoneUntold, Told
      <3>2. CASE AgentStarts(a)
        BY <3>2 DEF AgentStarts, Fading
      <3>3. CASE a \in up /\ a \notin late /\ ~Answered(a)
        <4>1. Pinged(b) \notin DOMAIN targets[a]
          BY <2>1, <3>3 DEF GoneUntold
        <4>2. targets'[a] = targets[a] \/ targets'[a] = << >>
          BY <3>3, TargetsChange
        <4> QED
          BY <4>1, <4>2
      <3> QED
        BY <2>3, <3>1, <3>2, <3>3, LessLate
    <2> QED
      BY <2>2, <2>3
  <1> QED
    BY <1>1, <1>2

-----------------------------------------------------------------------------
(* The theorems.                                                           *)

\* The inductive invariant holds in every state, whatever fails and whenever.
THEOREM TargetInvariantHolds == Spec => []TargetInv
  <1>1. Init => TargetInv
    BY TargetInitInv
  <1>2. TargetInv /\ [Next]_vars => TargetInv'
    <2> SUFFICES ASSUME TargetInv, [Next]_vars PROVE TargetInv'
      OBVIOUS
    <2> QED
      BY TargetTypeStep, FromAFileStep, SteadyStep, AnswersStep, NoPingStep, FadingStep, GoneStep DEF TargetInv
  <1> QED
    BY <1>1, <1>2, PTL DEF Spec

\* However the file spells the type and whichever agents are registered, no agent ever
\* pings an address of its own region.
THEOREM NoPingsAtHome == Spec => []NoPingAtHome
  <1>1. TargetInv => NoPingAtHome
    BY DEF TargetInv
  <1> QED
    BY <1>1, TargetInvariantHolds, PTL

\* An agent gone for longer than agentRegistrationTTL is pinged by none whose last poll
\* was answered, unless the file names its address.
THEOREM GoneAreForgotten == Spec => []StaleIsBounded
  <1>1. TargetInv => StaleIsBounded
    BY DEF TargetInv, GoneUntold, LongGone, StaleIsBounded
  <1> QED
    BY <1>1, TargetInvariantHolds, PTL

\* A target in every version of the file is never taken from an agent that has it,
\* unless the server answers before it has read the file.
THEOREM ConfiguredKept == Spec => KeptWhileConfigured
  <1>1. TargetInv /\ [Next]_vars =>
            [~hasty' => \A a \in up \cap up' : \A u \in DOMAIN targets[a] : u \in steady' => u \in DOMAIN targets'[a]]_vars
    <2> SUFFICES ASSUME TargetInv, [Next]_vars, ~hasty', NEW a \in up \cap up', NEW u \in DOMAIN targets[a], u \in steady'
                 PROVE  u \in DOMAIN targets'[a]
      OBVIOUS
    <2>1. a \in Agents /\ u \in steady /\ ~hasty
      BY SteadyShrinks DEF TargetInv, TargetTypeOK
    <2>2. ~HomePing(a, u)
      BY <2>1 DEF TargetInv, NoPingAtHome, HomePing
    <2>3. CASE Answered(a) /\ targets'[a] = Desired(call[a].groups)
      BY <2>1, <2>2, <2>3 DEF Answered, TargetInv, AnswersRight, Told
    <2>4. ~AgentDies(a)
      BY DEF AgentDies
    <2> QED
      BY <2>1, <2>3, <2>4, TargetsChange
  <1> QED
    BY <1>1, TargetInvariantHolds, PTL DEF Spec, KeptWhileConfigured
=============================================================================
