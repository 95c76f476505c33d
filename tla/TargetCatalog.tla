--------------------------- MODULE TargetCatalog ---------------------------
(***************************************************************************)
(* What agents are told to probe (cmd/server/xprober/pool.go): the groups  *)
(* of the configuration file, read again every minute, and the addresses   *)
(* of the agents of other regions, which ping one another.  An agent is    *)
(* known by its last request and forgotten when that is older than TTL.    *)
(*                                                                         *)
(* The list of a group is a set, in which blank addresses and duplicates   *)
(* are gone: what deduplicateStrings does.  `every` stands for interval,   *)
(* timeout and options.  A list of groups is the set of its groups, each    *)
(* with its position.                                                      *)
(***************************************************************************)
EXTENDS Naturals, FiniteSets, Sequences, SequencesExt

CONSTANTS
    Agents,        \* the agents, which are also their addresses
    Region,        \* the region of each agent
    SortedRegions, \* the regions, as sort.Strings orders them
    Files,         \* what the configuration file may hold: sequences of groups, or Broken
    Broken,        \* a file that does not load
    TTL            \* agentRegistrationTTL, in polling intervals

ASSUME RegionsListed == /\ SortedRegions \in Seq(ToSet(SortedRegions))
                        /\ Region \in [Agents -> ToSet(SortedRegions)]
ASSUME FilesAreLists == \A f \in Files \ {Broken} : f \in Seq(ToSet(f))
ASSUME TTLPositive == TTL \in Nat \ {0}

VARIABLES
    configured, \* targetCatalog.configured
    agents,     \* targetCatalog.agents: how long ago each agent in it was seen
    file,       \* what the configuration file holds
    ready       \* history: the server has read a file since it started

catalogVars == <<configured, agents, file, ready>>

Group(at, type, region, target, every) ==
    [at |-> at, type |-> type, region |-> region, target |-> target, every |-> every]

\* Lower case, no blanks.
TypeName(raw) == IF raw = " ICMP" THEN "icmp" ELSE raw

CatalogInit ==
    /\ configured = {} /\ agents = << >> /\ ready = FALSE
    /\ file \in Files

\* A mistake a run must notice: an agent is forgotten as soon as time passes.
RemoveAll(known) == [a \in {b \in DOMAIN known : known[b] = 0} |-> known[a]]

\* removeExpiredAgentsLocked
RemoveExpired(known) == [a \in {b \in DOMAIN known : known[b] <= TTL} |-> known[a]]

\* Probes without a type or without targets are skipped.
ReadGroups(probes) ==
    {Group(k, TypeName(probes[k].type), probes[k].region, probes[k].target, probes[k].every) :
        k \in {k \in DOMAIN probes : probes[k].type # "" /\ probes[k].target # {}}}

\* A mistake a run must notice: a file that does not load empties the catalog.
RefreshAnyway ==
    /\ configured' = IF file = Broken THEN {} ELSE ReadGroups(file)
    /\ agents' = RemoveExpired(agents)
    /\ ready' = TRUE
    /\ UNCHANGED file

\* TargetFlushManager.refresh: a file that does not load changes nothing.
RefreshCatalog ==
    /\ file # Broken
    /\ configured' = ReadGroups(file)
    /\ agents' = RemoveExpired(agents)
    /\ ready' = TRUE
    /\ UNCHANGED file

RecordAgent(a) ==
    /\ agents' = RemoveExpired([b \in DOMAIN agents \cup {a} |-> IF b = a THEN 0 ELSE agents[b]])
    /\ UNCHANGED <<configured, file, ready>>

\* mergeEquivalentTargetGroups: one group for each key, where the key first appears.
Key(g) == <<g.type, g.region, g.every>>
MergeEquivalent(groups) ==
    LET Same(g) == {o \in groups : Key(o) = Key(g)}
    IN {[g EXCEPT !.target = UNION {o.target : o \in Same(g)}] :
           g \in {g \in groups : \A o \in Same(g) : g.at <= o.at}}

(* The answer to an agent of a region: the groups of the configuration but *)
(* for pings within the region, then a group of pings for each other       *)
(* region with agents.                                                     *)
Foreign(region) == {g \in configured : ~(g.type = "icmp" /\ g.region = region)}

\* A mistake a run must notice: the agent's own region is pinged too.
MeshWithOwn(region, last) ==
    LET known == DOMAIN RemoveExpired(agents)
        Of(r) == {b \in known : Region[b] = r}
    IN {Group(last + i, "icmp", SortedRegions[i], Of(SortedRegions[i]), "zero") :
           i \in {i \in DOMAIN SortedRegions : Of(SortedRegions[i]) # {}}}

\* The pings, at the positions after `last`.
Mesh(region, last) ==
    LET known == DOMAIN RemoveExpired(agents)
        Of(r) == {b \in known : Region[b] = r}
    IN {Group(last + i, "icmp", SortedRegions[i], Of(SortedRegions[i]), "zero") :
           i \in {i \in DOMAIN SortedRegions : SortedRegions[i] # region /\ Of(SortedRegions[i]) # {}}}

GetTargetsByRegion(region) ==
    MergeEquivalent(Foreign(region) \cup Mesh(region, Max({g.at : g \in configured} \cup {0})))

\* It forgets expired agents, too.
Forget == agents' = RemoveExpired(agents) /\ UNCHANGED <<configured, file, ready>>

\* The process starts anew: its memory is empty until the first refresh.
CatalogRestart ==
    /\ configured' = {} /\ agents' = << >> /\ ready' = FALSE
    /\ UNCHANGED file

\* An operator changes the file.
WriteFile(f) == file' = f /\ UNCHANGED <<configured, agents, ready>>

\* A mistake a run must notice: time does not count for agents that are known.
SeenForever(known) == known

\* Time passes; what has expired need not be told apart by how long.
Older(known) == [a \in DOMAIN known |-> IF known[a] > TTL THEN known[a] ELSE known[a] + 1]
=============================================================================
