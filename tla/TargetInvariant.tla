-------------------------- MODULE TargetInvariant --------------------------
(***************************************************************************)
(* What TargetProofs shows to hold in every state of TargetSystem, and     *)
(* NoPingAtHome, StaleIsBounded and KeptWhileConfigured rest on.           *)
(***************************************************************************)
EXTENDS TargetSystem

Stages == {"idle", "record", "answer", "done"}

TargetTypeOK ==
    /\ DOMAIN agents \subseteq Agents /\ \A a \in DOMAIN agents : agents[a] \in Nat
    /\ file \in Files
    /\ up \subseteq Agents
    /\ targets = [a \in Agents |-> targets[a]]
    /\ call = [a \in Agents |-> [at |-> call[a].at, groups |-> call[a].groups]]
    /\ \A a \in Agents : call[a].at \in Stages
    /\ deadFor \in [Agents -> 0 .. TTL + 1]

\* The catalog is empty or what some file held.
FromAFile == configured = {} \/ \E f \in Files \ {Broken} : configured = ReadGroups(f)

\* A target in every file so far that loads is in this one, and in the catalog once
\* there is a catalog.
SteadyConfigured ==
    /\ file # Broken => steady \subseteq FileUids(file)
    /\ ready => steady \subseteq DOMAIN Desired(configured)

HomePing(a, u) == u[1] = "icmp" /\ u[2] = Region[a]
Told(a) == DOMAIN Desired(call[a].groups)

\* No answer names a target at home, and none leaves out one that was there all the
\* time, unless the server has answered too early.
AnswersRight == \A a \in Agents : call[a].at = "done" =>
    /\ \A u \in Told(a) : ~HomePing(a, u)
    /\ ~hasty => \A u \in steady : HomePing(a, u) \/ u \in Told(a)

\* The catalog forgets an agent that is gone no later than time shows it gone; it is
\* not answered, and after a tick none of its calls is under way.
Fading == \A b \in Agents \ up :
    /\ DOMAIN targets[b] = {}
    /\ call[b].at # "done"
    /\ deadFor[b] > 0 => call[b].at = "idle"
    /\ b \in DOMAIN agents => agents[b] >= deadFor[b]

\* An agent gone for longer than TTL, whose address no file names.
LongGone(b) == b \notin up /\ deadFor[b] > TTL /\ \A f \in Files : Pinged(b) \notin FileUids(f)

\* Nobody who has polled since the last tick, or is about to take over an answer, is
\* told to ping it.
GoneUntold == \A a, b \in Agents : LongGone(b) =>
    /\ call[a].at = "done" => Pinged(b) \notin Told(a)
    /\ a \in up /\ a \notin late => Pinged(b) \notin DOMAIN targets[a]

TargetInv == TargetTypeOK /\ FromAFile /\ SteadyConfigured /\ AnswersRight /\ NoPingAtHome /\ Fading /\ GoneUntold
=============================================================================
