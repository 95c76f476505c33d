--------------------------- MODULE MCProbeSystem ---------------------------
(* Small instances of ProbeSystem for TLC. *)
EXTENDS ProbeInvariant

CONSTANTS u1, u2, o1, o2, w1, w2, w3, p1, p2, s1, s2

\* Workers, goroutines of the pool and handlers are interchangeable.
Interchangeable == Permutations(Workers) \cup Permutations(Slots) \cup Permutations(Handlers)

\* A bound on interleavings: the engine alone, without pushes and publication.
EngineOnly == pusher.pc = "idle" /\ publisher.pc = "idle" /\ horizon = 0

\* A bound on interleavings: the server publishes between refreshes of the agent and after its end.
PublishesBetweenRefreshes == publisher.pc # "idle" => manager.pc \in {"idle", "stopped"}
=============================================================================
