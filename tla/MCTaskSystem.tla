---------------------------- MODULE MCTaskSystem ----------------------------
(* Small instances of TaskSystem for TLC. *)
EXTENDS TaskInvariant, TLC

CONSTANTS t1, t2, h1, h2, s1, s2, g1, g2

\* Every task is for every host of the instance.
ForAllHosts == [t \in Tasks |-> Hosts]

\* Handlers and goroutines are interchangeable.
Slots == Permutations(Handlers) \cup Permutations(Routines)
=============================================================================
