--------------------------- MODULE MCLogPipeline ---------------------------
(* Instances of LogPipeline that TLC checks. *)
EXTENDS LogInvariant

CONSTANTS j1, j2, c1, c2

Strategy(m, f) == [metric |-> m, func |-> f]
OneLocal == {Strategy("m0", "sum")}
NoLocal == {}

\* A strategy that comes and goes, alone or with another one of its metric.
Changing == {{}, {Strategy("m1", "avg")}, {Strategy("m1", "avg"), Strategy("m1", "max")}}
OneList == {{Strategy("m1", "cnt")}}

TwoLines == <<2, 1>>
NoLines == << >>

\* Which hazards are combined: the other loops call while no line is written, calls
\* fail while at most one is, and the agent is told to end when no call has failed,
\* nobody else calls and at most one line is written.
ApartFromCalls ==
    /\ calls.other > 0 => written = 0
    /\ errors > 0 => written <= 1
    /\ cancelled => calls.other = 0 /\ errors = 0 /\ written <= 1

\* Jobs and connections are interchangeable.
Interchangeable == Permutations(Jobs) \cup Permutations(Conns)
=============================================================================
