--------------------------- MODULE MCTargetSystem ---------------------------
(* The instance of TargetSystem that TLC checks. *)
EXTENDS TargetSystem

CONSTANTS a, b, r1, r2, x, y

Probe(type, region, target, every) ==
    [type |-> type, region |-> region, target |-> target, every |-> every]

TwoRegions == <<r1, r2>>
InRegions == (a :> r1) @@ (b :> r2)

\* y is in both files.  The first also names an agent, spells a type oddly, gives
\* x twice, and asks for what no prober does and for nothing at all.
TwoFiles == {
    << Probe(" ICMP", r1, {x}, "zero"), Probe("icmp", r2, {b}, "30s"), Probe("http", r1, {x, y}, "zero"),
       Probe("http", r1, {x}, "30s"), Probe("gopher", r1, {x}, "zero"), Probe("tcp", r1, {}, "zero"),
       Probe("", r1, {x}, "zero") >>,
    << Probe("http", r1, {y}, "15s"), Probe("icmp", r2, {y}, "zero") >>,
    Broken }
=============================================================================
