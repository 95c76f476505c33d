-------------------------- MODULE MCHostInventory --------------------------
(* The instance of HostInventory that TLC checks.                          *)
EXTENDS HostInventory

CONSTANTS a1, c1, c2, s1, s2, ipA, ipC, r1, r2, m1, h1, h2

AgentReports == {[uid |-> a1, spec |-> s, ip |-> ipA] : s \in {s1, s2}}

Listed(uid, spec, region, mount) ==
    [uid |-> uid, spec |-> spec, ip |-> ipC, region |-> region, mount |-> mount]
Cloud == {Listed(c1, s1, r1, m1), Listed(c1, s2, r2, m1)}

\* No matcher, and every type of matcher, alone and together with another one, on labels that
\* may be empty.
MixedQueries == {
    <<>>,
    <<Matcher("=~", "region", {r1, r2}, TRUE), Matcher("!=", "ip", {ipA}, TRUE)>>,
    <<Matcher("=~", "region", {r1, NoValue}, FALSE)>>,
    <<Matcher("!=", "stree", {NoValue}, TRUE), Matcher("!~", "stree", {m1}, TRUE)>>,
    <<Matcher("!=", "region", {r2}, TRUE), Matcher("=", "region", {r1}, TRUE)>> }
\* Ids in descending order give addFor the most to do.
LastId(ids) == CHOOSE i \in ids : \A j \in ids : j <= i

BothHandlers == Permutations(Handlers)
=============================================================================
