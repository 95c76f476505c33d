--------------------------- MODULE HostInventory ---------------------------
(***************************************************************************)
(* The queries (pkg/web/action/rquery.go) against the index that is built  *)
(* from the table of hosts (cmd/server/indexer/manager.go).                *)
(*                                                                         *)
(* Every access of a query to the head of the index is a step:             *)
(* HeadIndexReader.Reset swaps it under its lock, but Postings reads it    *)
(* without.                                                                *)
(***************************************************************************)
EXTENDS HostTable, InvertedIndex

CONSTANTS
    Queries,      \* the matchers of a query: sequences of matchers
    Earliest(_)   \* the one of some ids whose row a SELECT gives first: it has no order

Names == {"region", "stree", "ip"}
MatchTypes == {"=", "!=", "=~", "!~"}

ASSUME QueriesOfMatchers == \A ms \in Queries :
    LET Values == UNION {ms[k].values : k \in DOMAIN ms}
    IN ms \in Seq([type : MatchTypes, name : Names, values : SUBSET Values, literal : BOOLEAN])

ASSUME EarliestIsOneOf == \A ids \in SUBSET (1..MaxRows) : ids # {} => Earliest(ids) \in ids

VARIABLE query      \* the query being answered; seen: the heads it has met

vars == <<tableVars, query>>

NoQuery == [at |-> "idle", ms |-> <<>>, want |-> {}, got |-> <<>>, its |-> <<>>,
            notIts |-> <<>>, ids |-> {}, seen |-> {}]

Init == TableInit /\ query = NoQuery

-----------------------------------------------------------------------------
(* The index.                                                              *)

LabelOf(r, n) == CASE n = "region" -> r.region [] n = "stree" -> r.mount [] OTHER -> r.ip

\* The loop of FlushIndex over the rows it has read: GetOrCreateWithID adds the id
\* of a row once to the list of a label, and to that of all ids once for its columns,
\* once for its (never decoded) tags and once for its address.
Builds == [left : SUBSET Nat, list : Seq(Nat)]
RowsLeft == [b \in Builds |-> b.left # {}]
IndexRow(times) == [b \in Builds |->
    LET id == Earliest(b.left)
        once == AddFor(b.list, id)
    IN [left |-> b.left \ {id},
        list |-> IF times = 1 THEN once ELSE AddFor(AddFor(once, id), id)]]
Indexed(ids, times) == While(Builds, RowsLeft, IndexRow(times))[[left |-> ids, list |-> <<>>]].list

PostingsOf(rs, n, v) == Indexed({r.id : r \in {x \in rs : LabelOf(x, n) = v}}, 1)
AllIds(rs) == Indexed({r.id : r \in rs}, 3)
LabelValues(rs, n) == {LabelOf(r, n) : r \in rs}

-----------------------------------------------------------------------------
(* A query: for each matcher the values of its label, then the postings of *)
(* each value, then ExpandPostings.                                        *)

Query(ms) ==
    /\ query.at = "idle"
    /\ query' = [NoQuery EXCEPT !.at = "values", !.ms = ms, !.seen = {head}]
    /\ UNCHANGED tableVars

Current == Len(query.its) + Len(query.notIts) + 1
CurrentPart == PartOf(query.ms, query.ms[Current])

QueryValues ==
    /\ query.at = "values" /\ Current <= Len(query.ms)
    /\ query' = [query EXCEPT !.at = "postings", !.got = <<>>,
                 !.want = ValuesFor(CurrentPart, LabelValues(head, CurrentPart.m.name))]
    /\ UNCHANGED tableVars

QueryPostings ==
    /\ query.at = "postings"
    /\ IF query.want # {}
       THEN LET v == CHOOSE v \in query.want : TRUE
            IN query' = [query EXCEPT !.want = @ \ {v},
                         !.got = Append(@, PostingsOf(head, CurrentPart.m.name, v))]
       ELSE query' = IF CurrentPart.minus
                     THEN [query EXCEPT !.at = "values", !.notIts = Append(@, query.got), !.got = <<>>]
                     ELSE [query EXCEPT !.at = "values", !.its = Append(@, query.got), !.got = <<>>]
    /\ UNCHANGED tableVars

QueryExpand ==
    /\ query.at = "values" /\ Current > Len(query.ms)
    /\ query' = [query EXCEPT !.at = "done", !.its = <<>>, !.notIts = <<>>,
                 !.ids = Evaluate(query.its, query.notIts, AllIds(head))]
    /\ UNCHANGED tableVars

QueryReply ==
    /\ query.at = "done"
    /\ query' = NoQuery
    /\ UNCHANGED tableVars

(* Bounds: a query begins when a new index is ready to be swapped in, and  *)
(* the table is written between queries only.  A query reads nothing but   *)
(* the head, so the same steps in another order show it the same.          *)
BetweenWrites == flush.at = "reset" /\ sync.at = "idle" /\ \A c \in Handlers : report[c].at = "idle"

FlushMeetsQuery ==
    /\ Flush
    /\ query' = IF query.at = "idle" THEN query ELSE [query EXCEPT !.seen = @ \cup {head'}]

Next ==
    \/ query.at = "idle" /\ Writes /\ UNCHANGED query
    \/ FlushMeetsQuery
    \/ BetweenWrites /\ \E ms \in Queries : Query(ms)
    \/ QueryValues \/ QueryPostings \/ QueryExpand \/ QueryReply

Spec == Init /\ [][Next]_vars
-----------------------------------------------------------------------------
(* Properties.                                                             *)

Satisfies(ms, r) == \A k \in DOMAIN ms : Matches(ms[k], LabelOf(r, ms[k].name))

\* The answer of GetMatchIdsByIndex is right for every host whose labels do not
\* change while the query runs, also when the index is swapped between two of its
\* steps and it puts together lists of two generations: it names exactly those
\* that satisfy all matchers, and nothing that was in no generation.  A query
\* without matchers names no host.
StableHostsRight == query.at = "done" =>
    /\ query.ids \subseteq UNION {{r.id : r \in h} : h \in query.seen}
    /\ \A h \in query.seen : \A r \in h :
         (\A o \in query.seen : \E x \in o :
             x.id = r.id /\ \A n \in Names : LabelOf(x, n) = LabelOf(r, n))
         => (r.id \in query.ids <=> query.ms # <<>> /\ Satisfies(query.ms, r))
=============================================================================
