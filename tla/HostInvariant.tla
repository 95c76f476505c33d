--------------------------- MODULE HostInvariant ---------------------------
(***************************************************************************)
(* What HostProofs shows to hold in every state of HostTable, and          *)
(* OneRowPerHost, SyncConverges and FlushCovers rest on.                   *)
(***************************************************************************)
EXTENDS HostTable

Hosts == Reports \cup CloudHosts
Places == Mounts \cup {NoValue} \cup {d.region : d \in CloudHosts} \cup {d.mount : d \in CloudHosts}
RowStates == [id : Nat, uid : {h.uid : h \in Hosts}, spec : {h.spec : h \in Hosts},
              ip : {h.ip : h \in Hosts}, region : Places, mount : Places]
ReportStates == [at : {"idle", "get", "write"}, in : Reports \cup {NoReport.in}, new : BOOLEAN]
SyncStates == [at : {"idle", "write"}, list : SUBSET CloudHosts, add : SUBSET CloudHosts,
               update : SUBSET CloudHosts, alone : BOOLEAN]
FlushStates == [at : {"idle", "select", "reset"}, total : Nat, rows : SUBSET RowStates]

TableTypeOK ==
    /\ rows \subseteq RowStates /\ IsFiniteSet(rows)
    /\ report \in [Handlers -> ReportStates]
    /\ sync \in SyncStates
    /\ flush \in FlushStates
    /\ tangled \in BOOLEAN
    /\ \A c \in Handlers : report[c].at # "idle" => report[c].in \in Reports

\* Each id from 1 on has one row.
IdsOf(rs) == {r.id : r \in rs}
OneOfEachId(rs) == \A r, o \in rs : r.id = o.id => r = o
IdsInOrder == /\ IdsOf(rows) = 1 .. Cardinality(rows) /\ OneOfEachId(rows)
              /\ Cardinality(rows) <= MaxRows

\* A flush has counted no more rows than there are.
FlushBehind ==
    /\ flush.at = "select" => flush.total <= Cardinality(rows)
    /\ flush.at = "reset" => 1 .. flush.total \subseteq IdsOf(flush.rows) /\ OneOfEachId(flush.rows)

\* The rows an index is built from.
RowsOfIndex(rs) == IdsOf(rs) \subseteq 1 .. MaxRows /\ OneOfEachId(rs)
IndexKnown == RowsOfIndex(head) /\ (flush.at = "reset" => RowsOfIndex(flush.rows))

HasRow(uid) == \E r \in rows : r.uid = uid

\* While reports are not tangled: whoever is about to insert a host is the only one to
\* do so, and the host has no row yet.
OneInserter ==
    /\ \A r, o \in rows : r.uid = o.uid => r = o
    /\ \A c \in Handlers : report[c].at = "write" /\ report[c].new => ~HasRow(report[c].in.uid)
    /\ \A c, d \in Handlers :
         report[c].at # "idle" /\ report[d].at # "idle" /\ report[c].in.uid = report[d].in.uid => c = d
    /\ \A d \in sync.add : ~HasRow(d.uid)

\* The worklists of the synchronisation, and the hosts it is done with.
SyncKnown ==
    /\ sync.list \in CloudLists /\ sync.add \cup sync.update \subseteq sync.list
    /\ sync.at = "idle" => sync.list = {}
    /\ sync.alone =>
         /\ \A d \in sync.update : HasRow(d.uid)
         /\ \A d \in sync.list \ (sync.add \cup sync.update) : \E r \in rows : r.uid = d.uid /\ r.spec = d.spec

HostInv == /\ TableTypeOK /\ IdsInOrder /\ FlushBehind /\ IndexKnown
           /\ (~tangled => OneInserter) /\ SyncKnown
=============================================================================
