----------------------------- MODULE HostTable -----------------------------
(***************************************************************************)
(* The hosts (table resource_host, pkg/model/rhost.go): the reports of the *)
(* agents (cmd/server/rpc/server.go), the synchronisation with the cloud   *)
(* (cmd/server/csync/manager.go), mounts, and the index that is rebuilt    *)
(* every 15 seconds (cmd/server/indexer/manager.go).  Every SQL statement  *)
(* is a step.                                                              *)
(*                                                                         *)
(* `spec` is name, cpu, memory and disk, of which the hash is made; Sn and *)
(* IpAddr are never filled in (xorm:"-"), so the hash column is a function *)
(* of spec and is left out.  uid, spec and ip of a report are not empty.   *)
(***************************************************************************)
EXTENDS Matchers, Naturals, FiniteSets

CONSTANTS
    Reports,    \* what agents report: records [uid, spec, ip]
    CloudHosts, \* what the cloud may list: records [uid, spec, ip, region, mount]
    Mounts,     \* paths of the service tree
    Handlers,   \* bound: HostReport calls served at the same time
    MaxRows,    \* bound: rows ever inserted
    MaxReports, MaxSyncs, MaxMounts  \* bounds: how often each happens

ASSUME HostBounds == {MaxRows, MaxReports, MaxSyncs, MaxMounts} \subseteq Nat

\* The uid of an agent is its serial number or the name of its host, that of a host of
\* the cloud the MD5 of a name getMockResourceHost makes up.
ASSUME UidsApart == \A in \in Reports : \A d \in CloudHosts : in.uid # d.uid

VARIABLES
    rows,      \* the table
    report,    \* the HostReport calls being served
    sync,      \* the synchronisation under way
    flush,     \* FlushIndex under way
    head,      \* the rows the index was built from
    done,      \* counts reports, synchronisations and mounts (bounds)
    tangled    \* history: reports of one host have overlapped, or a report has
               \* updated the table

tableVars == <<rows, report, sync, flush, head, done, tangled>>

NoReport == [at |-> "idle", in |-> CHOOSE r \in Reports : TRUE, new |-> FALSE]
NoSync == [at |-> "idle", list |-> {}, add |-> {}, update |-> {}, alone |-> TRUE]
NoFlush == [at |-> "idle", total |-> 0, rows |-> {}]

TableInit ==
    /\ rows = {}
    /\ report = [c \in Handlers |-> NoReport]
    /\ sync = NoSync
    /\ flush = NoFlush
    /\ head = {}
    /\ done = [report |-> 0, sync |-> 0, mount |-> 0]
    /\ tangled = FALSE

Count(what) == done' = [done EXCEPT ![what] = @ + 1]

\* INSERT; ids are handed out in order.
InsertRow(uid, spec, ip, region, mount) ==
    /\ Cardinality(rows) < MaxRows
    /\ rows' = rows \cup {[id |-> Cardinality(rows) + 1, uid |-> uid, spec |-> spec, ip |-> ip,
                           region |-> region, mount |-> mount]}

-----------------------------------------------------------------------------
(* The report of an agent.                                                 *)

HostReport(c, in) ==
    /\ report[c].at = "idle"
    /\ done.report < MaxReports
    /\ Count("report")
    /\ report' = [report EXCEPT ![c] = [at |-> "get", in |-> in, new |-> FALSE]]
    /\ tangled' = (tangled \/ \E d \in Handlers : report[d].at # "idle" /\ report[d].in.uid = in.uid)
    /\ UNCHANGED <<rows, sync, flush, head>>

\* No row of this uid, or one with another hash, or nothing to do.
ReportGet(c) ==
    LET same == {r \in rows : r.uid = report[c].in.uid}
        first == CHOOSE r \in same : \A o \in same : r.id <= o.id
    IN /\ report[c].at = "get"
       /\ report' = [report EXCEPT ![c] =
              IF same # {} /\ first.spec = @.in.spec THEN NoReport
              ELSE [@ EXCEPT !.at = "write", !.new = (same = {})]]
       /\ UNCHANGED <<rows, sync, flush, head, done, tangled>>

\* The UPDATE has no WHERE clause: it sets uid, spec and ip of every row.
ReportWrite(c) ==
    LET in == report[c].in
    IN /\ report[c].at = "write"
       /\ IF report[c].new
          THEN InsertRow(in.uid, in.spec, in.ip, NoValue, NoValue) /\ UNCHANGED tangled
          ELSE /\ rows' = {[r EXCEPT !.uid = in.uid, !.spec = in.spec, !.ip = in.ip] : r \in rows}
               /\ tangled' = TRUE
       /\ report' = [report EXCEPT ![c] = NoReport]
       /\ sync' = [sync EXCEPT !.alone = FALSE]
       /\ UNCHANGED <<flush, head, done>>

-----------------------------------------------------------------------------
(* The synchronisation with the cloud.                                     *)

\* A mistake a run must notice: a host with another hash is taken for new.
IsNewByHash(d) == ~\E r \in rows : r.uid = d.uid /\ r.spec = d.spec

IsNew(d) == ~\E r \in rows : r.uid = d.uid

\* A mistake a run must notice: the comparison of the hashes is the wrong way.
IsChangedSwapped(d) == \E r \in rows : r.uid = d.uid /\ r.spec = d.spec

\* The hash that getHostUIDAndHash keeps for a uid is that of its last row.
IsChanged(d) == \E r \in rows : /\ r.uid = d.uid /\ r.spec # d.spec
                                /\ \A o \in rows : o.uid = d.uid => o.id <= r.id

\* The list of the cloud, and uid and hash of every row.  Hosts the cloud no
\* longer lists stay: BatchDeleteResource sends an empty statement.
SyncRead(list) ==
    /\ sync.at = "idle"
    /\ done.sync < MaxSyncs
    /\ Count("sync")
    /\ sync' = [at |-> "write", list |-> list, add |-> {d \in list : IsNew(d)},
                update |-> {d \in list : IsChanged(d)}, alone |-> TRUE]
    /\ UNCHANGED <<rows, report, flush, head, tangled>>

SyncAdd(d) ==
    /\ d \in sync.add
    /\ InsertRow(d.uid, d.spec, d.ip, d.region, d.mount)
    /\ sync' = [sync EXCEPT !.add = @ \ {d}]
    /\ UNCHANGED <<report, flush, head, done, tangled>>

\* UpdateByUID writes every column of the list, the mount included.
SyncUpdate(d) ==
    /\ sync.add = {} /\ d \in sync.update
    /\ rows' = {IF r.uid = d.uid THEN [id |-> r.id, uid |-> r.uid, spec |-> d.spec, ip |-> d.ip,
                                       region |-> d.region, mount |-> d.mount] ELSE r : r \in rows}
    /\ sync' = [sync EXCEPT !.update = @ \ {d}]
    /\ UNCHANGED <<report, flush, head, done, tangled>>

SyncEnd ==
    /\ sync.at = "write" /\ sync.add = {} /\ sync.update = {}
    /\ sync' = NoSync
    /\ UNCHANGED <<rows, report, flush, head, done, tangled>>

\* An operator mounts or unmounts a host (ServiceTree has the whole request).
MountHost(id, m) ==
    /\ done.mount < MaxMounts
    /\ Count("mount")
    /\ rows' = {IF r.id = id THEN [r EXCEPT !.mount = m] ELSE r : r \in rows}
    /\ UNCHANGED <<report, sync, flush, head, tangled>>

-----------------------------------------------------------------------------
(* The index.                                                              *)

\* A mistake a run must notice: the last id is left out.
IdsBelow(total) == 1..(total - 1)

\* The ids that FlushIndex asks for (an index of one shard).
IdsUpTo(total) == 1..(total + 1)

FlushCount ==
    /\ flush.at = "idle"
    /\ flush' = [NoFlush EXCEPT !.at = "select", !.total = Cardinality(rows)]
    /\ UNCHANGED <<rows, report, sync, head, done, tangled>>

FlushSelect ==
    /\ flush.at = "select"
    /\ flush' = [flush EXCEPT !.at = "reset", !.rows = {r \in rows : r.id \in IdsUpTo(flush.total)}]
    /\ UNCHANGED <<rows, report, sync, head, done, tangled>>

Reset ==
    /\ flush.at = "reset"
    /\ head' = flush.rows
    /\ flush' = NoFlush
    /\ UNCHANGED <<rows, report, sync, done, tangled>>

(* The cloud lists a host once.                                           *)
CloudLists == {l \in SUBSET CloudHosts : \A d, e \in l : d.uid = e.uid => d = e}

Flush == FlushCount \/ FlushSelect \/ Reset

Writes ==
    \/ \E c \in Handlers : (\E in \in Reports : HostReport(c, in)) \/ ReportGet(c) \/ ReportWrite(c)
    \/ \E list \in CloudLists : SyncRead(list)
    \/ \E d \in CloudHosts : SyncAdd(d) \/ SyncUpdate(d)
    \/ SyncEnd
    \/ \E r \in rows : \E m \in (Mounts \cup {NoValue}) \ {r.mount} : MountHost(r.id, m)

TableNext == Writes \/ Flush

TableSpec == TableInit /\ [][TableNext]_tableVars
-----------------------------------------------------------------------------
(* Properties.                                                             *)

\* Agents report and the cloud is synchronised at the same time, each with a
\* SELECT of its own before it inserts: still no host gets a second row, unless
\* two reports of one host have overlapped or a report has updated the table.
OneRowPerHost == ~tangled => \A r, o \in rows : r.uid = o.uid => r = o

\* At the end of a synchronisation every listed host is in the table as listed,
\* unless a report has updated the table meanwhile.
SyncConverges == (sync.at = "write" /\ sync.alone /\ sync.add = {} /\ sync.update = {}) =>
    \A d \in sync.list : \E r \in rows : r.uid = d.uid /\ r.spec = d.spec

\* FlushIndex counts the rows first and then asks for ids up to the count and one
\* more: whatever is inserted between, the new index has every host that was there
\* when it began, with the columns of one moment.
FlushCovers == flush.at = "reset" =>
    /\ 1..flush.total \subseteq {r.id : r \in flush.rows}
    /\ \A r, o \in flush.rows : r.id = o.id => r = o
=============================================================================
