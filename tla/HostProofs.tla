----------------------------- MODULE HostProofs -----------------------------
(***************************************************************************)
(* HostInv is inductive, so no host gets a second row (OneRowPerHost), a   *)
(* synchronisation leaves the table as listed (SyncConverges) and an index *)
(* has every row that was there when it was begun (FlushCovers): for any   *)
(* hosts, reports, lists of the cloud and calls served at the same time.   *)
(*                                                                         *)
(* With what IndexProofs shows of the iterators, QueryInv is inductive too *)
(* and the answer of a query is right for every host whose labels stay the *)
(* same while it runs (StableHostsRight): for any matchers and however     *)
(* often the index is swapped under the query.                             *)
(***************************************************************************)
EXTENDS HostInvariant, HostInventory, IndexProofs

-----------------------------------------------------------------------------
(* Sets of rows.                                                           *)

\* Sets of rows with one row of each id have as many rows as ids.
LEMMA AsManyAsIds ==
    ASSUME NEW rs, IsFiniteSet(rs), OneOfEachId(rs)
    PROVE  IsFiniteSet(IdsOf(rs)) /\ Cardinality(IdsOf(rs)) = Cardinality(rs)
  <1> DEFINE f == [r \in rs |-> r.id]
  <1>1. f \in [rs -> IdsOf(rs)] /\ \A r \in rs : f[r] = r.id
    BY DEF IdsOf
  <1> HIDE DEF f
  <1>2. f \in Bijection(rs, IdsOf(rs))
    <2>1. \A r, o \in rs : f[r] = f[o] => r = o
      BY <1>1 DEF OneOfEachId
    <2>2. \A i \in IdsOf(rs) : \E r \in rs : f[r] = i
      BY <1>1 DEF IdsOf
    <2> QED
      BY <1>1, <2>1, <2>2 DEF Bijection, Injection, Surjection, IsInjective
  <1>3. ExistsBijection(rs, IdsOf(rs))
    BY <1>2 DEF ExistsBijection
  <1> QED
    BY <1>3, FS_Bijection

\* An UPDATE keeps every row's id: there are as many rows as before, with the same ids.
LEMMA UpdateKeepsIds ==
    ASSUME NEW rs, IsFiniteSet(rs), OneOfEachId(rs),
           NEW f \in [rs -> RowStates], \A r \in rs : f[r].id = r.id
    PROVE  LET new == {f[r] : r \in rs}
           IN  /\ new \subseteq RowStates /\ IsFiniteSet(new) /\ OneOfEachId(new)
               /\ IdsOf(new) = IdsOf(rs) /\ Cardinality(new) = Cardinality(rs)
  <1> DEFINE new == {f[r] : r \in rs}
  <1>1. new \subseteq RowStates /\ IdsOf(new) = IdsOf(rs)
    <2>1. new \subseteq RowStates
      OBVIOUS
    <2>2. \A i : i \in IdsOf(new) <=> i \in IdsOf(rs)
      BY DEF IdsOf
    <2> QED
      BY <2>1, <2>2
  <1>2. OneOfEachId(new)
    BY DEF OneOfEachId
  <1>3. IsFiniteSet(new)
    <2>1. f \in Surjection(rs, new)
      BY DEF Surjection
    <2> QED
      BY <2>1, FS_Surjection
  <1>4. Cardinality(new) = Cardinality(rs)
    BY <1>1, <1>2, <1>3, AsManyAsIds
  <1> QED
    BY <1>1, <1>2, <1>3, <1>4

-----------------------------------------------------------------------------
(* The steps of the table.                                                 *)

\* INSERT adds one row, with the next id.
LEMMA InsertFacts ==
    ASSUME TableTypeOK, IdsInOrder,
           NEW h \in Hosts, NEW region \in Places, NEW mount \in Places,
           InsertRow(h.uid, h.spec, h.ip, region, mount)
    PROVE  \E new \in RowStates :
             /\ rows' = rows \cup {new} /\ new.uid = h.uid /\ new.spec = h.spec
             /\ rows' \subseteq RowStates /\ IsFiniteSet(rows')
             /\ IdsInOrder' /\ Cardinality(rows') >= Cardinality(rows)
  <1> DEFINE n == Cardinality(rows)
             new == [id |-> n + 1, uid |-> h.uid, spec |-> h.spec, ip |-> h.ip,
                     region |-> region, mount |-> mount]
  <1>1. rows \subseteq RowStates /\ IsFiniteSet(rows) /\ n \in Nat
    BY FS_CardinalityType DEF TableTypeOK
  <1>2. rows' = rows \cup {new}
    BY DEF InsertRow
  <1>3. new \in RowStates /\ new.id = n + 1 /\ new.uid = h.uid /\ new.spec = h.spec
    BY <1>1 DEF RowStates
  <1> HIDE DEF new
  <1>4. \A r \in rows : r.id \in 1 .. n
    BY DEF IdsInOrder, IdsOf
  <1>5. new \notin rows /\ n + 1 \notin 1 .. n
    BY <1>1, <1>3, <1>4
  <1>6. IsFiniteSet(rows') /\ Cardinality(rows') = n + 1
    BY <1>1, <1>2, <1>5, FS_AddElement
  <1>7. IdsOf(rows') = IdsOf(rows) \cup {n + 1}
    BY <1>2, <1>3 DEF IdsOf
  <1>8. 1 .. (n + 1) = (1 .. n) \cup {n + 1}
    BY <1>1
  <1>9. OneOfEachId(rows')
    BY <1>2, <1>3, <1>4, <1>5 DEF IdsInOrder, OneOfEachId
  <1>10. IdsInOrder'
    <2>1. n < MaxRows /\ MaxRows \in Nat
      BY HostBounds DEF InsertRow
    <2>2. Cardinality(rows') <= MaxRows
      BY <1>1, <1>6, <2>1
    <2> QED
      BY <1>6, <1>7, <1>8, <1>9, <2>2 DEF IdsInOrder
  <1> QED
    BY <1>1, <1>2, <1>3, <1>6, <1>10

\* UPDATE gives every row new columns, and keeps its id.
LEMMA UpdateFacts ==
    ASSUME TableTypeOK, IdsInOrder,
           NEW f \in [rows -> RowStates], \A r \in rows : f[r].id = r.id,
           rows' = {f[r] : r \in rows}
    PROVE  /\ rows' \subseteq RowStates /\ IsFiniteSet(rows')
           /\ IdsInOrder' /\ Cardinality(rows') = Cardinality(rows)
  <1>1. IsFiniteSet(rows) /\ OneOfEachId(rows)
    BY DEF TableTypeOK, IdsInOrder
  <1>2. /\ rows' \subseteq RowStates /\ IsFiniteSet(rows') /\ OneOfEachId(rows')
        /\ IdsOf(rows') = IdsOf(rows) /\ Cardinality(rows') = Cardinality(rows)
    BY <1>1, UpdateKeepsIds
  <1> QED
    BY <1>2 DEF IdsInOrder

\* What every step does to the rows.
LEMMA RowsStep ==
    ASSUME TableTypeOK, IdsInOrder, SyncKnown, [TableNext]_tableVars
    PROVE  /\ rows' \subseteq RowStates /\ IsFiniteSet(rows')
           /\ IdsInOrder' /\ Cardinality(rows') >= Cardinality(rows)
  <1>0. rows \subseteq RowStates /\ IsFiniteSet(rows) /\ Cardinality(rows) \in Nat
    BY FS_CardinalityType DEF TableTypeOK
  <1>1. ASSUME UNCHANGED rows
        PROVE  /\ rows' \subseteq RowStates /\ IsFiniteSet(rows')
               /\ IdsInOrder' /\ Cardinality(rows') >= Cardinality(rows)
    BY <1>0, <1>1 DEF IdsInOrder
  <1>2. ASSUME NEW c \in Handlers, ReportWrite(c)
        PROVE  /\ rows' \subseteq RowStates /\ IsFiniteSet(rows')
               /\ IdsInOrder' /\ Cardinality(rows') >= Cardinality(rows)
    <2> DEFINE in == report[c].in
    <2>1. in \in Hosts
      BY <1>2 DEF TableTypeOK, ReportWrite, Hosts
    <2>2. NoValue \in Places
      BY DEF Places
    <2>3. CASE report[c].new
      BY <1>2, <2>1, <2>2, <2>3, InsertFacts DEF ReportWrite
    <2>4. CASE ~report[c].new
      <3> DEFINE f == [r \in rows |-> [r EXCEPT !.uid = in.uid, !.spec = in.spec, !.ip = in.ip]]
      <3>1. rows' = {f[r] : r \in rows}
        BY <1>2, <2>4 DEF ReportWrite
      <3>2. \A r \in rows : f[r] \in RowStates /\ f[r].id = r.id
        BY <1>0, <2>1 DEF RowStates
      <3>3. f \in [rows -> RowStates] /\ \A r \in rows : f[r].id = r.id
        BY <3>2
      <3> HIDE DEF f
      <3> QED
        BY <1>0, <3>1, <3>3, UpdateFacts
    <2> QED
      BY <2>3, <2>4
  <1>3. ASSUME NEW d \in CloudHosts, SyncAdd(d)
        PROVE  /\ rows' \subseteq RowStates /\ IsFiniteSet(rows')
               /\ IdsInOrder' /\ Cardinality(rows') >= Cardinality(rows)
    <2>1. d \in Hosts /\ d.region \in Places /\ d.mount \in Places
      BY DEF Hosts, Places
    <2> QED
      BY <1>3, <2>1, InsertFacts DEF SyncAdd
  <1>4. ASSUME NEW d \in CloudHosts, SyncUpdate(d)
        PROVE  /\ rows' \subseteq RowStates /\ IsFiniteSet(rows')
               /\ IdsInOrder' /\ Cardinality(rows') >= Cardinality(rows)
    <2> DEFINE f == [r \in rows |-> IF r.uid = d.uid
                       THEN [id |-> r.id, uid |-> r.uid, spec |-> d.spec, ip |-> d.ip,
                             region |-> d.region, mount |-> d.mount] ELSE r]
    <2>1. rows' = {f[r] : r \in rows}
      BY <1>4 DEF SyncUpdate
    <2>2. d \in Hosts /\ d.region \in Places /\ d.mount \in Places
      BY DEF Hosts, Places
    <2>3. \A r \in rows : f[r] \in RowStates /\ f[r].id = r.id
      BY <1>0, <2>2 DEF RowStates
    <2>4. f \in [rows -> RowStates] /\ \A r \in rows : f[r].id = r.id
      BY <2>3
    <2> HIDE DEF f
    <2> QED
      BY <1>0, <2>1, <2>4, UpdateFacts
  <1>5. ASSUME NEW r0 \in rows, NEW m \in (Mounts \cup {NoValue}) \ {r0.mount}, MountHost(r0.id, m)
        PROVE  /\ rows' \subseteq RowStates /\ IsFiniteSet(rows')
               /\ IdsInOrder' /\ Cardinality(rows') >= Cardinality(rows)
    <2> DEFINE f == [r \in rows |-> IF r.id = r0.id THEN [r EXCEPT !.mount = m] ELSE r]
    <2>1. rows' = {f[r] : r \in rows}
      BY <1>5 DEF MountHost
    <2>2. m \in Places
      BY DEF Places
    <2>3. \A r \in rows : f[r] \in RowStates /\ f[r].id = r.id
      BY <1>0, <2>2 DEF RowStates
    <2>4. f \in [rows -> RowStates] /\ \A r \in rows : f[r].id = r.id
      BY <2>3
    <2> HIDE DEF f
    <2> QED
      BY <1>0, <2>1, <2>4, UpdateFacts
  <1>6. ASSUME NEW c \in Handlers, (\E in \in Reports : HostReport(c, in)) \/ ReportGet(c) PROVE UNCHANGED rows
    BY <1>6 DEF HostReport, ReportGet
  <1>7. CASE (\E list \in CloudLists : SyncRead(list)) \/ SyncEnd
    BY <1>1, <1>7 DEF SyncRead, SyncEnd
  <1>8. CASE Flush \/ UNCHANGED tableVars
    BY <1>1, <1>8 DEF Flush, FlushCount, FlushSelect, Reset, tableVars
  <1> QED
    BY <1>1, <1>2, <1>3, <1>4, <1>5, <1>6, <1>7, <1>8 DEF TableNext, Writes

-----------------------------------------------------------------------------
(* Types.                                                                  *)

LEMMA TableTypeStep ==
    TableTypeOK /\ IdsInOrder /\ SyncKnown /\ [TableNext]_tableVars => TableTypeOK'
  <1> SUFFICES ASSUME TableTypeOK, IdsInOrder, SyncKnown, [TableNext]_tableVars PROVE TableTypeOK'
    OBVIOUS
  <1>0. rows' \subseteq RowStates /\ IsFiniteSet(rows') /\ Cardinality(rows) \in Nat
    BY RowsStep, FS_CardinalityType DEF TableTypeOK
  <1>1. /\ rows \subseteq RowStates
        /\ report \in [Handlers -> ReportStates] /\ sync \in SyncStates
        /\ flush \in FlushStates /\ tangled \in BOOLEAN
        /\ \A c \in Handlers : report[c].at # "idle" => report[c].in \in Reports
    BY DEF TableTypeOK
  <1>2. ASSUME NEW c \in Handlers, NEW in \in Reports, HostReport(c, in) PROVE TableTypeOK'
    <2> DEFINE r == [at |-> "get", in |-> in, new |-> FALSE]
    <2>1. report' = [report EXCEPT ![c] = r] /\ UNCHANGED <<sync, flush>> /\ tangled' \in BOOLEAN
      BY <1>1, <1>2 DEF HostReport
    <2>2. r \in ReportStates /\ r.in \in Reports
      BY DEF ReportStates
    <2> HIDE DEF r
    <2> QED
      BY <1>0, <1>1, <2>1, <2>2 DEF TableTypeOK
  <1>3. ASSUME NEW c \in Handlers, ReportGet(c) PROVE TableTypeOK'
    <2>1. PICK new \in BOOLEAN : report' = [report EXCEPT ![c] = NoReport]
                              \/ report' = [report EXCEPT ![c] = [report[c] EXCEPT !.at = "write", !.new = new]]
      <3>1. ({r \in rows : r.uid = report[c].in.uid} = {}) \in BOOLEAN
        OBVIOUS
      <3> QED
        BY <1>1, <1>3, <3>1 DEF ReportGet
    <2> DEFINE r == [report[c] EXCEPT !.at = "write", !.new = new]
    <2>2. r \in ReportStates /\ r.in \in Reports
      BY <1>1, <1>3 DEF ReportStates, ReportGet
    <2>3. NoReport \in ReportStates /\ NoReport.at = "idle"
      BY DEF NoReport, ReportStates
    <2>4. UNCHANGED <<sync, flush, tangled>>
      BY <1>3 DEF ReportGet
    <2>5. report' = [report EXCEPT ![c] = NoReport] \/ report' = [report EXCEPT ![c] = r]
      BY <2>1
    <2> HIDE DEF r
    <2> QED
      BY <1>0, <1>1, <2>2, <2>3, <2>4, <2>5 DEF TableTypeOK
  <1>4. ASSUME NEW c \in Handlers, ReportWrite(c) PROVE TableTypeOK'
    <2>1. NoReport \in ReportStates /\ NoReport.at = "idle"
      BY DEF NoReport, ReportStates
    <2>2. report' = [report EXCEPT ![c] = NoReport] /\ UNCHANGED flush /\ tangled' \in BOOLEAN
      BY <1>1, <1>4 DEF ReportWrite
    <2>3. sync' \in SyncStates
      BY <1>1, <1>4 DEF ReportWrite, SyncStates
    <2> QED
      BY <1>0, <1>1, <2>1, <2>2, <2>3 DEF TableTypeOK
  <1>5. ASSUME NEW list \in CloudLists, SyncRead(list) PROVE TableTypeOK'
    <2>1. sync' \in SyncStates
      BY <1>5 DEF SyncRead, SyncStates, CloudLists
    <2> QED
      BY <1>0, <1>1, <1>5, <2>1 DEF SyncRead, TableTypeOK
  <1>6. ASSUME NEW d \in CloudHosts, SyncAdd(d) \/ SyncUpdate(d) PROVE TableTypeOK'
    <2>1. sync' \in SyncStates
      BY <1>1, <1>6 DEF SyncAdd, SyncUpdate, SyncStates
    <2> QED
      BY <1>0, <1>1, <1>6, <2>1 DEF SyncAdd, SyncUpdate, TableTypeOK
  <1>7. CASE SyncEnd
    <2>1. sync' \in SyncStates
      BY <1>7 DEF SyncEnd, NoSync, SyncStates
    <2> QED
      BY <1>0, <1>1, <1>7, <2>1 DEF SyncEnd, TableTypeOK
  <1>8. CASE Flush
    <2>1. flush' \in FlushStates
      <3>1. CASE FlushCount
        BY <1>0, <3>1 DEF FlushCount, NoFlush, FlushStates
      <3>2. CASE FlushSelect
        <4>1. {r \in rows : r.id \in IdsUpTo(flush.total)} \in SUBSET RowStates
          BY <1>1
        <4> QED
          BY <1>1, <3>2, <4>1 DEF FlushSelect, FlushStates
      <3>3. CASE Reset
        BY <3>3 DEF Reset, NoFlush, FlushStates
      <3> QED
        BY <1>8, <3>1, <3>2, <3>3 DEF Flush
    <2> QED
      BY <1>0, <1>1, <1>8, <2>1 DEF Flush, FlushCount, FlushSelect, Reset, TableTypeOK
  <1>9. ASSUME NEW id, NEW m, MountHost(id, m) PROVE TableTypeOK'
    BY <1>0, <1>1, <1>9 DEF MountHost, TableTypeOK
  <1>10. CASE UNCHANGED tableVars
    BY <1>0, <1>1, <1>10 DEF tableVars, TableTypeOK
  <1> QED
    BY <1>2, <1>3, <1>4, <1>5, <1>6, <1>7, <1>8, <1>9, <1>10 DEF TableNext, Writes

-----------------------------------------------------------------------------
(* The index.                                                              *)

LEMMA FlushBehindStep ==
    TableTypeOK /\ IdsInOrder /\ FlushBehind /\ SyncKnown /\ [TableNext]_tableVars => FlushBehind'
  <1> SUFFICES ASSUME TableTypeOK, IdsInOrder, FlushBehind, SyncKnown, [TableNext]_tableVars PROVE FlushBehind'
    OBVIOUS
  <1>1. /\ Cardinality(rows) \in Nat /\ Cardinality(rows') \in Nat
        /\ Cardinality(rows') >= Cardinality(rows) /\ flush \in FlushStates /\ flush.total \in Nat
    BY RowsStep, FS_CardinalityType DEF TableTypeOK, FlushStates
  <1>2. ASSUME UNCHANGED flush PROVE FlushBehind'
    BY <1>1, <1>2 DEF FlushBehind
  <1>3. CASE FlushCount
    <2>1. flush'.at = "select" /\ flush'.total = Cardinality(rows)
      BY <1>3 DEF FlushCount, NoFlush
    <2> QED
      BY <1>1, <2>1 DEF FlushBehind
  <1>4. CASE FlushSelect
    <2>1. /\ flush'.at = "reset" /\ flush'.total = flush.total /\ flush.total <= Cardinality(rows)
          /\ flush'.rows = {r \in rows : r.id \in IdsUpTo(flush.total)}
      BY <1>1, <1>4 DEF FlushSelect, FlushStates, FlushBehind
    <2>2. ASSUME NEW i \in 1 .. flush.total PROVE i \in IdsOf(flush'.rows)
      <3>1. i \in 1 .. Cardinality(rows) /\ i \in IdsUpTo(flush.total)
        BY <1>1, <2>1 DEF IdsUpTo
      <3>2. PICK r \in rows : r.id = i
        BY <3>1 DEF IdsInOrder, IdsOf
      <3> QED
        BY <2>1, <3>1, <3>2 DEF IdsOf
    <2>3. OneOfEachId(flush'.rows)
      BY <2>1 DEF IdsInOrder, OneOfEachId
    <2> QED
      BY <2>1, <2>2, <2>3 DEF FlushBehind
  <1>5. CASE Reset
    BY <1>5 DEF Reset, NoFlush, FlushBehind
  <1>6. CASE Writes \/ UNCHANGED tableVars
    BY <1>2, <1>6 DEF Writes, HostReport, ReportGet, ReportWrite, SyncRead, SyncAdd, SyncUpdate, SyncEnd,
                      MountHost, tableVars
  <1> QED
    BY <1>3, <1>4, <1>5, <1>6 DEF TableNext, Flush

LEMMA IndexKnownStep ==
    TableTypeOK /\ IdsInOrder /\ IndexKnown /\ [TableNext]_tableVars => IndexKnown'
  <1> SUFFICES ASSUME TableTypeOK, IdsInOrder, IndexKnown, [TableNext]_tableVars PROVE IndexKnown'
    OBVIOUS
  <1>1. ASSUME UNCHANGED <<head, flush>> PROVE IndexKnown'
    BY <1>1 DEF IndexKnown
  <1>2. CASE FlushCount
    <2>1. flush'.at = "select" /\ head' = head
      BY <1>2 DEF FlushCount, NoFlush
    <2> QED
      BY <2>1 DEF IndexKnown
  <1>3. CASE FlushSelect
    <2>1. flush'.rows \subseteq rows /\ head' = head
      BY <1>3 DEF FlushSelect, TableTypeOK, FlushStates
    <2>2. RowsOfIndex(rows)
      <3>1. Cardinality(rows) \in Nat /\ MaxRows \in Nat
        BY FS_CardinalityType, HostBounds DEF TableTypeOK
      <3> QED
        BY <3>1 DEF IdsInOrder, RowsOfIndex
    <2>3. RowsOfIndex(flush'.rows)
      BY <2>1, <2>2 DEF RowsOfIndex, IdsOf, OneOfEachId
    <2> QED
      BY <2>1, <2>3 DEF IndexKnown
  <1>4. CASE Reset
    <2>1. head' = flush.rows /\ flush.at = "reset" /\ flush'.at = "idle"
      BY <1>4 DEF Reset, NoFlush
    <2> QED
      BY <2>1 DEF IndexKnown
  <1>5. CASE Writes \/ UNCHANGED tableVars
    BY <1>1, <1>5 DEF Writes, HostReport, ReportGet, ReportWrite, SyncRead, SyncAdd, SyncUpdate, SyncEnd,
                      MountHost, tableVars
  <1> QED
    BY <1>2, <1>3, <1>4, <1>5 DEF TableNext, Flush

-----------------------------------------------------------------------------
(* Who inserts.                                                            *)

\* UPDATEs that keep every uid keep one row of each, and who has a row.
LEMMA KeepUids ==
    ASSUME NEW f, \A r \in rows : f[r].uid = r.uid, rows' = {f[r] : r \in rows}
    PROVE  /\ \A uid : HasRow(uid)' <=> HasRow(uid)
           /\ (\A r, o \in rows : r.uid = o.uid => r = o) => (\A r, o \in rows' : r.uid = o.uid => r = o)
  BY DEF HasRow

LEMMA OneInserterStep ==
    ASSUME TableTypeOK, IdsInOrder, SyncKnown, ~tangled => OneInserter, [TableNext]_tableVars, ~tangled'
    PROVE  OneInserter'
  <1>1. /\ rows \subseteq RowStates /\ report \in [Handlers -> ReportStates] /\ sync \in SyncStates
        /\ \A c \in Handlers : report[c].at # "idle" => report[c].in \in Reports
    BY DEF TableTypeOK
  <1>2. ASSUME ~tangled, UNCHANGED <<rows, report, sync>> PROVE OneInserter'
    BY <1>2 DEF OneInserter, HasRow
  <1>3. ASSUME NEW c \in Handlers, NEW in \in Reports, HostReport(c, in) PROVE OneInserter'
    <2>1. /\ ~tangled /\ \A d \in Handlers : report[d].at # "idle" => report[d].in.uid # in.uid
          /\ UNCHANGED <<rows, sync>>
          /\ report'[c].at = "get" /\ report'[c].in = in /\ \A d \in Handlers \ {c} : report'[d] = report[d]
      BY <1>1, <1>3 DEF HostReport
    <2> QED
      BY <2>1 DEF OneInserter, HasRow
  <1>4. ASSUME NEW c \in Handlers, ReportGet(c) PROVE OneInserter'
    <2>1. /\ ~tangled /\ UNCHANGED <<rows, sync>> /\ report[c].at = "get"
          /\ \A d \in Handlers \ {c} : report'[d] = report[d]
      BY <1>1, <1>4 DEF ReportGet
    <2>2. \/ report'[c].at = "idle"
          \/ /\ report'[c].at = "write" /\ report'[c].in = report[c].in
             /\ report'[c].new = ({r \in rows : r.uid = report[c].in.uid} = {})
      <3> DEFINE new == ({r \in rows : r.uid = report[c].in.uid} = {})
      <3>1. \/ report' = [report EXCEPT ![c] = NoReport]
            \/ report' = [report EXCEPT ![c] = [report[c] EXCEPT !.at = "write", !.new = new]]
        BY <1>1, <1>4 DEF ReportGet
      <3>2. NoReport.at = "idle"
        BY DEF NoReport
      <3> HIDE DEF new
      <3>3. CASE report' = [report EXCEPT ![c] = NoReport]
        BY <1>1, <3>2, <3>3
      <3>4. CASE report' = [report EXCEPT ![c] = [report[c] EXCEPT !.at = "write", !.new = new]]
        <4>1. /\ report'[c].at = "write" /\ report'[c].in = report[c].in
              /\ report'[c].new = new
          BY <1>1, <3>4 DEF ReportStates
        <4> QED
          BY <4>1 DEF new
      <3> QED
        BY <3>1, <3>3, <3>4
    <2>3. report'[c].at = "write" /\ report'[c].new => ~HasRow(report[c].in.uid)
      BY <2>2 DEF HasRow
    <2>4. report'[c].at # "idle" => report'[c].in = report[c].in
      BY <2>2
    <2> QED
      BY <2>1, <2>3, <2>4 DEF OneInserter, HasRow
  <1>5. ASSUME NEW c \in Handlers, ReportWrite(c) PROVE OneInserter'
    <2> DEFINE in == report[c].in
    <2>1. /\ ~tangled /\ report[c].new /\ report[c].at = "write" /\ UNCHANGED tangled
          /\ InsertRow(in.uid, in.spec, in.ip, NoValue, NoValue)
          /\ report' = [report EXCEPT ![c] = NoReport] /\ sync' = [sync EXCEPT !.alone = FALSE]
      BY <1>5 DEF ReportWrite
    <2>2. in \in Reports /\ in \in Hosts /\ NoValue \in Places
      BY <1>1, <2>1 DEF Hosts, Places
    <2>3. PICK new \in RowStates : rows' = rows \cup {new} /\ new.uid = in.uid
      BY <2>1, <2>2, InsertFacts
    <2>4. /\ report'[c].at = "idle" /\ \A d \in Handlers \ {c} : report'[d] = report[d]
          /\ sync'.add = sync.add
      BY <1>1, <2>1 DEF NoReport, SyncStates
    <2>5. ~HasRow(in.uid)
      BY <2>1 DEF OneInserter
    <2>6. \A d \in Handlers \ {c} : report[d].at # "idle" => report[d].in.uid # in.uid
      BY <2>1 DEF OneInserter
    <2>7. \A d \in sync.add : d.uid # in.uid
      BY <1>1, <2>2, UidsApart DEF SyncStates
    <2>8. \A uid : HasRow(uid)' => HasRow(uid) \/ uid = in.uid
      BY <2>3 DEF HasRow
    <2>9. \A r, o \in rows' : r.uid = o.uid => r = o
      BY <2>1, <2>3, <2>5 DEF OneInserter, HasRow
    <2> QED
      BY <2>1, <2>4, <2>6, <2>7, <2>8, <2>9 DEF OneInserter
  <1>6. ASSUME NEW list \in CloudLists, SyncRead(list) PROVE OneInserter'
    <2>1. ~tangled /\ UNCHANGED <<rows, report>> /\ sync'.add = {d \in list : IsNew(d)}
      BY <1>6 DEF SyncRead
    <2>2. \A d \in sync'.add : ~HasRow(d.uid)
      BY <2>1 DEF IsNew, HasRow
    <2> QED
      BY <2>1, <2>2 DEF OneInserter, HasRow
  <1>7. ASSUME NEW d \in CloudHosts, SyncAdd(d) PROVE OneInserter'
    <2>1. /\ ~tangled /\ UNCHANGED report /\ d \in sync.add /\ sync'.add = sync.add \ {d}
          /\ InsertRow(d.uid, d.spec, d.ip, d.region, d.mount)
      BY <1>1, <1>7 DEF SyncAdd, SyncStates
    <2>2. d \in Hosts /\ d.region \in Places /\ d.mount \in Places
      BY DEF Hosts, Places
    <2>3. PICK new \in RowStates : rows' = rows \cup {new} /\ new.uid = d.uid
      BY <2>1, <2>2, InsertFacts
    <2>4. ~HasRow(d.uid)
      BY <2>1 DEF OneInserter
    <2>5. \A c \in Handlers : report[c].at = "write" => report[c].in.uid # d.uid
      BY <1>1, UidsApart
    <2>6. \A e \in sync'.add : e.uid # d.uid
      BY <2>1 DEF SyncKnown, CloudLists
    <2>7. \A uid : HasRow(uid)' => HasRow(uid) \/ uid = d.uid
      BY <2>3 DEF HasRow
    <2>8. \A r, o \in rows' : r.uid = o.uid => r = o
      BY <2>1, <2>3, <2>4 DEF OneInserter, HasRow
    <2> QED
      BY <2>1, <2>5, <2>6, <2>7, <2>8 DEF OneInserter
  <1>8. ASSUME NEW f, \A r \in rows : f[r].uid = r.uid, rows' = {f[r] : r \in rows},
               ~tangled, UNCHANGED report, sync'.add = sync.add
        PROVE  OneInserter'
    <2>1. /\ \A uid : HasRow(uid)' <=> HasRow(uid)
          /\ (\A r, o \in rows : r.uid = o.uid => r = o) => (\A r, o \in rows' : r.uid = o.uid => r = o)
      BY <1>8, KeepUids
    <2> QED
      BY <1>8, <2>1 DEF OneInserter
  <1>9. ASSUME NEW d \in CloudHosts, SyncUpdate(d) PROVE OneInserter'
    <2> DEFINE f == [r \in rows |-> IF r.uid = d.uid
                       THEN [id |-> r.id, uid |-> r.uid, spec |-> d.spec, ip |-> d.ip,
                             region |-> d.region, mount |-> d.mount] ELSE r]
    <2>1. rows' = {f[r] : r \in rows} /\ ~tangled /\ UNCHANGED report /\ sync'.add = sync.add
      BY <1>1, <1>9 DEF SyncUpdate, SyncStates
    <2>2. \A r \in rows : f[r].uid = r.uid
      OBVIOUS
    <2> HIDE DEF f
    <2> QED
      BY <1>8, <2>1, <2>2
  <1>10. ASSUME NEW r0 \in rows, NEW m, MountHost(r0.id, m) PROVE OneInserter'
    <2> DEFINE f == [r \in rows |-> IF r.id = r0.id THEN [r EXCEPT !.mount = m] ELSE r]
    <2>1. rows' = {f[r] : r \in rows} /\ ~tangled /\ UNCHANGED <<report, sync>>
      BY <1>10 DEF MountHost
    <2>2. \A r \in rows : f[r].uid = r.uid
      BY <1>1 DEF RowStates
    <2> HIDE DEF f
    <2> QED
      BY <1>8, <2>1, <2>2
  <1>11. CASE SyncEnd
    <2>1. ~tangled /\ UNCHANGED <<rows, report>> /\ sync'.add = {}
      BY <1>11 DEF SyncEnd, NoSync
    <2> QED
      BY <2>1 DEF OneInserter, HasRow
  <1>12. CASE Flush \/ UNCHANGED tableVars
    BY <1>2, <1>12 DEF Flush, FlushCount, FlushSelect, Reset, tableVars
  <1> QED
    BY <1>3, <1>4, <1>5, <1>6, <1>7, <1>9, <1>10, <1>11, <1>12 DEF TableNext, Writes

-----------------------------------------------------------------------------
(* The synchronisation.                                                    *)

\* A host that is neither new nor changed is in the table as listed.
LEMMA NeitherNewNorChanged ==
    ASSUME TableTypeOK, IdsInOrder, NEW d, ~IsNew(d), ~IsChanged(d)
    PROVE  \E r \in rows : r.uid = d.uid /\ r.spec = d.spec
  <1> DEFINE same == {r \in rows : r.uid = d.uid}
             ids == {r.id : r \in same}
             n == Cardinality(rows)
  <1>1. PICK r0 \in rows : r0.uid = d.uid
    BY DEF IsNew
  <1>2. n \in Nat /\ \A r \in rows : r.id \in 1 .. n
    BY FS_CardinalityType DEF TableTypeOK, IdsInOrder, IdsOf
  <1>3. ids \in SUBSET Nat /\ ids # {} /\ \A x \in ids : x <= n
    <2>1. \A x \in ids : x \in 1 .. n
      BY <1>2
    <2>2. r0.id \in ids
      BY <1>1
    <2> QED
      BY <1>2, <2>1, <2>2
  <1> HIDE DEF n
  <1>4. PICK m \in ids : \A x \in ids : x <= m
    <2> HIDE DEF ids
    <2> QED
      BY <1>2, <1>3, GreatestOf
  <1>5. PICK r \in rows : r.uid = d.uid /\ r.id = m
    OBVIOUS
  <1>6. \A o \in rows : o.uid = d.uid => o.id <= r.id
    BY <1>4, <1>5
  <1> QED
    BY <1>5, <1>6 DEF IsChanged

LEMMA SyncKnownStep ==
    TableTypeOK /\ IdsInOrder /\ SyncKnown /\ [TableNext]_tableVars => SyncKnown'
  <1> SUFFICES ASSUME TableTypeOK, IdsInOrder, SyncKnown, [TableNext]_tableVars PROVE SyncKnown'
    OBVIOUS
  <1>1. rows \subseteq RowStates /\ sync \in SyncStates
    BY DEF TableTypeOK
  <1>2. ASSUME UNCHANGED <<rows, sync>> PROVE SyncKnown'
    BY <1>2 DEF SyncKnown, HasRow
  <1>3. ASSUME NEW c \in Handlers, ReportWrite(c) PROVE SyncKnown'
    <2>1. /\ sync'.alone = FALSE /\ sync'.list = sync.list /\ sync'.add = sync.add
          /\ sync'.update = sync.update /\ sync'.at = sync.at
      BY <1>1, <1>3 DEF ReportWrite, SyncStates
    <2> QED
      BY <2>1 DEF SyncKnown
  <1>4. ASSUME NEW list \in CloudLists, SyncRead(list) PROVE SyncKnown'
    <2>1. /\ sync'.at = "write" /\ sync'.list = list /\ sync'.add = {d \in list : IsNew(d)}
          /\ sync'.update = {d \in list : IsChanged(d)} /\ UNCHANGED rows
      BY <1>4 DEF SyncRead
    <2>2. \A d \in sync'.update : HasRow(d.uid)
      BY <2>1 DEF IsChanged, HasRow
    <2>3. \A d \in list \ (sync'.add \cup sync'.update) : \E r \in rows : r.uid = d.uid /\ r.spec = d.spec
      BY <2>1, NeitherNewNorChanged
    <2>4. sync'.add \cup sync'.update \subseteq list
      BY <2>1
    <2> QED
      BY <2>1, <2>2, <2>3, <2>4 DEF SyncKnown, HasRow
  <1>5. ASSUME NEW d \in CloudHosts, SyncAdd(d) PROVE SyncKnown'
    <2>1. /\ d \in sync.add /\ sync'.add = sync.add \ {d} /\ sync'.update = sync.update
          /\ sync'.list = sync.list /\ sync'.at = sync.at /\ sync'.alone = sync.alone
          /\ InsertRow(d.uid, d.spec, d.ip, d.region, d.mount)
      BY <1>1, <1>5 DEF SyncAdd, SyncStates
    <2>2. d \in Hosts /\ d.region \in Places /\ d.mount \in Places
      BY DEF Hosts, Places
    <2>3. PICK new \in RowStates : rows' = rows \cup {new} /\ new.uid = d.uid /\ new.spec = d.spec
      BY <2>1, <2>2, InsertFacts
    <2>4. \A e \in sync.list \ (sync'.add \cup sync'.update) :
              e = d \/ e \in sync.list \ (sync.add \cup sync.update)
      BY <2>1
    <2>5. sync.list \in CloudLists /\ sync'.add \cup sync'.update \subseteq sync.list
          /\ (sync.at = "idle" => sync.list = {})
      BY <2>1 DEF SyncKnown
    <2>6. ASSUME sync.alone
          PROVE  /\ \A e \in sync'.update : HasRow(e.uid)'
                 /\ \A e \in sync.list \ (sync'.add \cup sync'.update) :
                        \E r \in rows' : r.uid = e.uid /\ r.spec = e.spec
      BY <2>1, <2>3, <2>4, <2>6 DEF SyncKnown, HasRow
    <2> QED
      BY <2>1, <2>5, <2>6 DEF SyncKnown
  <1>6. ASSUME NEW d \in CloudHosts, SyncUpdate(d) PROVE SyncKnown'
    <2> DEFINE f == [r \in rows |-> IF r.uid = d.uid
                       THEN [id |-> r.id, uid |-> r.uid, spec |-> d.spec, ip |-> d.ip,
                             region |-> d.region, mount |-> d.mount] ELSE r]
    <2>1. /\ d \in sync.update /\ sync'.update = sync.update \ {d} /\ sync'.add = sync.add
          /\ sync'.list = sync.list /\ sync'.at = sync.at /\ sync'.alone = sync.alone
          /\ rows' = {f[r] : r \in rows}
      BY <1>1, <1>6 DEF SyncUpdate, SyncStates
    <2>2. \A r \in rows : /\ f[r].uid = r.uid
                          /\ r.uid = d.uid => f[r].spec = d.spec
                          /\ r.uid # d.uid => f[r] = r
      OBVIOUS
    <2> HIDE DEF f
    <2>3. \A uid : HasRow(uid)' <=> HasRow(uid)
      BY <2>1, <2>2, KeepUids
    <2>4. sync.list \in CloudLists /\ sync'.add \cup sync'.update \subseteq sync.list
          /\ (sync.at = "idle" => sync.list = {})
      BY <2>1 DEF SyncKnown
    <2>5. ASSUME sync.alone, NEW e \in sync.list \ (sync'.add \cup sync'.update)
          PROVE  \E r \in rows' : r.uid = e.uid /\ r.spec = e.spec
      <3>1. CASE e = d
        <4>1. PICK r \in rows : r.uid = d.uid
          BY <2>1, <2>5 DEF SyncKnown, HasRow
        <4> QED
          BY <2>1, <2>2, <3>1, <4>1
      <3>2. CASE e # d
        <4>1. PICK r \in rows : r.uid = e.uid /\ r.spec = e.spec
          BY <2>1, <2>5, <3>2 DEF SyncKnown
        <4>2. e.uid # d.uid
          BY <2>1, <2>5, <3>2 DEF SyncKnown, CloudLists
        <4> QED
          BY <2>1, <2>2, <4>1, <4>2
      <3> QED
        BY <3>1, <3>2
    <2>6. ASSUME sync.alone PROVE \A e \in sync'.update : HasRow(e.uid)'
      BY <2>1, <2>3, <2>6 DEF SyncKnown
    <2> QED
      BY <2>1, <2>4, <2>5, <2>6 DEF SyncKnown
  <1>7. CASE SyncEnd
    <2>1. /\ sync'.list = {} /\ sync'.add = {} /\ sync'.update = {}
      BY <1>7 DEF SyncEnd, NoSync
    <2>2. {} \in CloudLists
      BY DEF CloudLists
    <2> QED
      BY <2>1, <2>2 DEF SyncKnown
  <1>8. ASSUME NEW r0 \in rows, NEW m, MountHost(r0.id, m) PROVE SyncKnown'
    <2> DEFINE f == [r \in rows |-> IF r.id = r0.id THEN [r EXCEPT !.mount = m] ELSE r]
    <2>1. rows' = {f[r] : r \in rows} /\ UNCHANGED sync
      BY <1>8 DEF MountHost
    <2>2. \A r \in rows : f[r].uid = r.uid /\ f[r].spec = r.spec
      BY <1>1 DEF RowStates
    <2> HIDE DEF f
    <2>3. \A uid : HasRow(uid)' <=> HasRow(uid)
      BY <2>1, <2>2, KeepUids
    <2> QED
      BY <2>1, <2>2, <2>3 DEF SyncKnown
  <1>9. ASSUME NEW c \in Handlers, (\E in \in Reports : HostReport(c, in)) \/ ReportGet(c) PROVE SyncKnown'
    BY <1>2, <1>9 DEF HostReport, ReportGet
  <1>10. CASE Flush \/ UNCHANGED tableVars
    BY <1>2, <1>10 DEF Flush, FlushCount, FlushSelect, Reset, tableVars
  <1> QED
    BY <1>3, <1>4, <1>5, <1>6, <1>7, <1>8, <1>9, <1>10 DEF TableNext, Writes

-----------------------------------------------------------------------------
(* What holds of a query at every step.                                    *)

\* The rows it may have met, and those whose labels are the same in all the heads it has met.
SeenRows == UNION query.seen
SeenIds == UNION {IdsOf(h) : h \in query.seen}
SameLabels(x, r) == x.id = r.id /\ \A n \in Names : LabelOf(x, n) = LabelOf(r, n)
Stable(r) == \A o \in query.seen : \E x \in o : SameLabels(x, r)

\* A part asks for a value of its label; it has the answer it wants for a value.
AsksFor(part, v) == IF IsDirect(part) THEN v \in DirectValues(part) ELSE Matches(part.m, v) = part.match
Wants(part, v) == AsksFor(part, v) <=> ~part.minus

PartAt(ms, k) == PartOf(ms, ms[k])
LabelFor(ms, k, r) == LabelOf(r, ms[k].name)

Answered == Len(query.its) + Len(query.notIts)

\* The lists that have been read: those of a matcher each are in order, of ids of hosts.
ListsKnown ==
    /\ ListsOfAll(query.its, MaxRows) /\ ListsOfAll(query.notIts, MaxRows) /\ ListsOf(query.got, MaxRows)
    /\ \A k \in DOMAIN query.its : IdsOfLists(query.its[k]) \subseteq SeenIds
    /\ IdsOfLists(query.got) \subseteq SeenIds

\* The parts that have been answered, in order.
PartsKnown ==
    /\ Answered <= Len(query.ms) /\ (query.at = "postings" => Answered < Len(query.ms))
    /\ query.its = <<>> <=> \A k \in 1 .. Answered : PartAt(query.ms, k).minus
    /\ query.notIts = <<>> <=> \A k \in 1 .. Answered : ~PartAt(query.ms, k).minus

\* Which of them a host is in the answer of, if its labels stay the same.
IsFound(r) == \A k \in DOMAIN query.its : r.id \in IdsOfLists(query.its[k])
IsDropped(r) == \E k \in DOMAIN query.notIts : r.id \in IdsOfLists(query.notIts[k])
Asked(k, r) == AsksFor(PartAt(query.ms, k), LabelFor(query.ms, k, r))
StableFound(r) ==
    /\ IsFound(r) <=> \A k \in 1 .. Answered : ~PartAt(query.ms, k).minus => Asked(k, r)
    /\ IsDropped(r) <=> \E k \in 1 .. Answered : PartAt(query.ms, k).minus /\ Asked(k, r)
    /\ query.at = "postings" =>
         (Asked(Current, r) <=> r.id \in IdsOfLists(query.got) \/ LabelFor(query.ms, Current, r) \in query.want)

Asking == ListsKnown /\ PartsKnown /\ \A r \in SeenRows : Stable(r) => StableFound(r)

QueryFields == {"at", "ms", "want", "got", "its", "notIts", "ids", "seen"}

Running ==
    /\ query.at \in {"values", "postings", "done"} /\ DOMAIN query = QueryFields
    /\ query.ms \in Queries
    /\ head \in query.seen /\ \A h \in query.seen : RowsOfIndex(h)
    /\ query.at \in {"values", "postings"} => Asking
    /\ StableHostsRight

QueryInv == query = NoQuery \/ Running

-----------------------------------------------------------------------------
(* The index of some rows.                                                 *)

LEMMA BuildMoved ==
    ASSUME NEW T, NEW U, NEW s \in T, NEW l \in U
    PROVE  LET new == [left |-> s, list |-> l]
           IN  new \in [left : T, list : U] /\ new.left = s /\ new.list = l
  OBVIOUS

\* FlushIndex puts every id it has read into the list, in order.
LEMMA IndexedFacts ==
    ASSUME NEW ids \in SUBSET (1 .. MaxRows), NEW times
    PROVE  ListOf(Indexed(ids, times), MaxRows) /\ IdsOfList(Indexed(ids, times)) = ids
  <1> DEFINE n == MaxRows
             begun == [left |-> ids, list |-> <<>>]
             Inv == {b \in Builds : /\ b.left \subseteq ids /\ ListOf(b.list, n)
                                    /\ IdsOfList(b.list) \cup b.left = ids}
             m == [b \in Builds |-> b.left]
             end == While(Builds, RowsLeft, IndexRow(times))[begun]
  <1>0. n \in Nat /\ IsFiniteSet(1 .. n)
    BY HostBounds, FS_Interval
  <1>1. begun \in Inv
    <2>1. <<>> \in Seq(Nat) /\ DOMAIN <<>> = {}
      BY EmptySeq
    <2>2. ListOf(<<>>, n) /\ IdsOfList(<<>>) = {}
      BY <2>1 DEF ListOf, InOrder, IdsOfList
    <2>3. ids \in SUBSET Nat
      BY <1>0
    <2>4. begun \in Builds /\ begun.left = ids /\ begun.list = <<>>
      BY <2>1, <2>3, BuildMoved DEF Builds
    <2> QED
      BY <2>2, <2>4
  <1>2. \A b \in Inv : IsFiniteSet(m[b])
    <2>1. ASSUME NEW b \in Inv PROVE IsFiniteSet(m[b])
      <3>1. b \in Builds /\ b.left \subseteq ids /\ m[b] = b.left
        OBVIOUS
      <3>2. b.left \in SUBSET (1 .. n)
        BY <3>1
      <3> QED
        BY <1>0, <3>1, <3>2, FS_Subset
    <2> QED
      BY <2>1
  <1>3. ASSUME NEW b \in Inv, RowsLeft[b]
        PROVE  /\ IndexRow(times)[b] \in Inv
               /\ m[IndexRow(times)[b]] \subseteq m[b] /\ m[IndexRow(times)[b]] # m[b]
    <2> DEFINE id == Earliest(b.left)
               once == AddFor(b.list, id)
               left == b.left \ {id}
               list == IF times = 1 THEN once ELSE AddFor(AddFor(once, id), id)
               new == [left |-> left, list |-> list]
    <2>1. /\ b \in Builds /\ b.left \subseteq ids /\ ListOf(b.list, n)
          /\ IdsOfList(b.list) \cup b.left = ids /\ b.left # {}
      BY <1>3 DEF RowsLeft
    <2>2. id \in b.left
      <3>1. b.left \in SUBSET (1 .. MaxRows)
        BY <2>1
      <3> QED
        BY <2>1, <3>1, EarliestIsOneOf
    <2>3. id \in Nat /\ id <= n
      BY <1>0, <2>1, <2>2
    <2>4. IndexRow(times)[b] = new
      BY <2>1 DEF IndexRow
    <2> HIDE DEF id
    <2>5. ListOf(once, n) /\ IdsOfList(once) = IdsOfList(b.list) \cup {id}
      BY <1>0, <2>1, <2>3, AddForFacts
    <2> HIDE DEF once
    <2>6. ListOf(list, n) /\ IdsOfList(list) = IdsOfList(b.list) \cup {id}
      <3>1. /\ ListOf(AddFor(once, id), n)
            /\ IdsOfList(AddFor(once, id)) = IdsOfList(once) \cup {id}
        BY <1>0, <2>3, <2>5, AddForFacts
      <3> DEFINE twice == AddFor(once, id)
      <3> HIDE DEF twice
      <3>2. ListOf(twice, n) /\ IdsOfList(twice) = IdsOfList(once) \cup {id}
        BY <3>1 DEF twice
      <3>3. ListOf(AddFor(twice, id), n) /\ IdsOfList(AddFor(twice, id)) = IdsOfList(twice) \cup {id}
        BY <1>0, <2>3, <3>2, AddForFacts
      <3> QED
        BY <2>5, <3>2, <3>3 DEF twice
    <2> HIDE DEF list
    <2>7. list \in Seq(Nat)
      BY <2>6 DEF ListOf
    <2>8. left \in SUBSET Nat
      <3>1. \A x \in 1 .. n : x \in Nat
        BY <1>0
      <3> QED
        BY <2>1, <3>1
    <2>9. new \in Builds /\ new.left = left /\ new.list = list
      BY <2>7, <2>8, BuildMoved DEF Builds
    <2>10. left \subseteq ids /\ IdsOfList(list) \cup left = ids
      BY <2>1, <2>2, <2>6
    <2> HIDE DEF new
    <2>11. new \in Inv /\ m[new] = left /\ m[b] = b.left
      BY <2>1, <2>6, <2>9, <2>10
    <2> QED
      BY <2>2, <2>4, <2>11
  <1>4. Inv \in SUBSET Builds
    OBVIOUS
  <1> DEFINE step == IndexRow(times)
  <1> HIDE DEF Inv, m, begun, step
  <1>5. \A b \in Inv : RowsLeft[b] => /\ step[b] \in Inv
                                      /\ m[step[b]] \subseteq m[b] /\ m[step[b]] # m[b]
    BY <1>3 DEF step
  <1>6. While(Builds, RowsLeft, step)[begun] \in Inv /\ ~RowsLeft[While(Builds, RowsLeft, step)[begun]]
    BY <1>1, <1>2, <1>4, <1>5, LoopRule
  <1>7. end \in Inv /\ ~RowsLeft[end]
    BY <1>6 DEF step
  <1>8. Indexed(ids, times) = end.list
    BY DEF Indexed, begun
  <1> HIDE DEF end
  <1>9. end.left = {}
    BY <1>7 DEF Inv, RowsLeft
  <1> QED
    BY <1>7, <1>8, <1>9 DEF Inv

LEMMA PostingsFacts ==
    ASSUME NEW h, RowsOfIndex(h), NEW n, NEW v
    PROVE  LET l == PostingsOf(h, n, v)
           IN  /\ ListOf(l, MaxRows) /\ IdsOfList(l) \subseteq IdsOf(h)
               /\ \A r \in h : r.id \in IdsOfList(l) <=> LabelOf(r, n) = v
  <1> DEFINE ids == {r.id : r \in {x \in h : LabelOf(x, n) = v}}
             l == PostingsOf(h, n, v)
  <1>1. ids \subseteq IdsOf(h) /\ ids \in SUBSET (1 .. MaxRows)
    BY DEF RowsOfIndex, IdsOf
  <1>2. l = Indexed(ids, 1)
    BY DEF PostingsOf
  <1>3. \A r \in h : r.id \in ids <=> LabelOf(r, n) = v
    BY DEF RowsOfIndex, OneOfEachId
  <1> HIDE DEF ids, l
  <1>4. ListOf(l, MaxRows) /\ IdsOfList(l) = ids
    BY <1>1, <1>2, IndexedFacts
  <1> QED
    BY <1>1, <1>3, <1>4 DEF l

LEMMA AllIdsFacts ==
    ASSUME NEW h, RowsOfIndex(h)
    PROVE  ListOf(AllIds(h), MaxRows) /\ IdsOfList(AllIds(h)) = IdsOf(h)
  <1>1. IdsOf(h) \in SUBSET (1 .. MaxRows) /\ AllIds(h) = Indexed(IdsOf(h), 3)
    BY DEF RowsOfIndex, AllIds, IdsOf
  <1> QED
    BY <1>1, IndexedFacts

-----------------------------------------------------------------------------
(* Matchers.                                                               *)

MatchersOf(V) == [type : MatchTypes, name : Names, values : SUBSET V, literal : BOOLEAN]

LEMMA QueryType ==
    ASSUME NEW ms \in Queries
    PROVE  /\ Len(ms) \in Nat /\ DOMAIN ms = 1 .. Len(ms) /\ (ms = <<>> <=> Len(ms) = 0)
           /\ \E V : \A k \in 1 .. Len(ms) : ms[k] \in MatchersOf(V)
  <1> DEFINE V == UNION {ms[k].values : k \in DOMAIN ms}
             M == MatchersOf(V)
  <1>1. ms \in Seq(M)
    BY QueriesOfMatchers DEF MatchersOf
  <1> HIDE DEF V
  <1>2. Len(ms) \in Nat /\ DOMAIN ms = 1 .. Len(ms) /\ \A k \in 1 .. Len(ms) : ms[k] \in M
    <2> HIDE DEF M
    <2> QED
      BY <1>1, LenProperties, ElementOfSeq
  <1> QED
    BY <1>1, <1>2, EmptySeq

LEMMA InverseFacts ==
    ASSUME NEW V, NEW m \in MatchersOf(V)
    PROVE  LET im == Inverse_(m)
           IN  /\ im \in MatchersOf(V) /\ im.name = m.name /\ im.values = m.values
               /\ im.literal = m.literal
               /\ Negative(im) <=> ~Negative(m)
  <1> DEFINE t == CASE m.type = "=" -> "!=" [] m.type = "!=" -> "=" [] m.type = "=~" -> "!~" [] OTHER -> "=~"
             im == [m EXCEPT !.type = t]
  <1>1. m.type \in MatchTypes
    BY DEF MatchersOf
  <1>2. t \in MatchTypes /\ (t \in {"!=", "!~"} <=> ~(m.type \in {"!=", "!~"}))
    BY <1>1 DEF MatchTypes
  <1>3. Inverse_(m) = im
    BY DEF Inverse_
  <1> HIDE DEF t
  <1>4. im \in MatchersOf(V) /\ im.name = m.name /\ im.values = m.values /\ im.literal = m.literal /\ im.type = t
    BY <1>2 DEF MatchersOf
  <1> HIDE DEF im
  <1> QED
    BY <1>2, <1>3, <1>4 DEF Negative

\* What a part asks for, and what that says of its matcher.
LEMMA PartFacts ==
    ASSUME NEW ms, NEW V, NEW m \in MatchersOf(V), NEW v
    PROVE  LET part == PartOf(ms, m)
           IN  /\ part.m.name = m.name /\ part.minus \in BOOLEAN
               /\ Wants(part, v) => Matches(m, v)
               /\ Matches(m, v) /\ (v = NoValue => m.name \notin MustBeSet(ms)) => Wants(part, v)
  <1> DEFINE part == PartOf(ms, m)
             im == Inverse_(m)
  <1>1. /\ im.name = m.name /\ im.values = m.values /\ im.literal = m.literal
        /\ Negative(im) <=> ~Negative(m)
    BY InverseFacts
  <1>2. \A x : Matches(m, x) <=> (x \in m.values <=> ~Negative(m))
    BY DEF Matches, Negative
  <1>3. \A x : Matches(im, x) <=> ~Matches(m, x)
    BY <1>1 DEF Matches, Negative
  <1> HIDE DEF im
  <1>4. CASE m.name \notin MustBeSet(ms)
    <2>1. part.m = m /\ part.match = FALSE /\ part.minus = TRUE
      BY <1>4 DEF PartOf, Part
    <2>2. Wants(part, v) <=> Matches(m, v)
      BY <2>1 DEF Wants, AsksFor, IsDirect, Matches
    <2> QED
      BY <2>1, <2>2
  <1>5. CASE m.name \in MustBeSet(ms) /\ ~Negative(m)
    <2>1. part.m = m /\ part.match = TRUE /\ part.minus = FALSE
      BY <1>5 DEF PartOf, Part
    <2>2. Wants(part, v) <=> IF IsDirect(part) THEN v \in DirectValues(part) ELSE Matches(m, v) = TRUE
      BY <2>1 DEF Wants, AsksFor
    <2>3. CASE IsDirect(part)
      <3>1. DirectValues(part) \subseteq m.values /\ m.values \subseteq DirectValues(part) \cup {NoValue}
        BY <2>1 DEF DirectValues
      <3> QED
        BY <1>2, <1>5, <2>1, <2>2, <2>3, <3>1
    <2>4. CASE ~IsDirect(part)
      BY <2>1, <2>2, <2>4 DEF Matches
    <2> QED
      BY <2>3, <2>4
  <1>6. CASE m.name \in MustBeSet(ms) /\ Negative(m) /\ Matches(m, NoValue)
    <2>1. part.m = im /\ part.match = TRUE /\ part.minus = TRUE
      BY <1>6 DEF PartOf, Part, im
    <2>2. Wants(part, v) <=> ~(IF IsDirect(part) THEN v \in DirectValues(part) ELSE Matches(im, v) = TRUE)
      BY <2>1 DEF Wants, AsksFor
    <2>3. CASE IsDirect(part)
      <3>1. NoValue \notin m.values
        BY <1>2, <1>6
      <3>2. DirectValues(part) = m.values
        BY <1>1, <2>1, <3>1 DEF DirectValues
      <3> QED
        BY <1>1, <1>2, <1>6, <2>1, <2>2, <2>3, <3>2
    <2>4. CASE ~IsDirect(part)
      BY <1>1, <1>3, <2>1, <2>2, <2>4 DEF Matches
    <2> QED
      BY <2>3, <2>4
  <1>7. CASE m.name \in MustBeSet(ms) /\ Negative(m) /\ ~Matches(m, NoValue)
    <2>1. part.m = im /\ part.match = FALSE /\ part.minus = FALSE
      BY <1>7 DEF PartOf, Part, im
    <2>2. Wants(part, v) <=> Matches(m, v)
      BY <1>3, <2>1 DEF Wants, AsksFor, IsDirect, Matches
    <2> QED
      BY <1>1, <2>1, <2>2
  <1> QED
    BY <1>4, <1>5, <1>6, <1>7

\* A host satisfies all matchers when it is where each part wants it to be.
LEMMA WantsAreMatches ==
    ASSUME NEW ms \in Queries, NEW r
    PROVE  (\A k \in 1 .. Len(ms) : Wants(PartAt(ms, k), LabelFor(ms, k, r))) <=> Satisfies(ms, r)
  <1>1. DOMAIN ms = 1 .. Len(ms)
    BY QueryType
  <1>2. PICK V : \A k \in 1 .. Len(ms) : ms[k] \in MatchersOf(V)
    BY QueryType
  <1>3. ASSUME NEW k \in 1 .. Len(ms)
        PROVE  LET v == LabelFor(ms, k, r)
               IN  /\ Wants(PartAt(ms, k), v) => Matches(ms[k], v)
                   /\ Matches(ms[k], v) /\ (v = NoValue => ms[k].name \notin MustBeSet(ms))
                      => Wants(PartAt(ms, k), v)
    BY <1>2, PartFacts DEF PartAt
  <1>4. ASSUME Satisfies(ms, r), NEW k \in 1 .. Len(ms), LabelFor(ms, k, r) = NoValue
        PROVE  ms[k].name \notin MustBeSet(ms)
    BY <1>1, <1>4 DEF MustBeSet, Satisfies, LabelFor
  <1>5. Satisfies(ms, r) <=> \A k \in 1 .. Len(ms) : Matches(ms[k], LabelFor(ms, k, r))
    BY <1>1 DEF Satisfies, LabelFor
  <1> QED
    BY <1>3, <1>4, <1>5

-----------------------------------------------------------------------------
(* The steps of a query.                                                   *)

LEMMA AppendFacts ==
    ASSUME NEW T, NEW s \in Seq(T), NEW e \in T
    PROVE  LET new == Append(s, e)
           IN  /\ new \in Seq(T) /\ new # <<>> /\ Len(s) \in Nat /\ Len(new) = Len(s) + 1
               /\ DOMAIN new = DOMAIN s \cup {Len(s) + 1}
               /\ \A k \in DOMAIN s : new[k] = s[k]
               /\ new[Len(s) + 1] = e
  <1>1. Len(s) \in Nat /\ DOMAIN s = 1 .. Len(s)
    BY LenProperties
  <1>2. /\ Append(s, e) \in Seq(T) /\ Len(Append(s, e)) = Len(s) + 1
        /\ \A k \in 1 .. Len(s) : Append(s, e)[k] = s[k] /\ Append(s, e)[Len(s) + 1] = e
        /\ Append(s, e)[Len(s) + 1] = e
    BY AppendProperties
  <1>3. DOMAIN Append(s, e) = 1 .. (Len(s) + 1)
    BY <1>2, LenProperties
  <1>4. 1 .. (Len(s) + 1) = (1 .. Len(s)) \cup {Len(s) + 1}
    BY <1>1
  <1>5. Append(s, e) # <<>>
    BY <1>1, <1>2, EmptySeq
  <1> QED
    BY <1>1, <1>2, <1>3, <1>4, <1>5

LEMMA AppendList ==
    ASSUME NEW n, NEW ls, ListsOf(ls, n), NEW l, ListOf(l, n)
    PROVE  ListsOf(Append(ls, l), n) /\ IdsOfLists(Append(ls, l)) = IdsOfLists(ls) \cup IdsOfList(l)
  <1> DEFINE new == Append(ls, l)
             L == Len(ls)
  <1>1. ls \in Seq(Seq(Nat)) /\ l \in Seq(Nat)
    BY DEF ListsOf, SeqOfLists, ListOf
  <1>2. /\ new \in Seq(Seq(Nat)) /\ DOMAIN new = DOMAIN ls \cup {L + 1}
        /\ \A k \in DOMAIN ls : new[k] = ls[k]
        /\ new[L + 1] = l
    <2> DEFINE T == Seq(Nat)
    <2> HIDE DEF T
    <2>1. ls \in Seq(T) /\ l \in T
      BY <1>1 DEF T
    <2>2. /\ new \in Seq(T) /\ DOMAIN new = DOMAIN ls \cup {L + 1}
          /\ \A k \in DOMAIN ls : new[k] = ls[k]
          /\ new[L + 1] = l
      BY <2>1, AppendFacts
    <2> QED
      BY <2>2 DEF T
  <1> HIDE DEF new, L
  <1>3. ListsOf(new, n)
    BY <1>2 DEF ListsOf, SeqOfLists
  <1>4. \A y : y \in IdsOfLists(new) <=> y \in IdsOfLists(ls) \cup IdsOfList(l)
    BY <1>2 DEF IdsOfLists
  <1> QED
    BY <1>3, <1>4 DEF new

LEMMA AppendFound ==
    ASSUME NEW n, NEW its, ListsOfAll(its, n), NEW ls, ListsOf(ls, n)
    PROVE  LET new == Append(its, ls)
           IN  /\ ListsOfAll(new, n) /\ new # <<>> /\ Len(its) \in Nat /\ Len(new) = Len(its) + 1
               /\ DOMAIN new = DOMAIN its \cup {Len(its) + 1}
               /\ \A k \in DOMAIN its : new[k] = its[k]
               /\ new[Len(its) + 1] = ls
  <1> DEFINE new == Append(its, ls)
  <1>1. its \in Seq(SeqOfLists) /\ ls \in SeqOfLists
    BY DEF ListsOfAll, ListsOf
  <1>2. /\ new \in Seq(SeqOfLists) /\ new # <<>> /\ Len(its) \in Nat /\ Len(new) = Len(its) + 1
        /\ DOMAIN new = DOMAIN its \cup {Len(its) + 1}
        /\ \A k \in DOMAIN its : new[k] = its[k]
        /\ new[Len(its) + 1] = ls
    BY <1>1, AppendFacts
  <1> HIDE DEF new
  <1>3. ListsOfAll(new, n)
    BY <1>2 DEF ListsOfAll
  <1> QED
    BY <1>2, <1>3 DEF new

LEMMA NoLists ==
    ASSUME NEW n
    PROVE  ListsOfAll(<<>>, n) /\ ListsOf(<<>>, n) /\ IdsOfLists(<<>>) = {} /\ DOMAIN <<>> = {} /\ Len(<<>>) = 0
  <1>1. <<>> \in Seq(SeqOfLists) /\ <<>> \in SeqOfLists /\ DOMAIN <<>> = {} /\ Len(<<>>) = 0
    BY EmptySeq DEF SeqOfLists
  <1> QED
    BY <1>1 DEF ListsOfAll, ListsOf, IdsOfLists

\* A query begins.
LEMMA QueryBegins ==
    ASSUME IndexKnown, NEW ms \in Queries, Query(ms)
    PROVE  QueryInv'
  <1>1. /\ query'.at = "values" /\ query'.ms = ms /\ query'.seen = {head} /\ query'.its = <<>>
        /\ query'.notIts = <<>> /\ query'.got = <<>> /\ DOMAIN query' = QueryFields /\ UNCHANGED head
    BY DEF Query, NoQuery, QueryFields, tableVars
  <1>2. Len(ms) \in Nat
    BY QueryType
  <1>3. Answered' = 0 /\ 1 .. Answered' = {}
    BY <1>1, NoLists DEF Answered
  <1>4. ListsKnown'
    BY <1>1, NoLists DEF ListsKnown
  <1>5. PartsKnown'
    BY <1>1, <1>2, <1>3 DEF PartsKnown
  <1>6. \A r \in SeenRows' : StableFound(r)'
    BY <1>1, <1>3, NoLists DEF StableFound, IsFound, IsDropped
  <1>7. StableHostsRight'
    BY <1>1 DEF StableHostsRight
  <1> QED
    BY <1>1, <1>4, <1>5, <1>6, <1>7 DEF QueryInv, Running, Asking, IndexKnown

\* The name of a matcher's part is that of the matcher, a label.
LEMMA PartName ==
    ASSUME NEW ms \in Queries, NEW k \in 1 .. Len(ms)
    PROVE  PartAt(ms, k).m.name = ms[k].name /\ ms[k].name \in Names /\ PartAt(ms, k).minus \in BOOLEAN
  <1>1. PICK V : \A j \in 1 .. Len(ms) : ms[j] \in MatchersOf(V)
    BY QueryType
  <1>2. ms[k] \in MatchersOf(V)
    BY <1>1
  <1>3. PartAt(ms, k).m.name = ms[k].name /\ PartAt(ms, k).minus \in BOOLEAN
    BY <1>2, PartFacts DEF PartAt
  <1>4. ms[k].name \in Names
    BY <1>2 DEF MatchersOf
  <1> QED
    BY <1>3, <1>4

\* The values of a label are read.
LEMMA ValuesAreRead ==
    ASSUME Running, QueryValues
    PROVE  QueryInv'
  <1> DEFINE k == Current
             part == PartAt(query.ms, k)
             want == ValuesFor(part, LabelValues(head, part.m.name))
  <1>1. /\ query.at = "values" /\ DOMAIN query = QueryFields /\ Asking /\ query.ms \in Queries
        /\ head \in query.seen /\ \A h \in query.seen : RowsOfIndex(h)
        /\ k <= Len(query.ms)
    BY DEF QueryValues, Running
  <1>2. /\ query'.at = "postings" /\ query'.ms = query.ms /\ query'.seen = query.seen
        /\ query'.its = query.its /\ query'.notIts = query.notIts /\ query'.got = <<>>
        /\ query'.want = want /\ DOMAIN query' = QueryFields /\ UNCHANGED head
    <2> DEFINE w == want
    <2> HIDE DEF w
    <2>1. query' = [query EXCEPT !.at = "postings", !.got = <<>>, !.want = w] /\ UNCHANGED head
      BY DEF QueryValues, CurrentPart, PartAt, tableVars, w
    <2> QED
      BY <1>1, <2>1 DEF QueryFields, w
  <1> HIDE DEF want
  <1>3. /\ Answered' = Answered /\ Current' = k /\ k = Answered + 1
        /\ Len(query.its) \in Nat /\ Len(query.notIts) \in Nat
    BY <1>1, <1>2, LenProperties DEF Answered, Current, Asking, ListsKnown, ListsOfAll
  <1>4. Answered \in Nat /\ Len(query.ms) \in Nat /\ k \in 1 .. Len(query.ms)
    <2>1. Answered \in Nat
      <3> DEFINE a == Len(query.its)
                 b == Len(query.notIts)
      <3>1. a \in Nat /\ b \in Nat /\ Answered = a + b
        BY <1>3 DEF Answered
      <3> HIDE DEF a, b
      <3> QED
        BY <3>1
    <2>2. Len(query.ms) \in Nat
      BY <1>1, QueryType
    <2> HIDE DEF k
    <2> QED
      BY <1>1, <1>3, <2>1, <2>2
  <1>5. ListsKnown'
    BY <1>1, <1>2, NoLists DEF Asking, ListsKnown, SeenIds
  <1>6. PartsKnown'
    BY <1>1, <1>2, <1>3, <1>4 DEF Asking, PartsKnown
  <1>7. ASSUME NEW r \in SeenRows', Stable(r)' PROVE StableFound(r)'
    <2>1. r \in SeenRows /\ Stable(r) /\ StableFound(r)
      BY <1>1, <1>2, <1>7 DEF Asking, SeenRows, Stable
    <2>2. Asked(k, r) <=> LabelFor(query.ms, k, r) \in want
      <3>1. part.m.name = query.ms[k].name /\ query.ms[k].name \in Names
        BY <1>1, <1>4, PartName
      <3>2. LabelFor(query.ms, k, r) \in LabelValues(head, part.m.name)
        <4>1. PICK x \in head : SameLabels(x, r)
          BY <1>1, <2>1 DEF Stable
        <4>2. LabelOf(x, part.m.name) = LabelFor(query.ms, k, r)
          BY <3>1, <4>1 DEF SameLabels, LabelFor
        <4> QED
          BY <4>2 DEF LabelValues
      <3> HIDE DEF part, k
      <3> QED
        BY <3>2 DEF Asked, AsksFor, want, ValuesFor, part
    <2>3. (IsFound(r)' <=> IsFound(r)) /\ (IsDropped(r)' <=> IsDropped(r)) /\ \A j : Asked(j, r)' <=> Asked(j, r)
      BY <1>2 DEF IsFound, IsDropped, Asked
    <2> HIDE DEF k, part
    <2> QED
      BY <1>2, <1>3, <2>1, <2>2, <2>3, NoLists DEF StableFound, k
  <1>8. StableHostsRight'
    BY <1>2 DEF StableHostsRight
  <1> QED
    BY <1>1, <1>2, <1>5, <1>6, <1>7, <1>8 DEF QueryInv, Running, Asking

\* The postings of a value are read.
LEMMA PostingsAreRead ==
    ASSUME Running, QueryPostings, query.want # {}
    PROVE  QueryInv'
  <1> DEFINE k == Current
             part == PartAt(query.ms, k)
             u == CHOOSE v \in query.want : TRUE
             l == PostingsOf(head, part.m.name, u)
             got == Append(query.got, l)
             want == query.want \ {u}
  <1>1. /\ query.at = "postings" /\ DOMAIN query = QueryFields /\ Asking /\ query.ms \in Queries
        /\ head \in query.seen /\ \A h \in query.seen : RowsOfIndex(h)
        /\ u \in query.want
    BY DEF QueryPostings, Running
  <1>2. /\ query'.at = "postings" /\ query'.ms = query.ms /\ query'.seen = query.seen
        /\ query'.its = query.its /\ query'.notIts = query.notIts /\ query'.got = got
        /\ query'.want = want /\ DOMAIN query' = QueryFields /\ UNCHANGED head
    <2> DEFINE w == want
               g == got
    <2> HIDE DEF w, g
    <2>1. query' = [query EXCEPT !.want = w, !.got = g] /\ UNCHANGED head
      BY DEF QueryPostings, CurrentPart, PartAt, tableVars, w, g
    <2> QED
      BY <1>1, <2>1 DEF QueryFields, w, g
  <1>3. /\ ListOf(l, MaxRows) /\ IdsOfList(l) \subseteq IdsOf(head)
        /\ \A r \in head : r.id \in IdsOfList(l) <=> LabelOf(r, part.m.name) = u
    <2> DEFINE nm == part.m.name
    <2> HIDE DEF nm, u
    <2> QED
      BY <1>1, PostingsFacts
  <1> HIDE DEF u, l
  <1>4. ListsOf(got, MaxRows) /\ IdsOfLists(got) = IdsOfLists(query.got) \cup IdsOfList(l)
    BY <1>1, <1>3, AppendList DEF Asking, ListsKnown
  <1> HIDE DEF got, want
  <1>5. /\ Answered' = Answered /\ Current' = k /\ k = Answered + 1
        /\ Len(query.its) \in Nat /\ Len(query.notIts) \in Nat
    BY <1>1, <1>2, LenProperties DEF Answered, Current, Asking, ListsKnown, ListsOfAll
  <1>6. Answered \in Nat /\ Len(query.ms) \in Nat /\ k \in 1 .. Len(query.ms)
    <2>1. Answered \in Nat
      <3> DEFINE a == Len(query.its)
                 b == Len(query.notIts)
      <3>1. a \in Nat /\ b \in Nat /\ Answered = a + b
        BY <1>5 DEF Answered
      <3> HIDE DEF a, b
      <3> QED
        BY <3>1
    <2>2. Len(query.ms) \in Nat /\ Answered < Len(query.ms)
      BY <1>1, QueryType DEF Asking, PartsKnown
    <2> HIDE DEF k
    <2> QED
      BY <1>5, <2>1, <2>2
  <1>7. ListsKnown'
    BY <1>1, <1>2, <1>3, <1>4 DEF Asking, ListsKnown, SeenIds
  <1>8. PartsKnown'
    BY <1>1, <1>2, <1>5 DEF Asking, PartsKnown
  <1>9. ASSUME NEW r \in SeenRows', Stable(r)' PROVE StableFound(r)'
    <2>1. r \in SeenRows /\ Stable(r) /\ StableFound(r)
      BY <1>1, <1>2, <1>9 DEF Asking, SeenRows, Stable
    <2>2. r.id \in IdsOfList(l) <=> LabelFor(query.ms, k, r) = u
      <3>1. part.m.name = query.ms[k].name /\ query.ms[k].name \in Names
        BY <1>1, <1>6, PartName
      <3>2. PICK x \in head : SameLabels(x, r)
        BY <1>1, <2>1 DEF Stable
      <3>3. x.id = r.id /\ LabelOf(x, part.m.name) = LabelFor(query.ms, k, r)
        BY <3>1, <3>2 DEF SameLabels, LabelFor
      <3> HIDE DEF part, k
      <3> QED
        BY <1>3, <3>2, <3>3
    <2>3. (IsFound(r)' <=> IsFound(r)) /\ (IsDropped(r)' <=> IsDropped(r)) /\ \A j : Asked(j, r)' <=> Asked(j, r)
      BY <1>2 DEF IsFound, IsDropped, Asked
    <2>4. Asked(k, r) <=> r.id \in IdsOfLists(query.got) \/ LabelFor(query.ms, k, r) \in query.want
      BY <1>1, <2>1 DEF StableFound
    <2>5. Asked(k, r) <=> r.id \in IdsOfLists(got) \/ LabelFor(query.ms, k, r) \in want
      <3> HIDE DEF k
      <3> QED
        BY <1>1, <1>4, <2>2, <2>4 DEF want
    <2> HIDE DEF k, part
    <2> QED
      BY <1>2, <1>5, <2>1, <2>3, <2>5 DEF StableFound, k
  <1>10. StableHostsRight'
    BY <1>2 DEF StableHostsRight
  <1> QED
    BY <1>1, <1>2, <1>7, <1>8, <1>9, <1>10 DEF QueryInv, Running, Asking

\* The last value of a matcher has been read.
LEMMA MatcherIsDone ==
    ASSUME Running, QueryPostings, query.want = {}
    PROVE  QueryInv'
  <1> DEFINE k == Current
             part == PartAt(query.ms, k)
  <1>1. /\ query.at = "postings" /\ DOMAIN query = QueryFields /\ Asking /\ query.ms \in Queries
        /\ head \in query.seen /\ \A h \in query.seen : RowsOfIndex(h)
    BY DEF QueryPostings, Running
  <1>2. /\ query'.at = "values" /\ query'.ms = query.ms /\ query'.seen = query.seen
        /\ query'.got = <<>> /\ DOMAIN query' = QueryFields /\ UNCHANGED head
        /\ query'.its = IF part.minus THEN query.its ELSE Append(query.its, query.got)
        /\ query'.notIts = IF part.minus THEN Append(query.notIts, query.got) ELSE query.notIts
    <2> DEFINE its == Append(query.its, query.got)
               notIts == Append(query.notIts, query.got)
    <2> HIDE DEF its, notIts
    <2>1. query' = (IF part.minus
                    THEN [query EXCEPT !.at = "values", !.notIts = notIts, !.got = <<>>]
                    ELSE [query EXCEPT !.at = "values", !.its = its, !.got = <<>>])
          /\ UNCHANGED head
      BY DEF QueryPostings, CurrentPart, PartAt, tableVars, its, notIts
    <2> HIDE DEF part
    <2> QED
      BY <1>1, <2>1 DEF QueryFields, its, notIts
  <1>3. /\ ListsOfAll(query.its, MaxRows) /\ ListsOfAll(query.notIts, MaxRows) /\ ListsOf(query.got, MaxRows)
        /\ IdsOfLists(query.got) \subseteq SeenIds
        /\ \A j \in DOMAIN query.its : IdsOfLists(query.its[j]) \subseteq SeenIds
    BY <1>1 DEF Asking, ListsKnown
  <1>4. /\ Answered \in Nat /\ k = Answered + 1 /\ Len(query.ms) \in Nat /\ Answered < Len(query.ms)
        /\ Answered' = k
    <2> DEFINE a == Len(query.its)
               b == Len(query.notIts)
    <2>1. a \in Nat /\ b \in Nat /\ Answered = a + b /\ k = a + b + 1
      BY <1>3, LenProperties DEF ListsOfAll, Answered, Current
    <2>2. Len(query.ms) \in Nat /\ Answered < Len(query.ms)
      BY <1>1, QueryType DEF Asking, PartsKnown
    <2>3. Answered' = a + b + 1
      <3>1. CASE part.minus
        <4>1. Len(query'.its) = a /\ Len(query'.notIts) = b + 1
          BY <1>2, <1>3, <3>1, AppendFound
        <4> HIDE DEF a, b, k, part
        <4> QED
          BY <2>1, <4>1 DEF Answered
      <3>2. CASE ~part.minus
        <4>1. Len(query'.its) = a + 1 /\ Len(query'.notIts) = b
          BY <1>2, <1>3, <3>2, AppendFound
        <4> HIDE DEF a, b, k, part
        <4> QED
          BY <2>1, <4>1 DEF Answered
      <3> QED
        BY <3>1, <3>2
    <2> HIDE DEF a, b, k, part
    <2> QED
      BY <2>1, <2>2, <2>3
  <1> HIDE DEF k
  <1>5. 1 .. k = (1 .. Answered) \cup {k} /\ k <= Len(query.ms) /\ k \in 1 .. Len(query.ms)
    BY <1>4
  <1>6. \A r \in SeenRows' : Stable(r)' => /\ StableFound(r) /\ (Asked(k, r) <=> r.id \in IdsOfLists(query.got))
    BY <1>1, <1>2 DEF Asking, SeenRows, Stable, StableFound, k
  <1>7. \A r : \A j : Asked(j, r)' <=> Asked(j, r)
    BY <1>2 DEF Asked
  <1>8. PartsKnown
    BY <1>1 DEF Asking
  <1>9. StableHostsRight'
    BY <1>2 DEF StableHostsRight
  <1>10. CASE ~part.minus
    <2> DEFINE new == Append(query.its, query.got)
               L == Len(query.its)
    <2>1. /\ ListsOfAll(new, MaxRows) /\ new # <<>>
          /\ DOMAIN new = DOMAIN query.its \cup {L + 1}
          /\ \A j \in DOMAIN query.its : new[j] = query.its[j]
          /\ new[L + 1] = query.got
      <3> DEFINE old == query.its
                 ls == query.got
      <3>1. ListsOfAll(old, MaxRows) /\ ListsOf(ls, MaxRows)
        BY <1>3
      <3> HIDE DEF old, ls
      <3>2. LET more == Append(old, ls)
            IN  /\ ListsOfAll(more, MaxRows) /\ more # <<>>
                /\ DOMAIN more = DOMAIN old \cup {Len(old) + 1}
                /\ \A j \in DOMAIN old : more[j] = old[j]
                /\ more[Len(old) + 1] = ls
        BY <3>1, AppendFound
      <3> QED
        BY <3>2 DEF old, ls
    <2>2. query'.its = new /\ query'.notIts = query.notIts
      BY <1>2, <1>10
    <2> HIDE DEF new, L
    <2>3. ListsKnown'
      <3>1. \A j \in DOMAIN new : IdsOfLists(new[j]) \subseteq SeenIds
        BY <1>3, <2>1
      <3> QED
        BY <1>2, <1>3, <2>1, <2>2, <3>1, NoLists DEF ListsKnown, SeenIds
    <2>4. PartsKnown'
      <3>1. \E j \in 1 .. k : ~PartAt(query.ms, j).minus
        BY <1>5, <1>10
      <3>2. (\A j \in 1 .. k : ~PartAt(query.ms, j).minus) <=> (\A j \in 1 .. Answered : ~PartAt(query.ms, j).minus)
        BY <1>5, <1>10
      <3> QED
        BY <1>2, <1>4, <1>5, <1>8, <2>1, <2>2, <3>1, <3>2 DEF PartsKnown
    <2>5. ASSUME NEW r \in SeenRows', Stable(r)' PROVE StableFound(r)'
      <3>1. StableFound(r) /\ (Asked(k, r) <=> r.id \in IdsOfLists(query.got))
        BY <1>6, <2>5
      <3>2. IsFound(r)' <=> IsFound(r) /\ r.id \in IdsOfLists(query.got)
        BY <2>1, <2>2 DEF IsFound
      <3>3. IsDropped(r)' <=> IsDropped(r)
        BY <2>2 DEF IsDropped
      <3>4. (\A j \in 1 .. k : ~PartAt(query.ms, j).minus => Asked(j, r))
            <=> (\A j \in 1 .. Answered : ~PartAt(query.ms, j).minus => Asked(j, r)) /\ Asked(k, r)
        BY <1>5, <1>10
      <3>5. (\E j \in 1 .. k : PartAt(query.ms, j).minus /\ Asked(j, r))
            <=> (\E j \in 1 .. Answered : PartAt(query.ms, j).minus /\ Asked(j, r))
        BY <1>5, <1>10
      <3> QED
        BY <1>2, <1>4, <1>7, <3>1, <3>2, <3>3, <3>4, <3>5 DEF StableFound
    <2> QED
      BY <1>1, <1>2, <1>9, <2>3, <2>4, <2>5 DEF QueryInv, Running, Asking
  <1>11. CASE part.minus
    <2> DEFINE new == Append(query.notIts, query.got)
               L == Len(query.notIts)
    <2>1. /\ ListsOfAll(new, MaxRows) /\ new # <<>>
          /\ DOMAIN new = DOMAIN query.notIts \cup {L + 1}
          /\ \A j \in DOMAIN query.notIts : new[j] = query.notIts[j]
          /\ new[L + 1] = query.got
      <3> DEFINE old == query.notIts
                 ls == query.got
      <3>1. ListsOfAll(old, MaxRows) /\ ListsOf(ls, MaxRows)
        BY <1>3
      <3> HIDE DEF old, ls
      <3>2. LET more == Append(old, ls)
            IN  /\ ListsOfAll(more, MaxRows) /\ more # <<>>
                /\ DOMAIN more = DOMAIN old \cup {Len(old) + 1}
                /\ \A j \in DOMAIN old : more[j] = old[j]
                /\ more[Len(old) + 1] = ls
        BY <3>1, AppendFound
      <3> QED
        BY <3>2 DEF old, ls
    <2>2. query'.notIts = new /\ query'.its = query.its
      BY <1>2, <1>11
    <2> HIDE DEF new, L
    <2>3. ListsKnown'
      BY <1>2, <1>3, <2>1, <2>2, NoLists DEF ListsKnown, SeenIds
    <2>4. PartsKnown'
      <3>1. ~\A j \in 1 .. k : ~PartAt(query.ms, j).minus
        BY <1>5, <1>11
      <3>2. (\A j \in 1 .. k : PartAt(query.ms, j).minus) <=> (\A j \in 1 .. Answered : PartAt(query.ms, j).minus)
        BY <1>5, <1>11
      <3> QED
        BY <1>2, <1>4, <1>5, <1>8, <2>1, <2>2, <3>1, <3>2 DEF PartsKnown
    <2>5. ASSUME NEW r \in SeenRows', Stable(r)' PROVE StableFound(r)'
      <3>1. StableFound(r) /\ (Asked(k, r) <=> r.id \in IdsOfLists(query.got))
        BY <1>6, <2>5
      <3>2. IsDropped(r)' <=> IsDropped(r) \/ r.id \in IdsOfLists(query.got)
        BY <2>1, <2>2 DEF IsDropped
      <3>3. IsFound(r)' <=> IsFound(r)
        BY <2>2 DEF IsFound
      <3>4. (\A j \in 1 .. k : ~PartAt(query.ms, j).minus => Asked(j, r))
            <=> (\A j \in 1 .. Answered : ~PartAt(query.ms, j).minus => Asked(j, r))
        BY <1>5, <1>11
      <3>5. (\E j \in 1 .. k : PartAt(query.ms, j).minus /\ Asked(j, r))
            <=> (\E j \in 1 .. Answered : PartAt(query.ms, j).minus /\ Asked(j, r)) \/ Asked(k, r)
        BY <1>5, <1>11
      <3> QED
        BY <1>2, <1>4, <1>7, <3>1, <3>2, <3>3, <3>4, <3>5 DEF StableFound
    <2> QED
      BY <1>1, <1>2, <1>9, <2>3, <2>4, <2>5 DEF QueryInv, Running, Asking
  <1> QED
    BY <1>10, <1>11

\* The query is answered.
LEMMA QueryIsAnswered ==
    ASSUME Running, QueryExpand
    PROVE  QueryInv'
  <1> DEFINE ms == query.ms
             n == Len(ms)
             all == AllIds(head)
             ids == Evaluate(query.its, query.notIts, all)
             base == IF query.its = <<>> /\ query.notIts # <<>> THEN IdsOfList(all) ELSE InAll(query.its)
  <1>1. /\ query.at = "values" /\ DOMAIN query = QueryFields /\ Asking /\ ms \in Queries
        /\ head \in query.seen /\ \A h \in query.seen : RowsOfIndex(h)
        /\ Current > n
    BY DEF QueryExpand, Running
  <1>2. /\ query'.at = "done" /\ query'.ms = ms /\ query'.seen = query.seen
        /\ query'.ids = ids /\ DOMAIN query' = QueryFields /\ UNCHANGED head
    <2> DEFINE i == ids
    <2> HIDE DEF i
    <2>1. query' = [query EXCEPT !.at = "done", !.its = <<>>, !.notIts = <<>>, !.ids = i] /\ UNCHANGED head
      BY DEF QueryExpand, tableVars, i
    <2> QED
      BY <1>1, <2>1 DEF QueryFields, i
  <1>3. /\ ListsOfAll(query.its, MaxRows) /\ ListsOfAll(query.notIts, MaxRows)
        /\ \A j \in DOMAIN query.its : IdsOfLists(query.its[j]) \subseteq SeenIds
    BY <1>1 DEF Asking, ListsKnown
  <1>4. ListOf(all, MaxRows) /\ IdsOfList(all) = IdsOf(head)
    BY <1>1, AllIdsFacts
  <1> HIDE DEF all
  <1>5. ids = base \ InAny(query.notIts) /\ MaxRows \in Nat
    BY <1>3, <1>4, HostBounds, EvaluateIs
  <1> HIDE DEF ids
  <1>6. Answered = n /\ n \in Nat /\ (ms = <<>> <=> n = 0)
    <2> DEFINE a == Len(query.its)
               b == Len(query.notIts)
    <2>1. a \in Nat /\ b \in Nat /\ Answered = a + b /\ Current = a + b + 1
      BY <1>3, LenProperties DEF ListsOfAll, Answered, Current
    <2>2. n \in Nat /\ Answered <= n /\ (ms = <<>> <=> n = 0)
      BY <1>1, QueryType DEF Asking, PartsKnown
    <2> HIDE DEF a, b, ms, n
    <2> QED
      BY <1>1, <2>1, <2>2
  <1>7. /\ query.its = <<>> <=> \A k \in 1 .. n : PartAt(ms, k).minus
        /\ query.notIts = <<>> <=> \A k \in 1 .. n : ~PartAt(ms, k).minus
    BY <1>1, <1>6 DEF Asking, PartsKnown
  <1>8. ids \subseteq UNION {{r.id : r \in h} : h \in query.seen}
    <2>1. IdsOf(head) \subseteq SeenIds
      BY <1>1 DEF SeenIds
    <2>2. InAll(query.its) \subseteq SeenIds
      <3>1. CASE query.its = <<>>
        BY <3>1 DEF InAll
      <3>2. CASE query.its # <<>>
        <4>1. 1 \in DOMAIN query.its
          <5> DEFINE its == query.its
          <5>1. its \in Seq(SeqOfLists) /\ its # <<>>
            BY <1>3, <3>2 DEF ListsOfAll
          <5> HIDE DEF its
          <5>2. Len(its) \in Nat /\ DOMAIN its = 1 .. Len(its) /\ Len(its) # 0
            BY <5>1, LenProperties, EmptySeq
          <5>3. 1 \in DOMAIN its
            BY <5>2
          <5> QED
            BY <5>3 DEF its
        <4> QED
          BY <1>3, <3>2, <4>1 DEF InAll
      <3> QED
        BY <3>1, <3>2
    <2>3. ids \subseteq SeenIds
      BY <1>4, <1>5, <2>1, <2>2
    <2> QED
      BY <2>3 DEF SeenIds, IdsOf
  <1>9. ASSUME NEW r \in SeenRows, Stable(r)
        PROVE  r.id \in ids <=> ms # <<>> /\ Satisfies(ms, r)
    <2>1. StableFound(r)
      BY <1>1, <1>9 DEF Asking
    <2>2. r.id \in Nat
      <3>1. PICK h \in query.seen : r \in h
        BY DEF SeenRows
      <3>2. r.id \in IdsOf(h) /\ IdsOf(h) \subseteq 1 .. MaxRows
        BY <1>1, <3>1 DEF RowsOfIndex, IdsOf
      <3> QED
        BY <1>5, <3>2
    <2>3. r.id \in IdsOf(head)
      <3>1. PICK x \in head : SameLabels(x, r)
        BY <1>1, <1>9 DEF Stable
      <3> QED
        BY <3>1 DEF SameLabels, IdsOf
    <2>4. r.id \in InAny(query.notIts) <=> \E k \in 1 .. n : PartAt(ms, k).minus /\ Asked(k, r)
      BY <1>6, <2>1 DEF StableFound, IsDropped, InAny
    <2>5. r.id \in base <=> ms # <<>> /\ \A k \in 1 .. n : ~PartAt(ms, k).minus => Asked(k, r)
      <3>1. CASE query.its # <<>>
        <4>1. ms # <<>>
          BY <1>6, <1>7, <3>1
        <4>2. r.id \in base <=> IsFound(r)
          BY <2>2, <3>1 DEF InAll, IsFound
        <4> QED
          BY <1>6, <2>1, <4>1, <4>2 DEF StableFound
      <3>2. CASE query.its = <<>> /\ query.notIts # <<>>
        <4>1. ms # <<>>
          BY <1>6, <1>7, <3>2
        <4>2. \A k \in 1 .. n : PartAt(ms, k).minus
          BY <1>7, <3>2
        <4> QED
          BY <1>4, <2>3, <3>2, <4>1, <4>2
      <3>3. CASE query.its = <<>> /\ query.notIts = <<>>
        <4>1. base = {}
          BY <3>3 DEF InAll
        <4>2. n = 0
          <5>1. CASE n # 0
            <6>1. 1 \in 1 .. n
              BY <1>6, <5>1
            <6> HIDE DEF ms, n
            <6> QED
              BY <1>7, <3>3, <6>1
          <5> QED
            BY <5>1
        <4> QED
          BY <1>6, <4>1, <4>2
      <3> QED
        BY <3>1, <3>2, <3>3
    <2>6. (\A k \in 1 .. n : Wants(PartAt(ms, k), LabelFor(ms, k, r))) <=> Satisfies(ms, r)
      BY <1>1, WantsAreMatches
    <2>7. \A k \in 1 .. n : Wants(PartAt(ms, k), LabelFor(ms, k, r)) <=> (Asked(k, r) <=> ~PartAt(ms, k).minus)
      BY DEF Wants, Asked
    <2> HIDE DEF base, ms, n
    <2> QED
      BY <1>5, <2>4, <2>5, <2>6, <2>7
  <1>10. StableHostsRight'
    <2>1. ASSUME NEW h \in query.seen, NEW r \in h,
                 \A o \in query.seen : \E x \in o : x.id = r.id /\ \A m \in Names : LabelOf(x, m) = LabelOf(r, m)
          PROVE  r.id \in ids <=> ms # <<>> /\ Satisfies(ms, r)
      <3>1. r \in SeenRows /\ Stable(r)
        BY <2>1 DEF SeenRows, Stable, SameLabels
      <3> QED
        BY <1>9, <3>1
    <2> QED
      BY <1>2, <1>8, <2>1 DEF StableHostsRight
  <1> QED
    BY <1>1, <1>2, <1>10 DEF QueryInv, Running

\* The head is swapped while the query runs: it has met one more. A host whose labels are
\* the same in all heads was already known.
LEMMA HeadIsSwapped ==
    ASSUME Running, IndexKnown', query' = [query EXCEPT !.seen = @ \cup {head'}]
    PROVE  QueryInv'
  <1>1. /\ query.at \in {"values", "postings", "done"} /\ DOMAIN query = QueryFields
        /\ query.ms \in Queries /\ head \in query.seen /\ \A h \in query.seen : RowsOfIndex(h)
        /\ query.at \in {"values", "postings"} => Asking
        /\ StableHostsRight
    BY DEF Running
  <1>2. /\ query'.at = query.at /\ query'.ms = query.ms /\ query'.want = query.want
        /\ query'.got = query.got /\ query'.its = query.its /\ query'.notIts = query.notIts
        /\ query'.ids = query.ids /\ query'.seen = query.seen \cup {head'} /\ DOMAIN query' = QueryFields
    BY <1>1 DEF QueryFields
  <1>3. \A h \in query'.seen : RowsOfIndex(h)
    BY <1>1, <1>2 DEF IndexKnown
  <1>4. ASSUME NEW r, Stable(r)' PROVE \E x \in SeenRows : SameLabels(x, r) /\ Stable(x)
    <2>1. \A o \in query.seen : \E x \in o : SameLabels(x, r)
      BY <1>2, <1>4 DEF Stable
    <2>2. PICK x \in head : SameLabels(x, r)
      BY <1>1, <2>1
    <2>3. x \in SeenRows
      BY <1>1 DEF SeenRows
    <2>4. Stable(x)
      <3>1. ASSUME NEW o \in query.seen PROVE \E y \in o : SameLabels(y, x)
        <4>1. PICK y \in o : SameLabels(y, r)
          BY <2>1
        <4>2. SameLabels(y, x)
          BY <2>2, <4>1 DEF SameLabels
        <4> QED
          BY <4>2
      <3> QED
        BY <3>1 DEF Stable
    <2> QED
      BY <2>2, <2>3, <2>4
  <1>5. ASSUME query.at \in {"values", "postings"} PROVE Asking'
    <2>1. ListsKnown /\ PartsKnown /\ \A r \in SeenRows : Stable(r) => StableFound(r)
      BY <1>1, <1>5 DEF Asking
    <2>2. SeenIds \subseteq SeenIds'
      BY <1>2 DEF SeenIds
    <2>3. ListsKnown'
      BY <1>2, <2>1, <2>2 DEF ListsKnown
    <2>4. Answered' = Answered /\ Current' = Current
      BY <1>2 DEF Answered, Current
    <2>5. PartsKnown'
      BY <1>2, <2>1, <2>4 DEF PartsKnown
    <2>6. ASSUME NEW r \in SeenRows', Stable(r)' PROVE StableFound(r)'
      <3>1. PICK x \in SeenRows : SameLabels(x, r) /\ Stable(x)
        BY <1>4, <2>6
      <3>2. StableFound(x)
        BY <2>1, <3>1
      <3>3. Answered \in Nat /\ Answered <= Len(query.ms) /\ Len(query.ms) \in Nat
            /\ (query.at = "postings" => Current = Answered + 1 /\ Answered < Len(query.ms))
        <4> DEFINE a == Len(query.its)
                   b == Len(query.notIts)
        <4>1. a \in Nat /\ b \in Nat /\ Answered = a + b /\ Current = a + b + 1
          BY <2>1, LenProperties DEF ListsKnown, ListsOfAll, Answered, Current
        <4>2. Len(query.ms) \in Nat /\ Answered <= Len(query.ms)
              /\ (query.at = "postings" => Answered < Len(query.ms))
          BY <1>1, <2>1, QueryType DEF PartsKnown
        <4> HIDE DEF a, b
        <4> QED
          BY <4>1, <4>2
      <3>4. x.id = r.id /\ \A k \in 1 .. Len(query.ms) : LabelFor(query.ms, k, x) = LabelFor(query.ms, k, r)
        BY <1>1, <3>1, PartName DEF SameLabels, LabelFor
      <3>5. (IsFound(r)' <=> IsFound(x)) /\ (IsDropped(r)' <=> IsDropped(x))
        BY <1>2, <3>4 DEF IsFound, IsDropped
      <3>6. \A k \in 1 .. Len(query.ms) : Asked(k, r)' <=> Asked(k, x)
        BY <1>2, <3>4 DEF Asked
      <3>7. \A k \in 1 .. Answered : k \in 1 .. Len(query.ms)
        BY <3>3
      <3>8. /\ (\A k \in 1 .. Answered : ~PartAt(query.ms, k).minus => Asked(k, x))
               <=> \A k \in 1 .. Answered : ~PartAt(query.ms, k).minus => Asked(k, r)'
            /\ (\E k \in 1 .. Answered : PartAt(query.ms, k).minus /\ Asked(k, x))
               <=> \E k \in 1 .. Answered : PartAt(query.ms, k).minus /\ Asked(k, r)'
        BY <3>6, <3>7
      <3>9. ASSUME query.at = "postings"
            PROVE  /\ Asked(Current, r)' <=> Asked(Current, x)
                   /\ LabelFor(query.ms, Current, x) = LabelFor(query.ms, Current, r)
        <4>1. Current \in 1 .. Len(query.ms)
          BY <3>3, <3>9
        <4> QED
          BY <2>4, <3>4, <3>6, <4>1
      <3> QED
        BY <1>2, <2>4, <3>2, <3>4, <3>5, <3>8, <3>9 DEF StableFound
    <2> QED
      BY <2>3, <2>5, <2>6 DEF Asking
  <1>6. StableHostsRight'
    <2> SUFFICES ASSUME query.at = "done" PROVE StableHostsRight'
      BY <1>2 DEF StableHostsRight
    <2>1. query.ids \subseteq UNION {{r.id : r \in h} : h \in query.seen}
      BY <1>1 DEF StableHostsRight
    <2>2. query'.ids \subseteq UNION {{r.id : r \in h} : h \in query'.seen}
      BY <1>2, <2>1
    <2>3. ASSUME NEW r, Stable(r)' PROVE r.id \in query'.ids <=> query'.ms # <<>> /\ Satisfies(query'.ms, r)
      <3>1. PICK x \in SeenRows : SameLabels(x, r) /\ Stable(x)
        BY <1>4, <2>3
      <3>2. x.id \in query.ids <=> query.ms # <<>> /\ Satisfies(query.ms, x)
        BY <1>1, <3>1 DEF StableHostsRight, SeenRows, Stable, SameLabels
      <3>3. Satisfies(query.ms, x) <=> Satisfies(query.ms, r)
        <4>1. DOMAIN query.ms = 1 .. Len(query.ms)
          BY <1>1, QueryType
        <4> QED
          BY <1>1, <3>1, <4>1, PartName DEF Satisfies, SameLabels
      <3> QED
        BY <1>2, <3>1, <3>2, <3>3 DEF SameLabels
    <2> QED
      BY <1>2, <2>2, <2>3 DEF StableHostsRight, Stable, SameLabels
  <1> QED
    BY <1>1, <1>2, <1>3, <1>5, <1>6 DEF QueryInv, Running

\* A query meets every head there is while it runs.
LEMMA QueryStep ==
    ASSUME QueryInv, IndexKnown, IndexKnown', [Next]_vars
    PROVE  QueryInv'
  <1>0. NoQuery.at = "idle"
    BY DEF NoQuery
  <1>1. CASE query = NoQuery /\ UNCHANGED query
    BY <1>1 DEF QueryInv
  <1>2. CASE FlushMeetsQuery
    <2>1. CASE query = NoQuery
      <3>1. UNCHANGED query
        BY <1>0, <1>2, <2>1 DEF FlushMeetsQuery
      <3> QED
        BY <1>1, <2>1, <3>1
    <2>2. CASE Running
      <3>1. query' = [query EXCEPT !.seen = @ \cup {head'}]
        BY <1>2, <2>2 DEF FlushMeetsQuery, Running
      <3> QED
        BY <2>2, <3>1, HeadIsSwapped
    <2> QED
      BY <2>1, <2>2 DEF QueryInv
  <1>3. CASE \E ms \in Queries : Query(ms)
    BY <1>3, QueryBegins
  <1>4. CASE QueryValues
    BY <1>0, <1>4, ValuesAreRead DEF QueryInv, QueryValues
  <1>5. CASE QueryPostings
    BY <1>0, <1>5, PostingsAreRead, MatcherIsDone DEF QueryInv, QueryPostings
  <1>6. CASE QueryExpand
    BY <1>0, <1>6, QueryIsAnswered DEF QueryInv, QueryExpand
  <1>7. CASE QueryReply
    BY <1>7 DEF QueryInv, QueryReply
  <1>8. CASE query.at = "idle" /\ Writes /\ UNCHANGED query
    BY <1>1, <1>8 DEF QueryInv, Running
  <1>9. CASE UNCHANGED vars
    <2>1. UNCHANGED <<head, query>>
      BY <1>9 DEF vars, tableVars
    <2> QED
      BY <2>1 DEF QueryInv, Running, Asking, ListsKnown, PartsKnown, StableFound, SeenRows, SeenIds, Stable,
             StableHostsRight, Answered, Current, IsFound, IsDropped, Asked
  <1> QED
    BY <1>2, <1>3, <1>4, <1>5, <1>6, <1>7, <1>8, <1>9 DEF Next

-----------------------------------------------------------------------------
(* The theorems.                                                           *)

LEMMA HostInvInit == TableInit => HostInv
  <1> SUFFICES ASSUME TableInit PROVE HostInv
    OBVIOUS
  <1>1. rows = {} /\ Cardinality(rows) = 0 /\ IsFiniteSet(rows)
    BY FS_EmptySet DEF TableInit
  <1>2. /\ \A c \in Handlers : report[c].at = "idle"
        /\ report \in [Handlers -> ReportStates]
    BY DEF TableInit, NoReport, ReportStates
  <1>3. sync \in SyncStates /\ flush \in FlushStates /\ tangled = FALSE
    BY DEF TableInit, NoSync, NoFlush, SyncStates, FlushStates
  <1>4. TableTypeOK
    BY <1>1, <1>2, <1>3 DEF TableTypeOK
  <1>5. IdsInOrder
    BY <1>1, HostBounds DEF IdsInOrder, IdsOf, OneOfEachId
  <1>6. FlushBehind
    BY DEF TableInit, NoFlush, FlushBehind
  <1>7. sync.list = {} /\ sync.add = {} /\ sync.update = {}
    BY DEF TableInit, NoSync
  <1>8. OneInserter
    BY <1>1, <1>2, <1>7 DEF OneInserter
  <1>9. SyncKnown
    BY <1>7 DEF SyncKnown, CloudLists
  <1>10. IndexKnown
    BY DEF TableInit, NoFlush, IndexKnown, RowsOfIndex, IdsOf, OneOfEachId
  <1> QED
    BY <1>4, <1>5, <1>6, <1>8, <1>9, <1>10 DEF HostInv

\* HostInv holds in every state of the table of hosts.
THEOREM HostInvariantHolds == TableSpec => []HostInv
  <1>1. HostInv /\ [TableNext]_tableVars => HostInv'
    BY RowsStep, TableTypeStep, FlushBehindStep, IndexKnownStep, OneInserterStep, SyncKnownStep DEF HostInv
  <1> QED
    BY <1>1, HostInvInit, PTL DEF TableSpec

\* However the reports of agents and the synchronisation with the cloud interleave, each
\* with a SELECT of its own before it inserts (HostReport of server.go, sync of
\* csync/manager.go), no host gets a second row, unless two reports of one host have
\* overlapped or a report has updated the table.
THEOREM HostsHaveOneRow == TableSpec => []OneRowPerHost
  <1>1. HostInv => OneRowPerHost
    BY DEF HostInv, OneInserter, OneRowPerHost
  <1> QED
    BY <1>1, HostInvariantHolds, PTL

\* When CloudHostSync.sync is done and no report has written meanwhile, every host of the
\* list is in the table as listed.
THEOREM SyncedAsListed == TableSpec => []SyncConverges
  <1>1. HostInv => SyncConverges
    BY DEF HostInv, SyncKnown, SyncConverges
  <1> QED
    BY <1>1, HostInvariantHolds, PTL

\* FlushIndex counts the rows and then asks for the ids up to the count and one more: what
\* it hands to Reset has every row there was when it counted, each once, although the ids
\* are read later.
THEOREM IndexCoversTable == TableSpec => []FlushCovers
  <1>1. HostInv => FlushCovers
    BY DEF HostInv, FlushBehind, FlushCovers, IdsOf, OneOfEachId
  <1> QED
    BY <1>1, HostInvariantHolds, PTL

\* A query writes nothing of the table: with queries, it still does what HostTable says,
\* and all that is shown of TableSpec holds.
THEOREM QueriesOnlyRead == Spec => TableSpec
  <1>1. Init => TableInit
    BY DEF Init
  <1>2. [Next]_vars => [TableNext]_tableVars
    <2> SUFFICES ASSUME [Next]_vars PROVE [TableNext]_tableVars
      OBVIOUS
    <2>1. CASE (query.at = "idle" /\ Writes /\ UNCHANGED query) \/ FlushMeetsQuery
      BY <2>1 DEF TableNext, FlushMeetsQuery
    <2>2. CASE \/ BetweenWrites /\ \E ms \in Queries : Query(ms)
               \/ QueryValues \/ QueryPostings \/ QueryExpand \/ QueryReply
      BY <2>2 DEF Query, QueryValues, QueryPostings, QueryExpand, QueryReply
    <2>3. CASE UNCHANGED vars
      BY <2>3 DEF vars
    <2> QED
      BY <2>1, <2>2, <2>3 DEF Next
  <1> QED
    BY <1>1, <1>2, PTL DEF Spec, TableSpec

\* GetMatchIdsByIndex takes the values of a label, the postings of each value and the ids
\* of all from the head of the index in one call each, and Reset swaps the head between
\* any two: still the answer names a host whose labels are the same in all the heads it
\* has met exactly when it satisfies all matchers, and no id that is in none of them.
THEOREM QueriesRight == Spec => []StableHostsRight
  <1>1. Spec => []IndexKnown
    <2>1. HostInv => IndexKnown
      BY DEF HostInv
    <2> QED
      BY <2>1, QueriesOnlyRead, HostInvariantHolds, PTL
  <1>2. Init => QueryInv
    BY DEF Init, QueryInv
  <1>3. QueryInv /\ IndexKnown /\ IndexKnown' /\ [Next]_vars => QueryInv'
    BY QueryStep
  <1>4. QueryInv => StableHostsRight
    BY DEF QueryInv, NoQuery, Running, StableHostsRight
  <1> QED
    BY <1>1, <1>2, <1>3, <1>4, PTL DEF Spec
=============================================================================
