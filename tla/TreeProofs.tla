----------------------------- MODULE TreeProofs -----------------------------
(***************************************************************************)
(* What ServiceTree promises, for any hosts, requests, callers and failing *)
(* statements: deletions leave no orphans unless they meet another writer  *)
(* (NoOrphans), every path that was added is listed (AddedIsListed), and,  *)
(* unless additions meet, found by a walk down (AddedIsFound), and the     *)
(* queries that walk the table answer what it holds (QueriesAgree).        *)
(***************************************************************************)
EXTENDS ServiceTree, SequenceTheorems, WellFoundedInduction, TLAPS

Fields == {"op", "node", "hosts", "at", "path", "left", "got", "still", "failed"}

\* The shape of a request, whatever its fields hold.
IsCall(x) == x = [f \in Fields |-> x[f]]

Stages == {"find", "insert", "list", "del", "done"}

RowsOK == \A r \in nodes : r.id \in Nat /\ r.id <= lastId /\ r.path \in Seq(Nat) /\ Len(r.path) < 3

\* Only queries wait for Return, and only query 2 keeps a list of products.
CallOK(x) ==
    /\ IsCall(x)
    /\ x.at \in Stages /\ x.path \in Seq(Nat) /\ x.op \in Ops \cup {"none"}
    /\ x.op \in Writers => x.at # "done"
    /\ x.op = "add" => Len(x.path) < 3
    /\ x.op = "del" => Len(x.node) \in 1..3
    /\ x.at = "list" => x.op = "q2"
    /\ x.left # {} => x.at = "list"

\* Ids are unique and requests have their shape.
TreeTypeOK ==
    /\ lastId \in Nat /\ RowsOK
    /\ \A r, o \in nodes : r.id = o.id => r = o
    /\ call = [c \in Procs |-> call[c]]
    /\ \A c \in Procs : CallOK(call[c])

\* There is a row the path leads to.
Under(path) == path = <<>> \/ \E o \in nodes : path = Append(o.path, o.id)

\* As long as no deletion has met another writer, nothing disappears under a writer.
Alone ==
    /\ \A r \in nodes : Under(r.path)
    /\ \A c \in Procs : call[c].op \in Writers => Under(call[c].path)
    /\ \A c, d \in Procs : c # d /\ call[c].op = "del" => call[d].op \notin Writers
    /\ \A c \in Procs : call[c].op = "del" /\ call[c].at = "del" => Bare(c)

TreeInv == TreeTypeOK /\ (~delMet => Alone)

-----------------------------------------------------------------------------
(* SELECT returns a row.                                                   *)

LEMMA LessIsWellFounded == IsWellFoundedOn({p \in Nat \X Nat : p[1] < p[2]}, Nat)
  <1>1. OpToRel(<, Nat) = {p \in Nat \X Nat : p[1] < p[2]}
    BY DEF OpToRel
  <1> QED
    BY <1>1, NatLessThanWellFounded

LEMMA FirstIsThere ==
    ASSUME RowsOK, NEW rows, rows \subseteq nodes, rows # {}
    PROVE  FirstOf(rows) \in rows
  <1> DEFINE Less == {p \in Nat \X Nat : p[1] < p[2]}
             Ids == {r.id : r \in rows}
  <1>1. Ids \subseteq Nat /\ Ids # {}
    BY DEF RowsOK
  <1>2. PICK i \in Ids : \A j \in Ids : ~(<<j, i>> \in Less)
    <2> HIDE DEF Less, Ids
    <2> QED
      BY <1>1, LessIsWellFounded, WFMin DEF Less
  <1>3. ASSUME NEW j \in Ids PROVE i <= j
    <2>1. i \in Nat /\ j \in Nat
      BY <1>1, <1>2
    <2>2. ~(<<j, i>> \in Less)
      BY <1>2
    <2>3. ~(j < i)
      BY <2>1, <2>2
    <2> QED
      BY <2>1, <2>3
  <1>4. PICK r \in rows : r.id = i
    BY <1>2
  <1>5. \A o \in rows : r.id <= o.id
    BY <1>3, <1>4
  <1> QED
    BY <1>4, <1>5, Zenon DEF FirstOf

-----------------------------------------------------------------------------
(* One request moves on.                                                   *)

LEMMA IdleOK == CallOK(Idle)
  <1>1. <<>> \in Seq(Nat) /\ Len(<<>>) = 0
    OBVIOUS
  <1> QED
    BY <1>1 DEF CallOK, IsCall, Fields, Idle, Stages, Ops, Writers

LEMMA FailedOK ==
    ASSUME NEW x, CallOK(x)
    PROVE  LET y == [x EXCEPT !.failed = TRUE] IN CallOK(y) /\ y.op = x.op /\ y.at = x.at /\ y.path = x.path
  BY DEF CallOK, IsCall, Fields

LEMMA EndedOK ==
    ASSUME TreeTypeOK, NEW c \in Procs, call[c].op # "none", NEW got
    PROVE  CallOK(Ended(c, got)) /\ Ended(c, got).op \in {"none", call[c].op} \ Writers
  <1>1. CASE call[c].op \notin Queries
    <2>1. Ended(c, got) = Idle
      BY <1>1 DEF Ended
    <2> QED
      BY <2>1, IdleOK DEF Writers, Idle
  <1>2. CASE call[c].op \in Queries
    <2>1. Ended(c, got) = [call[c] EXCEPT !.at = "done", !.got = got, !.left = {}, !.path = <<>>]
      BY <1>2 DEF Ended
    <2>2. CallOK(call[c])
      BY DEF TreeTypeOK
    <2>3. call[c].op \notin Writers /\ call[c].op # "none"
      BY <1>2 DEF Queries, Writers
    <2>4. <<>> \in Seq(Nat)
      OBVIOUS
    <2>5. ASSUME NEW x, IsCall(x)
          PROVE  LET y == [x EXCEPT !.at = "done", !.got = got, !.left = {}, !.path = <<>>]
                 IN IsCall(y) /\ y.op = x.op /\ y.at = "done" /\ y.path = <<>> /\ y.left = {}
      BY <2>5 DEF IsCall, Fields
    <2> QED
      BY <2>1, <2>2, <2>3, <2>4, <2>5 DEF CallOK, Stages, Writers
  <1> QED
    BY <1>1, <1>2

LEMMA OneMoves ==
    ASSUME TreeTypeOK, NEW c \in Procs, NEW with, CallOK(with), Step(c, with) \/ Changed(c, with)
    PROVE  /\ call' = [d \in Procs |-> call'[d]] /\ \A d \in Procs : CallOK(call'[d])
           /\ call'[c] = with
           /\ \A d \in Procs \ {c} : /\ call'[d].op = call[d].op
                                      /\ call'[d].at = call[d].at /\ call'[d].path = call[d].path
  <1>1. CASE Step(c, with)
    BY <1>1 DEF Step, TreeTypeOK
  <1>2. CASE Changed(c, with)
    <2>1. ASSUME NEW x, CallOK(x), NEW b
          PROVE  LET y == [x EXCEPT !.still = b]
                 IN CallOK(y) /\ y.op = x.op /\ y.at = x.at /\ y.path = x.path
      BY <2>1 DEF CallOK, IsCall, Fields
    <2>2. call' = [d \in Procs |-> call'[d]] /\ call'[c] = with
      BY <1>2 DEF Changed
    <2>3. ASSUME NEW d \in Procs \ {c}
          PROVE  /\ CallOK(call'[d]) /\ call'[d].op = call[d].op
                 /\ call'[d].at = call[d].at /\ call'[d].path = call[d].path
      <3>1. PICK b : call'[d] = [call[d] EXCEPT !.still = b]
        BY <1>2 DEF Changed
      <3>2. CallOK(call[d])
        BY DEF TreeTypeOK
      <3> QED
        BY <2>1, <3>1, <3>2
    <2> QED
      BY <2>2, <2>3
  <1> QED
    BY <1>1, <1>2

\* A request that leaves the table alone keeps the invariant if it stays above a row.
LEMMA WalkKeeps ==
    ASSUME TreeInv, NEW c \in Procs, NEW with, CallOK(with), Step(c, with),
           with.op \in {"none", call[c].op},
           UNCHANGED <<nodes, lastId, delMet>>,
           ~delMet /\ with.op \in Writers => Under(with.path),
           ~delMet /\ with.op = "del" /\ with.at = "del" => Kids(with.path) = {}
    PROVE  TreeInv'
  <1>1. TreeTypeOK
    BY DEF TreeInv
  <1>2. /\ call' = [d \in Procs |-> call'[d]] /\ \A d \in Procs : CallOK(call'[d])
        /\ call'[c] = with
        /\ \A d \in Procs \ {c} : /\ call'[d].op = call[d].op
                                   /\ call'[d].at = call[d].at /\ call'[d].path = call[d].path
    BY <1>1, OneMoves
  <1>3. TreeTypeOK'
    BY <1>1, <1>2 DEF TreeTypeOK, RowsOK
  <1>4. ASSUME ~delMet PROVE Alone'
    <2>1. Alone
      BY <1>4 DEF TreeInv
    <2>2. \A p : Under(p)' <=> Under(p)
      BY DEF Under
    <2>3. (\A r \in nodes : Under(r.path))'
      BY <2>1 DEF Alone, Under
    <2>4. (\A d \in Procs : call[d].op \in Writers => Under(call[d].path))'
      <3>1. ASSUME NEW d \in Procs, call'[d].op \in Writers PROVE Under(call'[d].path)
        BY <1>2, <1>4, <2>1, <3>1 DEF Alone
      <3> QED
        BY <3>1 DEF Under
    <2>5. (\A d, e \in Procs : d # e /\ call[d].op = "del" => call[e].op \notin Writers)'
      BY <1>2, <2>1 DEF Alone, Writers
    <2>6. (\A d \in Procs : call[d].op = "del" /\ call[d].at = "del" => Bare(d))'
      BY <1>2, <1>4, <2>1 DEF Alone, Bare, Kids
    <2> QED
      BY <2>3, <2>4, <2>5, <2>6 DEF Alone
  <1> QED
    BY <1>3, <1>4 DEF TreeInv

LEMMA DownOK ==
    ASSUME TreeTypeOK, NEW c \in Procs, call[c].op # "none", call[c].at \in {"find", "insert"},
           NEW id \in Nat, NEW then \in {"find", "insert"}
    PROVE  LET y == Down(c, id, then)
           IN CallOK(y) /\ (y.op = "none" \/ (y.op = call[c].op /\ y.at = then /\ y.path = Append(call[c].path, id)))
  <1>1. CASE Arrived(c)
    BY <1>1, IdleOK DEF Down, Idle
  <1>2. CASE ~Arrived(c)
    <2> DEFINE p == Append(call[c].path, id)
               y == [call[c] EXCEPT !.path = p, !.at = then]
    <2>1. CallOK(call[c]) /\ IsCall(call[c])
      BY DEF TreeTypeOK, CallOK
    <2>2. Down(c, id, then) = y
      BY <1>2, <2>1 DEF Down, IsCall, Fields
    <2>3. /\ p \in Seq(Nat) /\ Len(p) = Len(call[c].path) + 1 /\ Len(call[c].path) \in Nat
          /\ call[c].op = "add" => Len(call[c].path) < 3
          /\ call[c].left = {}
      BY <2>1 DEF CallOK
    <2>4. call[c].op = "add" => Len(call[c].path) # 2
      BY <1>2 DEF Arrived, Deep
    <2>5. then \in Stages /\ then # "done" /\ then # "list"
      BY DEF Stages
    <2> HIDE DEF p
    <2>6. /\ IsCall(y) /\ y.op = call[c].op /\ y.at = then /\ y.path = p
          /\ y.left = call[c].left /\ y.node = call[c].node
      BY <2>1 DEF IsCall, Fields
    <2> HIDE DEF y
    <2>7. y.op = "add" => Len(y.path) < 3
      <3>1. Len(y.path) = Len(p)
        BY <2>6
      <3>2. y.op = "add" => Len(p) < 3
        <4> DEFINE k == Len(call[c].path)
        <4>1. k \in Nat /\ Len(p) = k + 1 /\ (call[c].op = "add" => k < 3 /\ k # 2)
          BY <2>3, <2>4
        <4> HIDE DEF k
        <4>2. call[c].op = "add" => Len(p) < 3
          BY <4>1
        <4> QED
          BY <2>6, <4>2
      <3> QED
        BY <3>1, <3>2
    <2>8. CallOK(y)
      BY <2>1, <2>3, <2>5, <2>6, <2>7 DEF CallOK
    <2> QED
      BY <2>2, <2>6, <2>8 DEF p
  <1> QED
    BY <1>1, <1>2

LEMMA DescendKeeps ==
    ASSUME TreeInv, NEW c \in Procs, call[c].op # "none",
           NEW rows, rows \subseteq Kids(call[c].path), NEW missing, CallOK(missing),
           missing.op \in {"none", call[c].op}, missing.op \in Writers => missing.path = call[c].path,
           missing.op = "del" => missing.at # "del", Descend(c, rows, missing)
    PROVE  TreeInv'
  <1>1. UNCHANGED <<nodes, lastId, delMet>> /\ call[c].at = "find"
    BY DEF Descend
  <1>2. TreeTypeOK
    BY DEF TreeInv
  <1>3. CASE rows = {}
    <2>1. Step(c, missing)
      BY <1>3 DEF Descend
    <2>2. ASSUME ~delMet, missing.op \in Writers PROVE Under(missing.path)
      BY <2>2 DEF TreeInv, Alone, Writers
    <2> QED
      BY <1>1, <2>1, <2>2, WalkKeeps
  <1>4. CASE rows # {}
    <2> DEFINE r == FirstOf(rows)
               with == Down(c, r.id, "find")
    <2>1. r \in nodes /\ r.path = call[c].path
      BY <1>2, <1>4, FirstIsThere DEF Kids, TreeTypeOK
    <2>2. r.id \in Nat
      BY <1>2, <2>1 DEF TreeTypeOK, RowsOK
    <2>3. CallOK(with) /\ (with.op = "none" \/ (with.op = call[c].op /\ with.at = "find" /\ with.path = Append(call[c].path, r.id)))
      BY <1>1, <1>2, <2>2, DownOK
    <2>4. with.op \in Writers => Under(with.path)
      BY <2>1, <2>3 DEF Under, Writers
    <2>5. Step(c, with)
      BY <1>4 DEF Descend
    <2>6. with.op \in {"none", call[c].op} /\ ~(with.op = "del" /\ with.at = "del")
      BY <2>3
    <2> HIDE DEF with
    <2> QED
      BY <1>1, <2>3, <2>4, <2>5, <2>6, WalkKeeps
  <1> QED
    BY <1>3, <1>4

-----------------------------------------------------------------------------
(* Rows come and go.                                                       *)

LEMMA InsertKeeps ==
    ASSUME TreeInv, NEW c \in Procs, call[c].op \in {"add", "mount"}, Deep(c) < 3,
           NEW then \in {"find", "insert"}, Insert(c, call[c].path, then)
    PROVE  TreeInv'
  <1> DEFINE new == [id |-> lastId + 1, path |-> call[c].path, name |-> call[c].node[Deep(c) + 1]]
             with == Down(c, lastId + 1, then)
  <1>1. TreeTypeOK /\ lastId \in Nat /\ CallOK(call[c])
    BY DEF TreeInv, TreeTypeOK
  <1>2. lastId' = lastId + 1 /\ nodes' = nodes \cup {new} /\ Changed(c, with) /\ delMet' = delMet
        /\ call[c].at = "insert"
    BY DEF Insert
  <1>3. CallOK(with) /\ (with.op = "none" \/ (with.op = call[c].op /\ with.at = then /\ with.path = Append(call[c].path, lastId + 1)))
    BY <1>1, <1>2, DownOK
  <1>4. /\ call' = [d \in Procs |-> call'[d]] /\ \A d \in Procs : CallOK(call'[d])
        /\ call'[c] = with
        /\ \A d \in Procs \ {c} : /\ call'[d].op = call[d].op
                                   /\ call'[d].at = call[d].at /\ call'[d].path = call[d].path
    <2> HIDE DEF with
    <2> QED
      BY <1>1, <1>2, <1>3, OneMoves
  <1>5. new.id = lastId + 1 /\ new.path = call[c].path /\ new.path \in Seq(Nat) /\ Len(new.path) < 3
    BY <1>1 DEF CallOK, Deep
  <1> HIDE DEF new, with
  <1>6. RowsOK'
    BY <1>1, <1>2, <1>5 DEF TreeTypeOK, RowsOK
  <1>7. \A r, o \in nodes' : r.id = o.id => r = o
    BY <1>1, <1>2, <1>5 DEF TreeTypeOK, RowsOK
  <1>8. TreeTypeOK'
    BY <1>1, <1>2, <1>4, <1>6, <1>7 DEF TreeTypeOK
  <1>9. ASSUME ~delMet PROVE Alone'
    <2>1. Alone
      BY <1>9 DEF TreeInv
    <2>2. ASSUME NEW p, Under(p) PROVE Under(p)'
      BY <1>2, <2>2 DEF Under
    <2>3. Under(call[c].path)
      BY <2>1 DEF Alone, Writers
    <2>4. \A r \in nodes' : Under(r.path)'
      BY <1>2, <1>5, <2>1, <2>2, <2>3 DEF Alone
    <2>5. ASSUME NEW d \in Procs, call'[d].op \in Writers PROVE Under(call[d].path)'
      <3>1. CASE d # c
        BY <1>4, <2>1, <2>2, <2>5, <3>1 DEF Alone
      <3>2. CASE d = c
        BY <1>2, <1>3, <1>4, <1>5, <2>5, <3>2 DEF Under, Writers
      <3> QED
        BY <3>1, <3>2
    <2>6. \A d, e \in Procs : d # e /\ call'[d].op = "del" => call'[e].op \notin Writers
      BY <1>3, <1>4, <2>1 DEF Alone, Writers
    <2>7. \A d \in Procs : call'[d].op # "del"
      BY <1>3, <1>4, <2>1 DEF Alone, Writers
    <2> QED
      BY <2>4, <2>5, <2>6, <2>7 DEF Alone
  <1> QED
    BY <1>2, <1>8, <1>9 DEF TreeInv

\* A deletion takes one row, and there is nothing below it.
LEMMA LeafGoes ==
    ASSUME TreeTypeOK, Alone, NEW c \in Procs, call[c].op = "del", Deep(c) = Len(call[c].node),
           Deep(c) = 3 \/ call[c].at = "del",
           nodes' = {r \in nodes : r.id # call[c].path[Len(call[c].node)]}
    PROVE  \E o \in nodes : /\ call[c].path = Append(o.path, o.id)
                            /\ o.id = call[c].path[Len(call[c].node)]
                            /\ nodes' = nodes \ {o} /\ \A r \in nodes : r.path # call[c].path
  <1> DEFINE n == Len(call[c].node)
  <1>1. CallOK(call[c])
    BY DEF TreeTypeOK
  <1>2. n \in 1..3 /\ Len(call[c].path) = n /\ call[c].path \in Seq(Nat)
    BY <1>1 DEF CallOK, Deep
  <1>3. PICK o \in nodes : call[c].path = Append(o.path, o.id)
    <2>1. call[c].path # <<>>
      <3>1. Len(<<>>) = 0
        OBVIOUS
      <3> HIDE DEF n
      <3> QED
        BY <1>2, <3>1
    <2> QED
      BY <2>1 DEF Alone, Under, Writers
  <1>4. o.path \in Seq(Nat) /\ o.id \in Nat
    BY DEF TreeTypeOK, RowsOK
  <1>5. call[c].path[n] = o.id
    BY <1>2, <1>3, <1>4
  <1>6. nodes' = nodes \ {o}
    BY <1>5 DEF TreeTypeOK
  <1>7. ASSUME NEW r \in nodes PROVE r.path # call[c].path
    <2>1. CASE call[c].at = "del"
      BY <2>1 DEF Alone, Bare, Kids
    <2>2. CASE Deep(c) = 3
      <3>1. Len(call[c].path) = 3 /\ Len(r.path) < 3
        BY <2>2 DEF TreeTypeOK, RowsOK, Deep
      <3>2. r.path = call[c].path => Len(r.path) = Len(call[c].path)
        OBVIOUS
      <3>3. Len(r.path) # 3
        <4>1. \A k : k < 3 => k # 3
          BY <3>1
        <4> QED
          BY <3>1, <4>1
      <3> QED
        BY <3>1, <3>2, <3>3, Zenon
    <2> QED
      BY <2>1, <2>2
  <1> QED
    BY <1>3, <1>5, <1>6, <1>7

\* Below the node that goes there is nothing, and nobody else is on the way down.
LEMMA DeleteKeeps ==
    ASSUME TreeInv, NEW c \in Procs, call[c].op = "del", Deep(c) = Len(call[c].node),
           Deep(c) = 3 \/ call[c].at = "del",
           nodes' = {r \in nodes : r.id # call[c].path[Len(call[c].node)]},
           Changed(c, Ended(c, {})), UNCHANGED <<lastId, delMet>>
    PROVE  TreeInv'
  <1> DEFINE n == Len(call[c].node)
             with == Ended(c, {})
  <1>1. TreeTypeOK /\ CallOK(call[c])
    BY DEF TreeInv, TreeTypeOK
  <1>2. CallOK(with) /\ with.op \notin Writers /\ Changed(c, with)
    BY <1>1, EndedOK
  <1>3. /\ call' = [d \in Procs |-> call'[d]] /\ \A d \in Procs : CallOK(call'[d])
        /\ call'[c] = with
        /\ \A d \in Procs \ {c} : /\ call'[d].op = call[d].op
                                   /\ call'[d].at = call[d].at /\ call'[d].path = call[d].path
    <2> HIDE DEF with
    <2> QED
      BY <1>1, <1>2, OneMoves
  <1>4. TreeTypeOK'
    BY <1>1, <1>3 DEF TreeTypeOK, RowsOK
  <1>5. ASSUME ~delMet PROVE Alone'
    <2>1. Alone
      BY <1>5 DEF TreeInv
    <2>2. PICK o \in nodes : /\ call[c].path = Append(o.path, o.id) /\ nodes' = nodes \ {o}
                              /\ \A r \in nodes : r.path # call[c].path
      BY <1>1, <2>1, LeafGoes
    <2>3. call[c].path = Append(o.path, o.id)
      BY <2>2
    <2>4. nodes' = nodes \ {o}
      BY <2>2
    <2>5. \A r \in nodes : r.path # call[c].path
      BY <2>2
    <2>6. ASSUME NEW r \in nodes' PROVE Under(r.path)'
      <3>1. r \in nodes /\ Under(r.path)
        BY <2>1, <2>4 DEF Alone
      <3>2. \A p \in nodes : r.path = Append(p.path, p.id) => p # o
        BY <2>3, <2>5, <3>1
      <3> QED
        BY <2>4, <3>1, <3>2 DEF Under
    <2>7. \A d \in Procs : call'[d].op \notin Writers
      BY <1>2, <1>3, <2>1 DEF Alone, Writers
    <2> QED
      BY <2>6, <2>7 DEF Alone, Writers
  <1> QED
    BY <1>4, <1>5 DEF TreeInv

LEMMA BeginKeeps ==
    ASSUME TreeInv, NEW c \in Procs, call[c].op = "none",
           NEW q, q.op \in Ops, q.op = "del" => Len(q.node) \in 1..3, Begin(c, q)
    PROVE  TreeInv'
  <1> DEFINE with == [Idle EXCEPT !.op = q.op, !.node = q.node, !.hosts = q.hosts]
             met == {d \in Procs \ {c} : Writing(d)}
  <1>1. TreeTypeOK
    BY DEF TreeInv
  <1>2. /\ Step(c, with) /\ UNCHANGED <<nodes, lastId>>
        /\ delMet' = (delMet \/ /\ q.op \in Writers
                                /\ \E d \in met : "del" \in {q.op, call[d].op})
    BY DEF Begin
  <1>3. /\ IsCall(with) /\ with.op = q.op /\ with.node = q.node /\ with.at = "find"
        /\ with.path = <<>> /\ with.left = {}
    BY DEF Idle, IsCall, Fields
  <1> HIDE DEF with
  <1>4. <<>> \in Seq(Nat) /\ Len(<<>>) = 0
    OBVIOUS
  <1>5. CallOK(with)
    BY <1>3, <1>4 DEF CallOK, Stages
  <1>6. /\ call' = [d \in Procs |-> call'[d]] /\ \A d \in Procs : CallOK(call'[d])
        /\ call'[c] = with
        /\ \A d \in Procs \ {c} : /\ call'[d].op = call[d].op
                                   /\ call'[d].at = call[d].at /\ call'[d].path = call[d].path
    BY <1>1, <1>2, <1>5, OneMoves
  <1>7. TreeTypeOK'
    BY <1>1, <1>2, <1>6 DEF TreeTypeOK, RowsOK
  <1>8. ASSUME ~delMet' PROVE Alone'
    <2>1. Alone
      BY <1>2, <1>8 DEF TreeInv
    <2>2. \A d \in Procs \ {c} : call[d].op \in Writers => d \in met
      BY <1>1 DEF TreeTypeOK, CallOK, Writing
    <2>3. ASSUME NEW d \in Procs \ {c}, call[d].op \in Writers, q.op \in Writers
          PROVE  q.op # "del" /\ call[d].op # "del"
      BY <1>2, <1>8, <2>2, <2>3
    <2>4. \A r \in nodes' : Under(r.path)'
      BY <1>2, <2>1 DEF Alone, Under
    <2>5. \A d \in Procs : call'[d].op \in Writers => Under(call[d].path)'
      <3>1. ASSUME NEW d \in Procs, call'[d].op \in Writers PROVE Under(call'[d].path)
        BY <1>3, <1>6, <2>1, <3>1 DEF Alone, Under
      <3> QED
        BY <1>2, <3>1 DEF Under
    <2>6. \A d, e \in Procs : d # e /\ call'[d].op = "del" => call'[e].op \notin Writers
      <3>1. "del" \in Writers
        BY DEF Writers
      <3> QED
        BY <1>3, <1>6, <2>1, <2>3, <3>1 DEF Alone
    <2>7. \A d \in Procs : call'[d].op = "del" /\ call'[d].at = "del" => Bare(d)'
      BY <1>2, <1>3, <1>6, <2>1 DEF Alone, Bare, Kids
    <2> QED
      BY <2>4, <2>5, <2>6, <2>7 DEF Alone
  <1> QED
    BY <1>7, <1>8 DEF TreeInv

-----------------------------------------------------------------------------
(* Each operation.                                                         *)

LEMMA StageOK ==
    ASSUME NEW x, CallOK(x), x.left = {}, NEW at \in {"find", "insert", "del"}
    PROVE  LET y == [x EXCEPT !.at = at] IN CallOK(y) /\ y.op = x.op /\ y.path = x.path /\ y.at = at
  <1>1. at \in Stages /\ at # "done" /\ at # "list"
    BY DEF Stages
  <1> QED
    BY <1>1 DEF CallOK, IsCall, Fields

LEMMA EndsKeep ==
    ASSUME TreeInv, NEW c \in Procs, call[c].op # "none", NEW got,
           Step(c, Ended(c, got)), UNCHANGED <<nodes, lastId, delMet>>
    PROVE  TreeInv'
  <1> DEFINE with == Ended(c, got)
  <1>1. CallOK(with) /\ with.op \in {"none", call[c].op} /\ with.op \notin Writers /\ Step(c, with)
    BY EndedOK DEF TreeInv
  <1>2. with.op # "del"
    BY <1>1 DEF Writers
  <1> HIDE DEF with
  <1> QED
    BY <1>1, <1>2, WalkKeeps

LEMMA WalksKeep ==
    ASSUME TreeInv, NEW c \in Procs, call[c].op # "none",
           NEW rows, rows \subseteq Kids(call[c].path), Descend(c, rows, Ended(c, {}))
    PROVE  TreeInv'
  <1> DEFINE with == Ended(c, {})
  <1>1. CallOK(with) /\ with.op \in {"none", call[c].op} /\ with.op \notin Writers /\ Descend(c, rows, with)
    BY EndedOK DEF TreeInv
  <1>2. with.op # "del"
    BY <1>1 DEF Writers
  <1> HIDE DEF with
  <1> QED
    BY <1>1, <1>2, DescendKeeps

LEMMA FoundAmongKids ==
    ASSUME NEW path, NEW name
    PROVE  Match(path, name) \subseteq Kids(path) /\ MatchExactly(path, name) \subseteq Kids(path)
  BY DEF Match, MatchExactly

LEMMA AddsKeep ==
    ASSUME TreeInv, NEW c \in Procs, StreeAdd(c) \/ CheckPathExists(c)
    PROVE  TreeInv'
  <1>1. CallOK(call[c]) /\ call[c].op \in {"add", "mount"}
    BY DEF TreeInv, TreeTypeOK, StreeAdd, CheckPathExists, Running
  <1>2. CASE FindOrInsert(c)
    <2> DEFINE with == [call[c] EXCEPT !.at = "insert"]
               rows == Match(call[c].path, call[c].node[Deep(c) + 1])
    <2>1. Descend(c, rows, with) /\ call[c].at = "find"
      BY <1>2 DEF FindOrInsert, Descend
    <2>2. CallOK(with) /\ with.op = call[c].op /\ with.path = call[c].path /\ with.at = "insert"
      <3>1. call[c].left = {}
        BY <1>1, <2>1 DEF CallOK
      <3> QED
        BY <1>1, <3>1, StageOK
    <2>3. rows \subseteq Kids(call[c].path)
      BY FoundAmongKids
    <2> HIDE DEF with, rows
    <2> QED
      BY <1>1, <2>1, <2>2, <2>3, DescendKeeps
  <1>3. ASSUME NEW then \in {"find", "insert"}, Insert(c, call[c].path, then) PROVE TreeInv'
    <2>1. Deep(c) < 3
      BY <1>1 DEF StreeAdd, CheckPathExists, Running, CallOK, Deep
    <2> QED
      BY <1>1, <1>3, <2>1, InsertKeeps
  <1> QED
    BY <1>2, <1>3 DEF StreeAdd, CheckPathExists

LEMMA MountsKeep ==
    ASSUME TreeInv, NEW c \in Procs, ResourceMount(c) \/ ResourceUnMount(c)
    PROVE  TreeInv'
  <1>1. call[c].op # "none"
    BY DEF ResourceMount, ResourceUnMount, Running
  <1>2. CASE ResourceUnMount(c) /\ Walk(c)
    BY <1>1, <1>2, WalksKeep, FoundAmongKids DEF Walk
  <1>3. CASE Step(c, Ended(c, {})) /\ UNCHANGED <<nodes, lastId, delMet>>
    BY <1>1, <1>3, EndsKeep
  <1> QED
    BY <1>2, <1>3 DEF ResourceMount, ResourceUnMount, history

LEMMA QueriesKeep ==
    ASSUME TreeInv, NEW c \in Procs,
           QueryProducts(c) \/ QueryGroup(c) \/ QueryProduct(c) \/ QueryPath(c) \/ QueryAll(c)
    PROVE  TreeInv'
  <1>1. call[c].op \in Queries /\ call[c].op # "none" /\ call[c].op \notin Writers
    BY DEF QueryProducts, QueryGroup, QueryProduct, QueryPath, QueryAll, Running, Queries, Writers
  <1>2. CASE Walk(c)
    BY <1>1, <1>2, WalksKeep, FoundAmongKids DEF Walk
  <1>3. CASE Descend(c, MatchExactly(call[c].path, call[c].node[2]), Ended(c, {}))
    BY <1>1, <1>3, WalksKeep, FoundAmongKids
  <1>4. ASSUME NEW got, Reply(c, got) PROVE TreeInv'
    BY <1>1, <1>4, EndsKeep DEF Reply, history
  <1>5. CASE QueryGroup(c) /\ ~Walk(c)
    <2>1. call[c].op = "q2" /\ UNCHANGED <<nodes, lastId, delMet>>
      BY <1>5 DEF QueryGroup, Running, history
    <2>2. CASE Step(c, Ended(c, call[c].got))
      BY <1>1, <2>1, <2>2, EndsKeep
    <2>3. ASSUME NEW left, NEW got, Step(c, [call[c] EXCEPT !.at = "list", !.left = left, !.got = got]) PROVE TreeInv'
      <3> DEFINE with == [call[c] EXCEPT !.at = "list", !.left = left, !.got = got]
      <3>1. CallOK(call[c])
        BY DEF TreeInv, TreeTypeOK
      <3>2. IsCall(with) /\ with.op = "q2" /\ with.at = "list" /\ with.path = call[c].path
        BY <2>1, <3>1 DEF CallOK, IsCall, Fields
      <3>3. Step(c, with)
        BY <2>3
      <3> HIDE DEF with
      <3>4. CallOK(with)
        BY <3>1, <3>2 DEF CallOK, Stages, Ops, Writers
      <3>5. with.op \notin Writers /\ with.op # "del" /\ with.op = call[c].op
        BY <2>1, <3>2 DEF Writers
      <3> QED
        BY <2>1, <3>3, <3>4, <3>5, WalkKeeps
    <2>4. IsCall(call[c])
      BY DEF TreeInv, TreeTypeOK, CallOK
    <2>5. ASSUME NEW left
          PROVE  [call[c] EXCEPT !.at = "list", !.left = left]
                    = [call[c] EXCEPT !.at = "list", !.left = left, !.got = call[c].got]
      BY <2>4 DEF IsCall, Fields
    <2>6. ASSUME NEW left, Step(c, [call[c] EXCEPT !.at = "list", !.left = left]) PROVE TreeInv'
      BY <2>3, <2>5, <2>6
    <2>7. ASSUME NEW left, NEW got, call[c].at = "list", Step(c, [call[c] EXCEPT !.left = left, !.got = got])
          PROVE  TreeInv'
      <3>1. [call[c] EXCEPT !.left = left, !.got = got] = [call[c] EXCEPT !.at = "list", !.left = left, !.got = got]
        BY <2>4, <2>7 DEF IsCall, Fields
      <3> QED
        BY <2>3, <2>7, <3>1
    <2> QED
      BY <1>5, <2>2, <2>6, <2>7 DEF QueryGroup
  <1> QED
    BY <1>2, <1>3, <1>4, <1>5 DEF QueryProducts, QueryGroup, QueryProduct, QueryPath, QueryAll

LEMMA StreeDeleteKeeps ==
    ASSUME TreeInv, NEW c \in Procs, StreeDelete(c)
    PROVE  TreeInv'
  <1>1. CallOK(call[c]) /\ call[c].op = "del"
    BY DEF TreeInv, TreeTypeOK, StreeDelete, Running
  <1>2. ASSUME NEW rows, rows \subseteq Kids(call[c].path), Descend(c, rows, Ended(c, {})) PROVE TreeInv'
    BY <1>1, <1>2, WalksKeep
  <1>3. CASE /\ Step(c, IF Bare(c) THEN [call[c] EXCEPT !.at = "del"] ELSE Ended(c, {}))
             /\ call[c].at = "find" /\ UNCHANGED <<nodes, lastId, delMet>>
    <2>1. CASE ~Bare(c)
      BY <1>1, <1>3, <2>1, EndsKeep
    <2>2. CASE Bare(c)
      <3> DEFINE with == [call[c] EXCEPT !.at = "del"]
      <3>1. call[c].left = {}
        BY <1>1, <1>3 DEF CallOK
      <3>2. CallOK(with) /\ with.op = "del" /\ with.path = call[c].path
        BY <1>1, <3>1, StageOK
      <3>3. Step(c, with)
        BY <1>3, <2>2
      <3>4. ~delMet => Under(with.path)
        BY <1>1, <3>2 DEF TreeInv, Alone, Writers
      <3>5. Kids(with.path) = {}
        BY <2>2, <3>2 DEF Bare
      <3> HIDE DEF with
      <3> QED
        BY <1>1, <1>3, <3>2, <3>3, <3>4, <3>5, WalkKeeps
    <2> QED
      BY <2>1, <2>2
  <1>4. CASE /\ Deep(c) = Len(call[c].node) /\ (Deep(c) = 3 \/ call[c].at = "del")
             /\ nodes' = {r \in nodes : r.id # call[c].path[Len(call[c].node)]}
             /\ Changed(c, Ended(c, {})) /\ UNCHANGED <<lastId, delMet>>
    BY <1>1, <1>4, DeleteKeeps
  <1> QED
    BY <1>2, <1>3, <1>4, FoundAmongKids DEF StreeDelete, history

LEMMA RefusedKeeps ==
    ASSUME TreeInv, NEW c \in Procs, Refused(c)
    PROVE  TreeInv'
  <1>1. CallOK(call[c]) /\ call[c].op # "none" /\ UNCHANGED <<nodes, lastId, delMet>>
    BY DEF TreeInv, TreeTypeOK, Refused, history
  <1>2. CASE call[c].left = {}
    <2> DEFINE e == Ended(c, {})
               with == [e EXCEPT !.failed = TRUE]
    <2>1. CallOK(e) /\ e.op \in {"none", call[c].op} /\ e.op \notin Writers
      BY <1>1, EndedOK DEF TreeInv
    <2>2. Step(c, with)
      BY <1>2 DEF Refused
    <2> HIDE DEF e
    <2>3. CallOK(with) /\ with.op = e.op
      BY <2>1, FailedOK
    <2>4. with.op # "del" /\ with.op \notin Writers
      BY <2>1, <2>3 DEF Writers
    <2> HIDE DEF with
    <2> QED
      BY <1>1, <2>1, <2>2, <2>3, <2>4, WalkKeeps
  <1>3. CASE call[c].left # {}
    <2> DEFINE left == call[c].left \ {FirstOf(call[c].left)}
               with == [call[c] EXCEPT !.left = left, !.failed = TRUE]
    <2>1. Step(c, with)
      BY <1>3 DEF Refused
    <2>2. call[c].at = "list" /\ call[c].op = "q2"
      BY <1>1, <1>3 DEF CallOK
    <2> HIDE DEF left
    <2>3. IsCall(with) /\ with.op = "q2" /\ with.at = "list" /\ with.path = call[c].path
      BY <1>1, <2>2 DEF CallOK, IsCall, Fields
    <2> HIDE DEF with
    <2>4. CallOK(with)
      BY <1>1, <2>2, <2>3 DEF CallOK, Stages, Ops, Writers
    <2>5. with.op \notin Writers /\ with.op # "del" /\ with.op = call[c].op
      BY <2>2, <2>3 DEF Writers
    <2> QED
      BY <1>1, <2>1, <2>4, <2>5, WalkKeeps
  <1> QED
    BY <1>2, <1>3

LEMMA RequestsKeep ==
    ASSUME TreeInv, NEW c \in Callers, Request(c)
    PROVE  TreeInv'
  <1>1. PICK q \in Requests : Begin(c, q)
    BY DEF Request
  <1>2. q.op \in Ops /\ Len(q.node) \in 1..3
    BY RequestsAssumption
  <1> QED
    BY <1>1, <1>2, BeginKeeps DEF Request, Procs

LEMMA FlushPathKeeps ==
    ASSUME TreeInv, FlushPath
    PROVE  TreeInv'
  <1>1. PICK n \in flush : Begin(Flusher, [op |-> "add", node |-> n, hosts |-> {}])
    BY DEF FlushPath
  <1> DEFINE q == [op |-> "add", node |-> n, hosts |-> {}]
  <1>2. q.op = "add" /\ q.op \in Ops /\ Begin(Flusher, q)
    BY <1>1 DEF Ops
  <1> HIDE DEF q
  <1> QED
    BY <1>2, BeginKeeps DEF FlushPath, Procs

LEMMA TreeInvInit == Init => TreeInv
  <1> SUFFICES ASSUME Init PROVE TreeInv
    OBVIOUS
  <1>1. TreeTypeOK
    BY IdleOK DEF Init, TreeTypeOK, RowsOK
  <1>2. Alone
    BY DEF Init, Alone, Writers, Idle
  <1> QED
    BY <1>1, <1>2 DEF TreeInv

LEMMA TreeInvStep == TreeInv /\ [Next]_vars => TreeInv'
  <1> SUFFICES ASSUME TreeInv, [Next]_vars PROVE TreeInv'
    OBVIOUS
  <1>1. CASE UNCHANGED <<nodes, lastId, call, delMet>>
    BY <1>1 DEF TreeInv, TreeTypeOK, RowsOK, Alone, Under, Bare, Kids, Deep
  <1>2. ASSUME NEW c \in Procs, Return(c) PROVE TreeInv'
    <2>1. Step(c, Idle) /\ UNCHANGED <<nodes, lastId, delMet>>
      BY <1>2 DEF Return, history
    <2>2. Idle.op = "none" /\ Idle.op \notin Writers
      BY DEF Idle, Writers
    <2> QED
      BY <2>1, <2>2, IdleOK, WalkKeeps
  <1>3. CASE UNCHANGED vars \/ FlushIndex
    BY <1>1, <1>3 DEF vars, FlushIndex, history
  <1> QED
    BY <1>2, <1>3, AddsKeep, MountsKeep, QueriesKeep, StreeDeleteKeeps, RefusedKeeps, RequestsKeep,
       FlushPathKeeps DEF Next, Serve

(* StreeDelete takes no row away that something is below, and StreeAdd and    *)
(* CheckPathExists put none below a row that is gone, in however many         *)
(* statements and whichever of them fail, until a deletion meets a writer.    *)
THEOREM NothingOrphaned == Spec => []NoOrphans
  <1>1. TreeInv => NoOrphans
    BY DEF TreeInv, Alone, Under, NoOrphans
  <1> QED
    BY <1>1, TreeInvInit, TreeInvStep, PTL DEF Spec

-----------------------------------------------------------------------------
(* What the other requests keep, and the kinds of step there are.          *)

Adders == {"add", "mount"}

LEMMA OthersStay ==
    ASSUME TreeTypeOK, NEW c \in Procs, NEW with, Step(c, with) \/ Changed(c, with)
    PROVE  /\ call'[c] = with
           /\ \A d \in Procs \ {c} :
                /\ call'[d].op = call[d].op /\ call'[d].node = call[d].node
                /\ call'[d].at = call[d].at /\ call'[d].path = call[d].path
  <1>1. CASE Step(c, with)
    BY <1>1 DEF Step, TreeTypeOK
  <1>2. CASE Changed(c, with)
    <2>1. call'[c] = with
      BY <1>2 DEF Changed
    <2>2. ASSUME NEW d \in Procs \ {c}
          PROVE  /\ call'[d].op = call[d].op /\ call'[d].node = call[d].node
                 /\ call'[d].at = call[d].at /\ call'[d].path = call[d].path
      <3>1. PICK b : call'[d] = [call[d] EXCEPT !.still = b]
        BY <1>2 DEF Changed
      <3>2. IsCall(call[d])
        BY DEF TreeTypeOK, CallOK
      <3> QED
        BY <3>1, <3>2 DEF IsCall, Fields
    <2> QED
      BY <2>1, <2>2
  <1> QED
    BY <1>1, <1>2

\* A step that neither touches the rows nor adds a path.
Aside(c, with) ==
    /\ Step(c, with) /\ UNCHANGED <<nodes, lastId, acked, addsMet, delMet>>
    /\ with.op \notin Adders /\ with.op \in {"none", call[c].op}

\* A statement that looks for the next node.
Looks(c) == \E rows, missing :
    /\ rows \subseteq Match(call[c].path, call[c].node[Deep(c) + 1])
    /\ Descend(c, rows, missing)
    /\ call[c].op # "none"
    /\ call[c].op \in Adders => /\ missing = [call[c] EXCEPT !.at = "insert"]
                               /\ rows = Match(call[c].path, call[c].node[Deep(c) + 1])
    /\ call[c].op \notin Adders => missing.op \in {"none", call[c].op} \ Writers

Inserts(c) ==
    /\ call[c].op \in Adders /\ Deep(c) < 3
    /\ \E then \in {"find", "insert"} : Insert(c, call[c].path, then)

Deletes(c) == LET n == Len(call[c].node) IN
    /\ call[c].op = "del" /\ Deep(c) = n
    /\ Deep(c) = 3 \/ call[c].at = "del"
    /\ nodes' = {r \in nodes : r.id # call[c].path[n]}
    /\ Forget(c, call[c].path[n])
    /\ Changed(c, Ended(c, {}))
    /\ UNCHANGED <<lastId, addsMet, delMet>>

Begins(c) ==
    /\ call[c].op = "none"
    /\ \E q : /\ Begin(c, q) /\ q.op \in Ops
              /\ c \in Callers => q \in Requests
              /\ c \notin Callers => q.op = "add"

Moves(c) == \/ Looks(c) \/ Inserts(c) \/ ResourceMount(c) \/ Deletes(c)
            \/ \E with : Aside(c, with)

LEMMA ExactlyMatches ==
    ASSUME NEW path, NEW name
    PROVE  MatchExactly(path, name) \subseteq Match(path, name)
  BY DEF Match, MatchExactly

LEMMA WalkLooks ==
    ASSUME TreeTypeOK, NEW c \in Procs, call[c].op \notin Adders, call[c].op # "none",
           NEW rows, rows \subseteq Match(call[c].path, call[c].node[Deep(c) + 1]),
           Descend(c, rows, Ended(c, {}))
    PROVE  Looks(c)
  <1>1. Ended(c, {}).op \in {"none", call[c].op} \ Writers
    BY EndedOK
  <1> QED
    BY <1>1 DEF Looks

LEMMA EndIsAside ==
    ASSUME TreeTypeOK, NEW c \in Procs, call[c].op # "none", NEW got, Step(c, Ended(c, got)),
           UNCHANGED <<nodes, lastId, acked, addsMet, delMet>>
    PROVE  \E with : Aside(c, with)
  <1>1. Ended(c, got).op \in {"none", call[c].op} \ Writers
    BY EndedOK
  <1> QED
    BY <1>1 DEF Aside, Adders, Writers

LEMMA QueriesAreAside ==
    ASSUME TreeTypeOK, NEW c \in Procs,
           QueryProducts(c) \/ QueryGroup(c) \/ QueryProduct(c) \/ QueryPath(c) \/ QueryAll(c)
    PROVE  Looks(c) \/ \E with : Aside(c, with)
  <1>1. call[c].op \in Queries /\ call[c].op # "none" /\ call[c].op \notin Writers /\ call[c].op \notin Adders
    BY DEF QueryProducts, QueryGroup, QueryProduct, QueryPath, QueryAll, Running, Queries, Writers, Adders
  <1>2. CASE Walk(c)
    BY <1>1, <1>2, WalkLooks DEF Walk
  <1>3. CASE Deep(c) = 1 /\ Descend(c, MatchExactly(call[c].path, call[c].node[2]), Ended(c, {}))
    <2>1. MatchExactly(call[c].path, call[c].node[2]) \subseteq Match(call[c].path, call[c].node[Deep(c) + 1])
      BY <1>3, ExactlyMatches
    <2> QED
      BY <1>1, <1>3, <2>1, WalkLooks
  <1>4. ASSUME NEW got, Reply(c, got) PROVE \E with : Aside(c, with)
    BY <1>1, <1>4, EndIsAside DEF Reply, history
  <1>5. CASE QueryGroup(c) /\ ~Walk(c)
    <2>1. UNCHANGED <<nodes, lastId, acked, addsMet, delMet>>
      BY <1>5 DEF QueryGroup, history
    <2>2. CASE Step(c, Ended(c, call[c].got))
      BY <1>1, <2>1, <2>2, EndIsAside
    <2>3. ASSUME NEW with, with.op = call[c].op, Step(c, with) PROVE Aside(c, with)
      BY <1>1, <2>1, <2>3 DEF Aside
    <2>4. IsCall(call[c])
      BY DEF TreeTypeOK, CallOK
    <2>5. ASSUME NEW left, Step(c, [call[c] EXCEPT !.at = "list", !.left = left]) PROVE \E with : Aside(c, with)
      <3> DEFINE with == [call[c] EXCEPT !.at = "list", !.left = left]
      <3>1. with.op = call[c].op
        BY <2>4 DEF IsCall, Fields
      <3> QED
        BY <2>3, <2>5, <3>1
    <2>6. ASSUME NEW left, NEW got, Step(c, [call[c] EXCEPT !.left = left, !.got = got]) PROVE \E with : Aside(c, with)
      <3> DEFINE with == [call[c] EXCEPT !.left = left, !.got = got]
      <3>1. with.op = call[c].op
        BY <2>4 DEF IsCall, Fields
      <3> QED
        BY <2>3, <2>6, <3>1
    <2> QED
      BY <1>5, <2>2, <2>5, <2>6 DEF QueryGroup
  <1> QED
    BY <1>2, <1>3, <1>4, <1>5 DEF QueryProducts, QueryGroup, QueryProduct, QueryPath, QueryAll

LEMMA DeletesAreKnown ==
    ASSUME TreeTypeOK, NEW c \in Procs, StreeDelete(c)
    PROVE  Looks(c) \/ Deletes(c) \/ \E with : Aside(c, with)
  <1>1. call[c].op = "del" /\ call[c].op \notin Adders /\ call[c].op \in Writers
    BY DEF StreeDelete, Running, Adders, Writers
  <1>2. ASSUME NEW rows, rows \subseteq Match(call[c].path, call[c].node[Deep(c) + 1]), Descend(c, rows, Ended(c, {}))
        PROVE  Looks(c)
    BY <1>1, <1>2, WalkLooks
  <1>3. CASE /\ Step(c, IF Bare(c) THEN [call[c] EXCEPT !.at = "del"] ELSE Ended(c, {}))
             /\ UNCHANGED <<nodes, lastId, acked, addsMet, delMet>>
    <2>1. CASE ~Bare(c)
      BY <1>1, <1>3, <2>1, EndIsAside
    <2>2. CASE Bare(c)
      <3> DEFINE with == [call[c] EXCEPT !.at = "del"]
      <3>1. with.op = "del"
        BY <1>1 DEF TreeTypeOK, CallOK, IsCall, Fields
      <3>2. Aside(c, with)
        BY <1>1, <1>3, <2>2, <3>1 DEF Aside
      <3> QED
        BY <3>2
    <2> QED
      BY <2>1, <2>2
  <1>4. MatchExactly(call[c].path, call[c].node[Deep(c) + 1]) \subseteq Match(call[c].path, call[c].node[Deep(c) + 1])
    BY ExactlyMatches
  <1>5. CASE Deep(c) < Len(call[c].node) /\ Descend(c, IF Deep(c) = 2 THEN MatchExactly(call[c].path, call[c].node[Deep(c) + 1])
                           ELSE Match(call[c].path, call[c].node[Deep(c) + 1]), Ended(c, {}))
    BY <1>2, <1>4, <1>5
  <1>6. CASE /\ Deep(c) = Len(call[c].node) /\ (Len(call[c].node) = 3 \/ call[c].at = "del")
             /\ nodes' = {r \in nodes : r.id # call[c].path[Len(call[c].node)]}
             /\ Forget(c, call[c].path[Len(call[c].node)])
             /\ Changed(c, Ended(c, {})) /\ UNCHANGED <<lastId, addsMet, delMet>>
    BY <1>1, <1>6 DEF Deletes
  <1> QED
    BY <1>3, <1>5, <1>6 DEF StreeDelete, history

LEMMA RefusedIsAside ==
    ASSUME TreeTypeOK, NEW c \in Procs, Refused(c)
    PROVE  \E with : Aside(c, with)
  <1>1. CallOK(call[c]) /\ call[c].op # "none" /\ UNCHANGED <<nodes, lastId, acked, addsMet, delMet>>
    BY DEF TreeTypeOK, Refused, history
  <1>2. CASE call[c].left = {}
    <2> DEFINE e == Ended(c, {})
               with == [e EXCEPT !.failed = TRUE]
    <2>1. CallOK(e) /\ e.op \in {"none", call[c].op} \ Writers
      BY <1>1, EndedOK
    <2>2. Step(c, with)
      BY <1>2 DEF Refused
    <2> HIDE DEF e
    <2>3. with.op \in {"none", call[c].op} \ Writers
      BY <2>1, FailedOK
    <2> HIDE DEF with
    <2> QED
      BY <1>1, <2>2, <2>3 DEF Aside, Adders, Writers
  <1>3. CASE call[c].left # {}
    <2> DEFINE left == call[c].left \ {FirstOf(call[c].left)}
               with == [call[c] EXCEPT !.left = left, !.failed = TRUE]
    <2>1. Step(c, with)
      BY <1>3 DEF Refused
    <2> HIDE DEF left
    <2>2. with.op = "q2" /\ call[c].op = "q2"
      BY <1>1, <1>3 DEF CallOK, IsCall, Fields
    <2> HIDE DEF with
    <2> QED
      BY <1>1, <2>1, <2>2 DEF Aside, Adders, Writers
  <1> QED
    BY <1>2, <1>3

LEMMA AddsAreKnown ==
    ASSUME TreeTypeOK, NEW c \in Procs, StreeAdd(c) \/ CheckPathExists(c)
    PROVE  Looks(c) \/ Inserts(c)
  <1>1. CallOK(call[c]) /\ call[c].op \in Adders /\ call[c].op # "none"
    BY DEF TreeTypeOK, StreeAdd, CheckPathExists, Running, Adders
  <1>2. CASE FindOrInsert(c)
    BY <1>1, <1>2 DEF FindOrInsert, Looks
  <1>3. ASSUME NEW then \in {"find", "insert"}, Insert(c, call[c].path, then) PROVE Inserts(c)
    <2>1. Deep(c) < 3
      BY <1>1 DEF StreeAdd, CheckPathExists, Running, CallOK, Deep
    <2> QED
      BY <1>1, <1>3, <2>1 DEF Inserts
  <1> QED
    BY <1>2, <1>3 DEF StreeAdd, CheckPathExists

LEMMA ServesAreKnown ==
    ASSUME TreeTypeOK, NEW c \in Procs, Serve(c) \/ Refused(c)
    PROVE  Moves(c)
  <1>1. Return(c) => Aside(c, Idle)
    BY DEF Return, Aside, history, Idle, Adders, Writers
  <1>2. ASSUME ResourceUnMount(c) PROVE Looks(c) \/ \E with : Aside(c, with)
    <2>1. call[c].op # "none" /\ call[c].op \notin Adders
      BY <1>2 DEF ResourceUnMount, Running, Adders
    <2>2. CASE Walk(c)
      BY <2>1, <2>2, WalkLooks DEF Walk
    <2>3. CASE Step(c, Ended(c, {})) /\ UNCHANGED <<nodes, lastId, acked, addsMet, delMet>>
      BY <2>1, <2>3, EndIsAside
    <2> QED
      BY <1>2, <2>2, <2>3 DEF ResourceUnMount, history
  <1> QED
    BY <1>1, <1>2, AddsAreKnown, QueriesAreAside, DeletesAreKnown, RefusedIsAside DEF Serve, Moves

LEMMA StepKinds ==
    ASSUME TreeTypeOK, [Next]_vars
    PROVE  \/ UNCHANGED <<nodes, lastId, call, acked, addsMet, delMet>>
           \/ \E c \in Procs : Begins(c) \/ (Moves(c) /\ (Serve(c) \/ Refused(c)))
  <1>1. ASSUME NEW c \in Callers, Request(c) PROVE Begins(c)
    BY <1>1, RequestsAssumption DEF Request, Begins
  <1>2. ASSUME FlushPath PROVE Begins(Flusher) /\ Flusher \in Procs
    <2>1. PICK n \in flush : Begin(Flusher, [op |-> "add", node |-> n, hosts |-> {}])
      BY <1>2 DEF FlushPath
    <2> DEFINE q == [op |-> "add", node |-> n, hosts |-> {}]
    <2>2. q.op = "add" /\ q.op \in Ops /\ Begin(Flusher, q)
      BY <2>1 DEF Ops
    <2> HIDE DEF q
    <2> QED
      BY <1>2, <2>2, CallersAssumption DEF FlushPath, Begins, Procs
  <1>3. CASE UNCHANGED vars \/ FlushIndex
    BY <1>3 DEF vars, FlushIndex, history
  <1>4. Callers \subseteq Procs
    BY DEF Procs
  <1> QED
    BY <1>1, <1>2, <1>3, <1>4, ServesAreKnown DEF Next

-----------------------------------------------------------------------------
(* Every path that was added is in the full list.                          *)

Fits(r, name) == name = NoName \/ r.name = name

\* The rows walked so far lie below each other and bear the names asked for.
On(rows, path, node) == \A k \in 1..Len(path) :
    \E r \in rows : r.id = path[k] /\ r.path = SubSeq(path, 1, k - 1) /\ Fits(r, node[k])

Triple(n) == n = <<n[1], n[2], n[3]>>

\* Only paths of three names are added and told.
Asked ==
    /\ \A c \in Procs : call[c].op \in Adders => (c = Flusher /\ call[c].op = "add") \/ Triple(call[c].node)
    /\ \A n \in acked : Triple(n)

Chain(g, p, a, n) ==
    /\ g.path = <<>> /\ p.path = <<g.id>> /\ a.path = <<g.id, p.id>>
    /\ n = <<g.name, p.name, a.name>>

HasChain(rows, n) == \E g, p, a \in rows : Chain(g, p, a, n)

Walked == \A c \in Procs : call[c].op \in Adders => On(nodes, call[c].path, call[c].node)

ListedInv == Asked /\ (~delMet => Walked /\ \A n \in acked : Full(n) => HasChain(nodes, n))

LEMMA Prefixes ==
    ASSUME NEW s \in Seq(Nat), NEW x \in Nat
    PROVE  /\ Append(s, x) \in Seq(Nat) /\ Len(Append(s, x)) = Len(s) + 1
           /\ SubSeq(s, 1, Len(s)) = s
           /\ \A k \in 1..Len(s) : Append(s, x)[k] = s[k]
           /\ Append(s, x)[Len(s) + 1] = x
           /\ \A k \in 1..(Len(s) + 1) : SubSeq(Append(s, x), 1, k - 1) = SubSeq(s, 1, k - 1)
  <1>1. /\ Append(s, x) \in Seq(Nat) /\ Len(Append(s, x)) = Len(s) + 1
        /\ \A k \in 1..Len(s) : Append(s, x)[k] = s[k]
        /\ Append(s, x)[Len(s) + 1] = x
    OBVIOUS
  <1>2. SubSeq(s, 1, Len(s)) = s
    OBVIOUS
  <1>3. ASSUME NEW k \in 1..(Len(s) + 1) PROVE SubSeq(Append(s, x), 1, k - 1) = SubSeq(s, 1, k - 1)
    BY <1>1
  <1> QED
    BY <1>1, <1>2, <1>3

LEMMA OnStarts == \A rows, node : On(rows, <<>>, node)
  <1>1. Len(<<>>) = 0
    OBVIOUS
  <1>2. 1..Len(<<>>) = {}
    BY <1>1
  <1> QED
    BY <1>2 DEF On

LEMMA OnGoesDown ==
    ASSUME NEW rows, NEW path \in Seq(Nat), NEW node, On(rows, path, node),
           NEW r \in rows, r.id \in Nat, r.path = path, Fits(r, node[Len(path) + 1])
    PROVE  On(rows, Append(path, r.id), node)
  <1> DEFINE q == Append(path, r.id)
             m == Len(path)
  <1>1. /\ q \in Seq(Nat) /\ Len(q) = m + 1 /\ SubSeq(path, 1, m) = path
        /\ \A k \in 1..m : q[k] = path[k]
        /\ q[m + 1] = r.id
        /\ \A k \in 1..(m + 1) : SubSeq(q, 1, k - 1) = SubSeq(path, 1, k - 1)
    BY Prefixes
  <1>2. m \in Nat
    OBVIOUS
  <1>3. ASSUME NEW k \in 1..m
        PROVE  \E o \in rows : o.id = q[k] /\ o.path = SubSeq(q, 1, k - 1) /\ Fits(o, node[k])
    <2>1. PICK o \in rows : o.id = path[k] /\ o.path = SubSeq(path, 1, k - 1) /\ Fits(o, node[k])
      BY <1>3 DEF On
    <2> HIDE DEF q, m
    <2>2. k \in 1..(m + 1)
      BY <1>2, <1>3
    <2>3. SubSeq(q, 1, k - 1) = SubSeq(path, 1, k - 1) /\ q[k] = path[k]
      BY <1>1, <1>3, <2>2
    <2> QED
      BY <2>1, <2>3
  <1>4. r.id = q[m + 1] /\ r.path = SubSeq(q, 1, (m + 1) - 1) /\ Fits(r, node[m + 1])
    <2>1. SubSeq(q, 1, (m + 1) - 1) = SubSeq(path, 1, (m + 1) - 1)
      <3> HIDE DEF q, m
      <3> QED
        BY <1>1, <1>2
    <2>2. (m + 1) - 1 = m
      BY <1>2
    <2> QED
      BY <1>1, <2>1, <2>2
  <1>5. \A k \in 1..Len(q) : k \in 1..m \/ k = m + 1
    <2> HIDE DEF q, m
    <2> QED
      BY <1>1, <1>2
  <1> HIDE DEF q
  <1>6. On(rows, q, node)
    BY <1>3, <1>4, <1>5 DEF On
  <1> QED
    BY <1>6 DEF q

LEMMA WalkIsChain ==
    ASSUME NEW rows, NEW path \in Seq(Nat), Len(path) >= 2, NEW node, On(rows, path, node), Full(node), Triple(node),
           NEW a \in rows, a.path = SubSeq(path, 1, 2), Fits(a, node[3])
    PROVE  HasChain(rows, node)
  <1>1. DOMAIN node = 1..3
    BY DEF Triple
  <1>2. node[1] # NoName /\ node[2] # NoName /\ node[3] # NoName
    BY <1>1 DEF Full
  <1>3. 1 \in 1..Len(path) /\ 2 \in 1..Len(path)
    OBVIOUS
  <1>4. PICK g \in rows : g.id = path[1] /\ g.path = SubSeq(path, 1, 0) /\ Fits(g, node[1])
    BY <1>3 DEF On
  <1>5. PICK p \in rows : p.id = path[2] /\ p.path = SubSeq(path, 1, 1) /\ Fits(p, node[2])
    BY <1>3 DEF On
  <1>6. SubSeq(path, 1, 0) = <<>> /\ SubSeq(path, 1, 1) = <<path[1]>> /\ SubSeq(path, 1, 2) = <<path[1], path[2]>>
    <2>1. SubSeq(path, 1, 0) = <<>>
      OBVIOUS
    <2>2. SubSeq(path, 1, 1) = <<path[1]>>
      <3>1. SubSeq(path, 1, 1) = [i \in 1..1 |-> path[i]]
        OBVIOUS
      <3>2. [i \in 1..1 |-> path[i]] = <<path[1]>>
        OBVIOUS
      <3> QED
        BY <3>1, <3>2, Zenon
    <2>3. SubSeq(path, 1, 2) = <<path[1], path[2]>>
      <3>1. SubSeq(path, 1, 2) = [i \in 1..2 |-> path[i]]
        OBVIOUS
      <3>2. [i \in 1..2 |-> path[i]] = <<path[1], path[2]>>
        OBVIOUS
      <3> QED
        BY <3>1, <3>2, Zenon
    <2> QED
      BY <2>1, <2>2, <2>3
  <1>7. g.name = node[1] /\ p.name = node[2] /\ a.name = node[3]
    BY <1>2, <1>4, <1>5 DEF Fits
  <1>8. Chain(g, p, a, node)
    BY <1>4, <1>5, <1>6, <1>7 DEF Chain, Triple
  <1> QED
    BY <1>8 DEF HasChain

\* Rows that come do not disturb what is there.
LEMMA RowsOnlyAdd ==
    ASSUME NEW rows, NEW more, rows \subseteq more
    PROVE  /\ \A path, node : On(rows, path, node) => On(more, path, node)
           /\ \A n : HasChain(rows, n) => HasChain(more, n)
  BY DEF On, HasChain

LEMMA ListedAside ==
    ASSUME TreeTypeOK, ListedInv, NEW c \in Procs, NEW with, Aside(c, with)
    PROVE  ListedInv'
  <1>1. /\ call'[c] = with /\ UNCHANGED <<nodes, acked, delMet>>
        /\ \A d \in Procs \ {c} : call'[d].op = call[d].op /\ call'[d].node = call[d].node
                                   /\ call'[d].at = call[d].at /\ call'[d].path = call[d].path
    BY OthersStay DEF Aside
  <1>2. with.op \notin Adders
    BY DEF Aside
  <1>3. Asked'
    BY <1>1, <1>2 DEF ListedInv, Asked
  <1>4. ASSUME ~delMet PROVE Walked' /\ \A n \in acked' : Full(n) => HasChain(nodes', n)
    <2>1. \A n \in acked' : Full(n) => HasChain(nodes', n)
      BY <1>1, <1>4 DEF ListedInv
    <2>2. \A d \in Procs : call'[d].op \in Adders => On(nodes', call'[d].path, call'[d].node)
      BY <1>1, <1>2, <1>4 DEF ListedInv, Walked
    <2>3. Walked'
      BY <1>1, <2>2 DEF Walked
    <2> QED
      BY <2>1, <2>3
  <1> QED
    BY <1>1, <1>3, <1>4 DEF ListedInv

LEMMA ListedBegins ==
    ASSUME TreeTypeOK, ListedInv, NEW c \in Procs, Begins(c)
    PROVE  ListedInv'
  <1>1. PICK q : /\ Begin(c, q) /\ q.op \in Ops
                 /\ c \in Callers => q \in Requests
                 /\ c \notin Callers => q.op = "add"
    BY DEF Begins
  <1> DEFINE with == [Idle EXCEPT !.op = q.op, !.node = q.node, !.hosts = q.hosts]
  <1>2. with.op = q.op /\ with.node = q.node /\ with.path = <<>>
    BY DEF Idle
  <1>3. Step(c, with)
    BY <1>1 DEF Begin
  <1> HIDE DEF with
  <1>4. /\ call'[c] = with
        /\ \A d \in Procs \ {c} : call'[d].op = call[d].op /\ call'[d].node = call[d].node
                                   /\ call'[d].at = call[d].at /\ call'[d].path = call[d].path
    BY <1>3, OthersStay
  <1>5. UNCHANGED <<nodes, acked>> /\ (delMet => delMet') /\ WellShaped(q)
    BY <1>1 DEF Begin
  <1>6. q.op \in Adders /\ c \in Callers => Triple(q.node)
    <2> SUFFICES ASSUME q.op \in Adders, c \in Callers PROVE Triple(q.node)
      OBVIOUS
    <2>1. Len(q.node) = 3
      BY <1>5 DEF WellShaped, Adders
    <2>2. q.node = [k \in 1..3 |-> q.node[k]]
      BY <1>1, <2>1, RequestsAssumption
    <2>3. \A f : f = [k \in 1..3 |-> f[k]] => f = <<f[1], f[2], f[3]>>
      OBVIOUS
    <2> QED
      BY <2>2, <2>3, Zenon DEF Triple
  <1>7. c \notin Callers => c = Flusher
    BY DEF Procs
  <1>8. Asked'
    BY <1>1, <1>2, <1>4, <1>5, <1>6, <1>7 DEF ListedInv, Asked
  <1>9. ASSUME ~delMet' PROVE Walked' /\ \A n \in acked' : Full(n) => HasChain(nodes', n)
    <2>1. \A n \in acked' : Full(n) => HasChain(nodes', n)
      BY <1>5, <1>9 DEF ListedInv
    <2>2. \A d \in Procs : call'[d].op \in Adders => On(nodes', call'[d].path, call'[d].node)
      <3>1. On(nodes', call'[c].path, call'[c].node)
        BY <1>2, <1>4, OnStarts
      <3>2. Walked
        BY <1>5, <1>9 DEF ListedInv
      <3> QED
        BY <1>4, <1>5, <3>1, <3>2 DEF Walked
    <2>3. Walked'
      BY <1>5, <2>2 DEF Walked
    <2> QED
      BY <2>1, <2>3
  <1> QED
    BY <1>8, <1>9 DEF ListedInv

\* A path is told when its third row is there.
LEMMA ToldIsThere ==
    ASSUME TreeTypeOK, ListedInv, ~delMet, NEW c \in Procs, Arrived(c), c # Flusher, Full(call[c].node),
           NEW rows, nodes \subseteq rows,
           NEW r \in rows, r.path = call[c].path, Fits(r, call[c].node[Deep(c) + 1])
    PROVE  HasChain(rows, call[c].node)
  <1> DEFINE path == call[c].path
             node == call[c].node
  <1>1. call[c].op \in Adders /\ Len(path) = 2 /\ path \in Seq(Nat) /\ Fits(r, node[3])
    <2>1. Deep(c) = 2 /\ Deep(c) + 1 = 3
      BY DEF Arrived
    <2> QED
      BY <2>1 DEF Arrived, Adders, Deep, TreeTypeOK, CallOK
  <1>2. On(rows, path, node) /\ Triple(node)
    BY <1>1, RowsOnlyAdd DEF ListedInv, Walked, Asked
  <1>3. r.path = SubSeq(path, 1, 2)
    <2>1. \A s \in Seq(Nat) : SubSeq(s, 1, Len(s)) = s
      BY Prefixes
    <2> QED
      BY <1>1, <2>1
  <1> HIDE DEF path, node
  <1>4. HasChain(rows, node)
    BY <1>1, <1>2, <1>3, WalkIsChain DEF node
  <1> QED
    BY <1>4 DEF node

LEMMA ListedLooks ==
    ASSUME TreeInv, ListedInv, NEW c \in Procs, Looks(c)
    PROVE  ListedInv'
  <1>1. PICK rows, missing :
            /\ rows \subseteq Match(call[c].path, call[c].node[Deep(c) + 1])
            /\ Descend(c, rows, missing) /\ call[c].op # "none"
            /\ call[c].op \in Adders => missing = [call[c] EXCEPT !.at = "insert"]
            /\ call[c].op \notin Adders => missing.op \notin Writers
    BY DEF Looks
  <1>2. TreeTypeOK /\ CallOK(call[c]) /\ IsCall(call[c]) /\ RowsOK
    BY DEF TreeInv, TreeTypeOK, CallOK
  <1>3. UNCHANGED <<nodes, delMet>> /\ call[c].at = "find"
    BY <1>1 DEF Descend
  <1>4. CASE rows = {}
    <2>1. Step(c, missing) /\ acked' = acked
      BY <1>1, <1>4 DEF Descend
    <2>2. /\ call'[c] = missing
          /\ \A d \in Procs \ {c} : call'[d].op = call[d].op /\ call'[d].node = call[d].node
                                     /\ call'[d].at = call[d].at /\ call'[d].path = call[d].path
      BY <1>2, <2>1, OthersStay
    <2>3. missing.op \in Adders => /\ missing.op = call[c].op /\ missing.node = call[c].node
                                    /\ missing.path = call[c].path
      BY <1>1, <1>2 DEF IsCall, Fields, Adders, Writers
    <2>4. Asked'
      BY <2>1, <2>2, <2>3 DEF ListedInv, Asked
    <2>5. ~delMet => Walked'
      BY <1>3, <2>2, <2>3 DEF ListedInv, Walked
    <2> QED
      BY <1>3, <2>1, <2>4, <2>5 DEF ListedInv
  <1>5. CASE rows # {}
    <2> DEFINE r == FirstOf(rows)
               with == Down(c, r.id, "find")
    <2>1. r \in rows
      BY <1>1, <1>2, <1>5, FirstIsThere DEF Match, Kids
    <2>2. r \in nodes /\ r.path = call[c].path /\ Fits(r, call[c].node[Deep(c) + 1]) /\ r.id \in Nat
      BY <1>1, <1>2, <2>1 DEF Match, Kids, Fits, RowsOK
    <2>3. Step(c, with) /\ Told(c)
      BY <1>1, <1>5 DEF Descend
    <2> HIDE DEF r
    <2>4. with = Idle \/ /\ with.op = call[c].op /\ with.node = call[c].node
                         /\ with.path = Append(call[c].path, r.id)
      BY <1>2 DEF Down, IsCall, Fields
    <2> HIDE DEF with
    <2>5. /\ call'[c] = with
          /\ \A d \in Procs \ {c} : call'[d].op = call[d].op /\ call'[d].node = call[d].node
                                     /\ call'[d].at = call[d].at /\ call'[d].path = call[d].path
      BY <1>2, <2>3, OthersStay
    <2>6. Idle.op \notin Adders
      BY DEF Idle, Adders
    <2>7. acked' = acked \/ (acked' = acked \cup {call[c].node} /\ Arrived(c) /\ c # Flusher)
      BY <2>3 DEF Told
    <2>8. Arrived(c) /\ c # Flusher => Triple(call[c].node)
      BY DEF ListedInv, Asked, Arrived, Adders
    <2>9. Asked'
      BY <2>4, <2>5, <2>6, <2>7, <2>8 DEF ListedInv, Asked
    <2>10. ASSUME ~delMet PROVE Walked'
      <3>1. call[c].op \in Adders => On(nodes, Append(call[c].path, r.id), call[c].node)
        <4>1. call[c].op \in Adders => On(nodes, call[c].path, call[c].node)
          BY <2>10 DEF ListedInv, Walked
        <4>2. call[c].path \in Seq(Nat) /\ Deep(c) = Len(call[c].path)
          BY <1>2 DEF CallOK, Deep
        <4> QED
          BY <2>2, <4>1, <4>2, OnGoesDown
      <3> QED
        BY <1>3, <2>4, <2>5, <2>6, <2>10, <3>1 DEF ListedInv, Walked
    <2>11. ASSUME ~delMet, NEW n \in acked', Full(n) PROVE HasChain(nodes, n)
      <3>1. CASE n \in acked
        BY <2>11, <3>1 DEF ListedInv
      <3>2. CASE n \notin acked
        <4>1. n = call[c].node /\ Arrived(c) /\ c # Flusher
          BY <2>7, <2>11, <3>2
        <4> QED
          BY <1>2, <2>2, <2>11, <4>1, ToldIsThere
      <3> QED
        BY <3>1, <3>2
    <2> QED
      BY <1>3, <2>9, <2>10, <2>11 DEF ListedInv
  <1> QED
    BY <1>4, <1>5

LEMMA ListedInserts ==
    ASSUME TreeInv, ListedInv, NEW c \in Procs, Inserts(c)
    PROVE  ListedInv'
  <1>1. PICK then \in {"find", "insert"} : Insert(c, call[c].path, then)
    BY DEF Inserts
  <1> DEFINE new == [id |-> lastId + 1, path |-> call[c].path, name |-> call[c].node[Deep(c) + 1]]
             with == Down(c, lastId + 1, then)
  <1>2. TreeTypeOK /\ CallOK(call[c]) /\ IsCall(call[c]) /\ lastId \in Nat
    BY DEF TreeInv, TreeTypeOK, CallOK
  <1>3. /\ nodes' = nodes \cup {new} /\ Changed(c, with) /\ Told(c) /\ delMet' = delMet
    BY <1>1 DEF Insert
  <1>4. with = Idle \/ /\ with.op = call[c].op /\ with.node = call[c].node
                       /\ with.path = Append(call[c].path, lastId + 1)
    BY <1>2 DEF Down, IsCall, Fields
  <1> HIDE DEF with
  <1>5. new.id = lastId + 1 /\ new.path = call[c].path /\ Fits(new, call[c].node[Deep(c) + 1])
    BY DEF Fits
  <1> HIDE DEF new
  <1>6. /\ call'[c] = with
        /\ \A d \in Procs \ {c} : call'[d].op = call[d].op /\ call'[d].node = call[d].node
                                   /\ call'[d].at = call[d].at /\ call'[d].path = call[d].path
    BY <1>2, <1>3, OthersStay
  <1>7. nodes \subseteq nodes' /\ new \in nodes'
    BY <1>3
  <1>8. Idle.op \notin Adders
    BY DEF Idle, Adders
  <1>9. acked' = acked \/ (acked' = acked \cup {call[c].node} /\ Arrived(c) /\ c # Flusher)
    BY <1>3 DEF Told
  <1>10. Arrived(c) /\ c # Flusher => Triple(call[c].node)
    BY DEF ListedInv, Asked, Arrived, Adders
  <1>11. Asked'
    BY <1>4, <1>6, <1>8, <1>9, <1>10 DEF ListedInv, Asked
  <1>12. ASSUME ~delMet PROVE Walked'
    <2>1. call[c].op \in Adders => On(nodes', Append(call[c].path, lastId + 1), call[c].node)
      <3>1. call[c].op \in Adders => On(nodes', call[c].path, call[c].node)
        BY <1>7, <1>12, RowsOnlyAdd DEF ListedInv, Walked
      <3>2. call[c].path \in Seq(Nat) /\ Deep(c) = Len(call[c].path)
        BY <1>2 DEF CallOK, Deep
      <3>3. lastId + 1 \in Nat
        BY <1>2
      <3> QED
        BY <1>5, <1>7, <3>1, <3>2, <3>3, OnGoesDown
    <2>2. ASSUME NEW d \in Procs \ {c}, call[d].op \in Adders PROVE On(nodes', call[d].path, call[d].node)
      BY <1>7, <1>12, <2>2, RowsOnlyAdd DEF ListedInv, Walked
    <2> QED
      BY <1>4, <1>6, <1>8, <2>1, <2>2 DEF Walked
  <1>13. ASSUME ~delMet, NEW n \in acked', Full(n) PROVE HasChain(nodes', n)
    <2>1. CASE n \in acked
      BY <1>7, <1>13, <2>1, RowsOnlyAdd DEF ListedInv
    <2>2. CASE n \notin acked
      <3>1. n = call[c].node /\ Arrived(c) /\ c # Flusher
        BY <1>9, <1>13, <2>2
      <3> QED
        BY <1>2, <1>5, <1>7, <1>13, <3>1, ToldIsThere
    <2> QED
      BY <2>1, <2>2
  <1> QED
    BY <1>3, <1>11, <1>12, <1>13 DEF ListedInv

LEMMA ListedMounts ==
    ASSUME TreeInv, ListedInv, NEW c \in Procs, ResourceMount(c)
    PROVE  ListedInv'
  <1>1. TreeTypeOK /\ call[c].op = "mount" /\ call[c].op \in Adders /\ call[c].op \notin Queries
    BY DEF TreeInv, ResourceMount, Running, Adders, Queries
  <1>2. /\ UNCHANGED <<nodes, delMet>> /\ acked' = acked \cup {call[c].node}
        /\ Step(c, Idle) /\ Deep(c) = 3
    BY <1>1 DEF ResourceMount, Ended
  <1>3. /\ call'[c] = Idle
        /\ \A d \in Procs \ {c} : call'[d].op = call[d].op /\ call'[d].node = call[d].node
                                   /\ call'[d].at = call[d].at /\ call'[d].path = call[d].path
    BY <1>1, <1>2, OthersStay
  <1>4. Idle.op \notin Adders
    BY DEF Idle, Adders
  <1>5. Triple(call[c].node)
    BY <1>1 DEF ListedInv, Asked
  <1>6. Asked'
    BY <1>2, <1>3, <1>4, <1>5 DEF ListedInv, Asked
  <1>7. ~delMet => Walked'
    BY <1>2, <1>3, <1>4 DEF ListedInv, Walked
  <1>8. ASSUME ~delMet, Full(call[c].node) PROVE HasChain(nodes, call[c].node)
    <2> DEFINE path == call[c].path
               node == call[c].node
    <2>1. On(nodes, path, node) /\ path \in Seq(Nat) /\ Len(path) = 3
      BY <1>1, <1>2, <1>8 DEF ListedInv, Walked, TreeTypeOK, CallOK, Deep
    <2> HIDE DEF path, node
    <2>2. 3 \in 1..Len(path)
      BY <2>1
    <2>3. PICK a \in nodes : a.path = SubSeq(path, 1, 3 - 1) /\ Fits(a, node[3])
      BY <2>1, <2>2 DEF On
    <2>4. Full(node) /\ Triple(node)
      BY <1>5, <1>8 DEF node
    <2>5. HasChain(nodes, node)
      BY <2>1, <2>3, <2>4, WalkIsChain
    <2> QED
      BY <2>5 DEF node
  <1> QED
    BY <1>2, <1>6, <1>7, <1>8 DEF ListedInv

LEMMA Pairs ==
    ASSUME NEW x \in Nat, NEW y \in Nat
    PROVE  Append(<<x>>, y) = <<x, y>> /\ Append(<<>>, x) = <<x>>
  <1>1. \A s \in Seq(Nat) : s = <<x>> => /\ Append(s, y) \in Seq(Nat) /\ Len(Append(s, y)) = 2
                                        /\ Append(s, y)[1] = x /\ Append(s, y)[2] = y
    OBVIOUS
  <1>2. \A t \in Seq(Nat) : Len(t) = 2 => t = <<t[1], t[2]>>
    OBVIOUS
  <1>3. <<x>> \in Seq(Nat) /\ Append(<<>>, x) = <<x>>
    OBVIOUS
  <1> QED
    BY <1>1, <1>2, <1>3, Zenon

LEMMA ChainIsListed ==
    ASSUME RowsOK, NEW g \in nodes, NEW p \in nodes, NEW a \in nodes, NEW n, Chain(g, p, a, n)
    PROVE  /\ <<g, p, a>> \in Chains /\ n = Names(<<g, p, a>>)
           /\ n \in AllPaths
  <1>1. Append(<<g.id>>, p.id) = <<g.id, p.id>>
    BY Pairs DEF RowsOK
  <1>2. <<g, p, a>> \in Chains
    BY <1>1 DEF Chains, Chain, Kids
  <1> QED
    BY <1>2 DEF AllPaths, Names, Chain

LEMMA ListedDeletes ==
    ASSUME TreeInv, ListedInv, NEW c \in Procs, Deletes(c)
    PROVE  ListedInv'
  <1> DEFINE id == call[c].path[Len(call[c].node)]
  <1>1. TreeTypeOK /\ call[c].op = "del" /\ call[c].op \notin Queries /\ call[c].op \in Writers
    BY DEF TreeInv, Deletes, Queries, Writers
  <1>2. /\ Changed(c, Idle) /\ delMet' = delMet
        /\ acked' = acked \ ({call[c].node} \cup {Names(y) : y \in {z \in Chains : z[3].id = id}})
    BY <1>1 DEF Deletes, Ended, Forget
  <1>3. /\ call'[c] = Idle
        /\ \A d \in Procs \ {c} : call'[d].op = call[d].op /\ call'[d].node = call[d].node
                                   /\ call'[d].at = call[d].at /\ call'[d].path = call[d].path
    BY <1>1, <1>2, OthersStay
  <1>4. Idle.op \notin Adders
    BY DEF Idle, Adders
  <1>5. Asked'
    BY <1>2, <1>3, <1>4 DEF ListedInv, Asked
  <1>6. ASSUME ~delMet PROVE Walked' /\ \A n \in acked' : Full(n) => HasChain(nodes', n)
    <2>1. Alone
      BY <1>6 DEF TreeInv
    <2>2. \A d \in Procs : call'[d].op \notin Adders
      BY <1>1, <1>3, <1>4, <2>1 DEF Alone, Adders, Writers
    <2>3. PICK o \in nodes : /\ call[c].path = Append(o.path, o.id) /\ o.id = id
                              /\ nodes' = nodes \ {o} /\ \A r \in nodes : r.path # call[c].path
      BY <1>1, <2>1, LeafGoes DEF Deletes
    <2>4. ASSUME NEW n \in acked', Full(n) PROVE HasChain(nodes', n)
      <3>1. n \in acked
        BY <1>2, <2>4
      <3>2. PICK g \in nodes, p \in nodes, a \in nodes : Chain(g, p, a, n)
        BY <1>6, <2>4, <3>1 DEF ListedInv, HasChain
      <3>3. g # o
        <4>1. p.path = Append(g.path, g.id)
          <5>1. Append(<<>>, g.id) = <<g.id>>
            OBVIOUS
          <5> QED
            BY <3>2, <5>1 DEF Chain
        <4> QED
          BY <2>3, <4>1
      <3>4. p # o
        <4>1. a.path = Append(p.path, p.id)
          <5>1. Append(<<g.id>>, p.id) = <<g.id, p.id>>
            BY <1>1, Pairs DEF TreeTypeOK, RowsOK
          <5> QED
            BY <3>2, <5>1 DEF Chain
        <4> QED
          BY <2>3, <4>1
      <3>5. a # o
        <4>1. <<g, p, a>> \in Chains /\ n = Names(<<g, p, a>>)
          BY <1>1, <3>2, ChainIsListed DEF TreeTypeOK
        <4>2. <<g, p, a>>[3].id = a.id
          OBVIOUS
        <4>3. a.id = id => n \in {Names(y) : y \in {z \in Chains : z[3].id = id}}
          BY <4>1, <4>2
        <4> HIDE DEF id
        <4> QED
          BY <1>2, <2>3, <2>4, <4>3
      <3> QED
        BY <2>3, <3>2, <3>3, <3>4, <3>5 DEF HasChain
    <2> QED
      BY <2>2, <2>4 DEF Walked
  <1> QED
    BY <1>2, <1>5, <1>6 DEF ListedInv

LEMMA ListedStep == TreeInv /\ ListedInv /\ [Next]_vars => ListedInv'
  <1> SUFFICES ASSUME TreeInv, ListedInv, [Next]_vars PROVE ListedInv'
    OBVIOUS
  <1>1. TreeTypeOK
    BY DEF TreeInv
  <1>2. CASE UNCHANGED <<nodes, lastId, call, acked, addsMet, delMet>>
    BY <1>2 DEF ListedInv, Asked, Walked
  <1> QED
    BY <1>1, <1>2, StepKinds, ListedAside, ListedLooks, ListedInserts, ListedMounts, ListedDeletes, ListedBegins
       DEF Moves

(* StreeAdd and CheckPathExists finish below the rows they walked or made:    *)
(* whoever was told that a path is added finds it in the full list of         *)
(* StreeQuery, whichever additions interleave and whatever statements fail,   *)
(* until the path is deleted or a deletion meets a writer.                    *)
THEOREM AddedListed == Spec => []AddedIsListed
  <1>1. Init => ListedInv
    BY DEF Init, ListedInv, Asked, Walked, Idle, Adders
  <1>2. TreeInv /\ ListedInv => AddedIsListed
    <2> SUFFICES ASSUME TreeInv, ListedInv, ~delMet, NEW n \in acked, Full(n) PROVE n \in AllPaths
      BY DEF AddedIsListed
    <2>1. PICK g \in nodes, p \in nodes, a \in nodes : Chain(g, p, a, n)
      BY DEF ListedInv, HasChain
    <2> QED
      BY <2>1, ChainIsListed DEF TreeInv, TreeTypeOK
  <1> QED
    BY <1>1, <1>2, TreeInvInit, TreeInvStep, ListedStep, PTL DEF Spec

-----------------------------------------------------------------------------
(* A walk from the first matching rows finds every path that was added.    *)

OneWriter == \A c, d \in Procs : call[c].op \in Writers /\ call[d].op \in Writers => c = d

\* No two rows stand for one node.
NoTwins == \A r, o \in nodes : r.path = o.path /\ r.name = o.name => r = o

\* What is about to be inserted is still missing.
StillMissing == \A c \in Procs : call[c].op \in Adders /\ call[c].at = "insert" =>
    Match(call[c].path, call[c].node[Deep(c) + 1]) = {}

Calm == ~addsMet /\ ~delMet

FoundInv == Calm => OneWriter /\ NoTwins /\ StillMissing

LEMMA FoundAside ==
    ASSUME TreeTypeOK, FoundInv, NEW c \in Procs, NEW with, Aside(c, with)
    PROVE  FoundInv'
  <1>1. /\ call'[c] = with /\ UNCHANGED <<nodes, addsMet, delMet>>
        /\ \A d \in Procs \ {c} : call'[d].op = call[d].op /\ call'[d].node = call[d].node
                                   /\ call'[d].at = call[d].at /\ call'[d].path = call[d].path
    BY OthersStay DEF Aside
  <1>2. with.op \notin Adders /\ (with.op \in Writers => call[c].op \in Writers)
    BY DEF Aside, Writers
  <1> SUFFICES ASSUME Calm PROVE OneWriter' /\ NoTwins' /\ StillMissing'
    BY <1>1 DEF FoundInv, Calm
  <1>3. OneWriter'
    BY <1>1, <1>2 DEF FoundInv, OneWriter
  <1>4. NoTwins'
    BY <1>1 DEF FoundInv, NoTwins
  <1>5. StillMissing'
    BY <1>1, <1>2 DEF FoundInv, StillMissing, Match, Kids, Deep
  <1> QED
    BY <1>3, <1>4, <1>5

LEMMA FoundBegins ==
    ASSUME TreeTypeOK, FoundInv, NEW c \in Procs, Begins(c)
    PROVE  FoundInv'
  <1>1. PICK q : Begin(c, q)
    BY DEF Begins
  <1> DEFINE with == [Idle EXCEPT !.op = q.op, !.node = q.node, !.hosts = q.hosts]
             met == {d \in Procs \ {c} : Writing(d)}
  <1>2. with.op = q.op /\ with.at = "find"
    BY DEF Idle
  <1>3. /\ Step(c, with) /\ nodes' = nodes /\ (delMet => delMet')
        /\ addsMet' = (addsMet \/ (q.op \in Writers /\ met # {}))
    BY <1>1 DEF Begin
  <1> HIDE DEF with
  <1>4. /\ call'[c] = with
        /\ \A d \in Procs \ {c} : call'[d].op = call[d].op /\ call'[d].node = call[d].node
                                   /\ call'[d].at = call[d].at /\ call'[d].path = call[d].path
    BY <1>3, OthersStay
  <1> SUFFICES ASSUME Calm' PROVE OneWriter' /\ NoTwins' /\ StillMissing'
    BY DEF FoundInv
  <1>5. OneWriter /\ NoTwins /\ StillMissing /\ ~(q.op \in Writers /\ met # {})
    BY <1>3 DEF FoundInv, Calm
  <1>6. OneWriter'
    <2>1. \A d \in Procs \ {c} : call[d].op \in Writers => d \in met
      BY DEF TreeTypeOK, CallOK, Writing
    <2> HIDE DEF met
    <2> QED
      BY <1>2, <1>4, <1>5, <2>1 DEF OneWriter
  <1>7. NoTwins'
    BY <1>3, <1>5 DEF NoTwins
  <1>8. StillMissing'
    BY <1>2, <1>3, <1>4, <1>5 DEF StillMissing, Match, Kids, Deep
  <1> QED
    BY <1>6, <1>7, <1>8

LEMMA FoundLooks ==
    ASSUME TreeTypeOK, FoundInv, NEW c \in Procs, Looks(c)
    PROVE  FoundInv'
  <1>1. PICK rows, missing :
            /\ Descend(c, rows, missing)
            /\ call[c].op \in Adders => /\ missing = [call[c] EXCEPT !.at = "insert"]
                                       /\ rows = Match(call[c].path, call[c].node[Deep(c) + 1])
            /\ call[c].op \notin Adders => missing.op \notin Writers
    BY DEF Looks
  <1> DEFINE with == IF rows = {} THEN missing ELSE Down(c, FirstOf(rows).id, "find")
  <1>2. UNCHANGED <<nodes, addsMet, delMet>> /\ Step(c, with) /\ IsCall(call[c])
    BY <1>1 DEF Descend, TreeTypeOK, CallOK
  <1>3. rows # {} => with = Idle \/ (with.op = call[c].op /\ with.at = "find")
    <2> SUFFICES ASSUME rows # {} PROVE with = Idle \/ (with.op = call[c].op /\ with.at = "find")
      OBVIOUS
    <2> DEFINE path == Append(call[c].path, FirstOf(rows).id)
               y == [call[c] EXCEPT !.path = path, !.at = "find"]
    <2>1. with = Idle \/ with = y
      BY <1>2 DEF Down, IsCall, Fields
    <2> HIDE DEF path
    <2>2. y.op = call[c].op /\ y.at = "find"
      BY <1>2 DEF IsCall, Fields
    <2> HIDE DEF y, with
    <2> QED
      BY <2>1, <2>2
  <1>4. rows = {} => with = missing
    OBVIOUS
  <1> HIDE DEF with
  <1>5. /\ call'[c] = with
        /\ \A d \in Procs \ {c} : call'[d].op = call[d].op /\ call'[d].node = call[d].node
                                   /\ call'[d].at = call[d].at /\ call'[d].path = call[d].path
    BY <1>2, OthersStay
  <1>6. Idle.op \notin Adders /\ Idle.op \notin Writers
    BY DEF Idle, Adders, Writers
  <1>7. call[c].op \in Adders => /\ missing.op = call[c].op /\ missing.path = call[c].path
                                 /\ missing.node = call[c].node
    BY <1>1, <1>2 DEF IsCall, Fields
  <1> SUFFICES ASSUME Calm PROVE OneWriter' /\ NoTwins' /\ StillMissing'
    BY <1>2 DEF FoundInv, Calm
  <1>8. OneWriter /\ NoTwins /\ StillMissing /\ Adders \subseteq Writers
    BY DEF FoundInv, Adders, Writers
  <1>9. OneWriter'
    <2>1. with.op \in Writers => call[c].op \in Writers
      BY <1>1, <1>3, <1>4, <1>6, <1>7
    <2> QED
      BY <1>5, <1>8, <2>1 DEF OneWriter
  <1>10. NoTwins'
    BY <1>2, <1>8 DEF NoTwins
  <1>11. StillMissing'
    <2>1. with.op \in Adders /\ with.at = "insert" => Match(with.path, with.node[Len(with.path) + 1]) = {}
      <3>1. CASE rows = {}
        BY <1>1, <1>4, <1>7, <1>8, <3>1 DEF Deep
      <3>2. CASE rows # {}
        BY <1>3, <1>6, <3>2
      <3> QED
        BY <3>1, <3>2
    <2>2. ASSUME NEW d \in Procs, call'[d].op \in Adders, call'[d].at = "insert"
          PROVE  Match(call'[d].path, call'[d].node[Len(call'[d].path) + 1]) = {}
      <3>1. CASE d = c
        BY <1>5, <2>1, <2>2, <3>1
      <3>2. CASE d # c
        BY <1>5, <1>8, <2>2, <3>2 DEF StillMissing, Deep
      <3> QED
        BY <3>1, <3>2
    <2> QED
      BY <1>2, <2>2 DEF StillMissing, Match, Kids, Deep
  <1> QED
    BY <1>9, <1>10, <1>11

LEMMA FoundInserts ==
    ASSUME TreeInv, FoundInv, NEW c \in Procs, Inserts(c)
    PROVE  FoundInv'
  <1>1. PICK then \in {"find", "insert"} : Insert(c, call[c].path, then)
    BY DEF Inserts
  <1> DEFINE name == call[c].node[Deep(c) + 1]
             new == [id |-> lastId + 1, path |-> call[c].path, name |-> name]
             with == Down(c, lastId + 1, then)
  <1>2. TreeTypeOK /\ CallOK(call[c]) /\ IsCall(call[c]) /\ lastId \in Nat /\ RowsOK
    BY DEF TreeInv, TreeTypeOK, CallOK
  <1>3. /\ nodes' = nodes \cup {new} /\ Changed(c, with) /\ UNCHANGED <<addsMet, delMet>>
        /\ call[c].at = "insert"
    BY <1>1 DEF Insert
  <1>4. with = Idle \/ /\ with.op = call[c].op /\ with.node = call[c].node
                       /\ with.path = Append(call[c].path, lastId + 1)
    BY <1>2 DEF Down, IsCall, Fields
  <1> HIDE DEF with
  <1>5. new.id = lastId + 1 /\ new.path = call[c].path /\ new.name = name
    OBVIOUS
  <1> HIDE DEF new
  <1>6. /\ call'[c] = with
        /\ \A d \in Procs \ {c} : call'[d].op = call[d].op /\ call'[d].node = call[d].node
                                   /\ call'[d].at = call[d].at /\ call'[d].path = call[d].path
    BY <1>2, <1>3, OthersStay
  <1>7. Idle.op \notin Adders /\ Idle.op \notin Writers
    BY DEF Idle, Adders, Writers
  <1> SUFFICES ASSUME Calm PROVE OneWriter' /\ NoTwins' /\ StillMissing'
    BY <1>3 DEF FoundInv, Calm
  <1>8. /\ OneWriter /\ NoTwins /\ Adders \subseteq Writers /\ call[c].op \in Adders
        /\ Match(call[c].path, name) = {} /\ Alone
    BY <1>3 DEF FoundInv, Adders, Writers, StillMissing, Inserts, TreeInv, Calm
  <1>9. OneWriter'
    BY <1>4, <1>6, <1>7, <1>8 DEF OneWriter
  <1>10. NoTwins'
    <2>1. \A r \in nodes : ~(r.path = new.path /\ r.name = new.name)
      BY <1>5, <1>8 DEF Match, Kids
    <2> HIDE DEF name
    <2> QED
      BY <1>3, <1>8, <2>1 DEF NoTwins
  <1>11. StillMissing'
    <2>1. \A d \in Procs \ {c} : call'[d].op \notin Adders
      BY <1>6, <1>8 DEF OneWriter
    <2>2. ASSUME NEW r \in nodes' PROVE r.path # Append(call[c].path, lastId + 1)
      <3>1. CASE r \in nodes
        <4>1. Under(r.path)
          BY <1>8, <3>1 DEF Alone
        <4>2. r.path \in Seq(Nat) /\ call[c].path \in Seq(Nat)
          BY <1>2, <3>1 DEF RowsOK, CallOK
        <4>3. CASE r.path = <<>>
          BY <1>2, <4>2, <4>3
        <4>4. CASE r.path # <<>>
          <5>1. PICK o \in nodes : r.path = Append(o.path, o.id)
            BY <4>1, <4>4 DEF Under
          <5>2. o.path \in Seq(Nat) /\ o.id \in Nat /\ o.id # lastId + 1
            BY <1>2 DEF RowsOK
          <5>3. Append(o.path, o.id) # Append(call[c].path, lastId + 1)
            <6>1. lastId + 1 \in Nat
              BY <1>2
            <6> QED
              BY <4>2, <5>2, <6>1, AppendInjective
          <5> QED
            BY <5>1, <5>3
        <4> QED
          BY <4>3, <4>4
      <3>2. CASE r = new
        <4>1. Len(Append(call[c].path, lastId + 1)) # Len(call[c].path)
          BY <1>2 DEF CallOK
        <4> QED
          BY <1>5, <3>2, <4>1
      <3> QED
        BY <1>3, <3>1, <3>2
    <2>3. with.op \in Adders => \A r \in nodes' : r.path # with.path
      BY <1>4, <1>7, <2>2
    <2> QED
      BY <1>6, <2>1, <2>3 DEF StillMissing, Match, Kids
  <1> QED
    BY <1>9, <1>10, <1>11

LEMMA FoundMounts ==
    ASSUME TreeTypeOK, FoundInv, NEW c \in Procs, ResourceMount(c)
    PROVE  FoundInv'
  <1>1. Step(c, Idle) /\ UNCHANGED <<nodes, addsMet, delMet>>
    BY DEF ResourceMount, Running, Ended, Queries
  <1>2. /\ call'[c] = Idle
        /\ \A d \in Procs \ {c} : call'[d].op = call[d].op /\ call'[d].node = call[d].node
                                   /\ call'[d].at = call[d].at /\ call'[d].path = call[d].path
    BY <1>1, OthersStay
  <1>3. Idle.op \notin Adders /\ Idle.op \notin Writers
    BY DEF Idle, Adders, Writers
  <1> QED
    BY <1>1, <1>2, <1>3 DEF FoundInv, Calm, OneWriter, NoTwins, StillMissing, Match, Kids, Deep

LEMMA FoundDeletes ==
    ASSUME TreeTypeOK, FoundInv, NEW c \in Procs, Deletes(c)
    PROVE  FoundInv'
  <1>1. Changed(c, Idle) /\ nodes' \subseteq nodes /\ UNCHANGED <<addsMet, delMet>>
    BY DEF Deletes, Ended, Queries
  <1>2. /\ call'[c] = Idle
        /\ \A d \in Procs \ {c} : call'[d].op = call[d].op /\ call'[d].node = call[d].node
                                   /\ call'[d].at = call[d].at /\ call'[d].path = call[d].path
    BY <1>1, OthersStay
  <1>3. Idle.op \notin Adders /\ Idle.op \notin Writers
    BY DEF Idle, Adders, Writers
  <1> SUFFICES ASSUME Calm PROVE OneWriter' /\ NoTwins' /\ StillMissing'
    BY <1>1 DEF FoundInv, Calm
  <1>4. OneWriter /\ NoTwins /\ StillMissing
    BY DEF FoundInv
  <1>5. OneWriter'
    BY <1>2, <1>3, <1>4 DEF OneWriter
  <1>6. NoTwins'
    BY <1>1, <1>4 DEF NoTwins
  <1>7. StillMissing'
    BY <1>1, <1>2, <1>3, <1>4 DEF StillMissing, Match, Kids, Deep
  <1> QED
    BY <1>5, <1>6, <1>7

LEMMA FoundStep == TreeInv /\ FoundInv /\ [Next]_vars => FoundInv'
  <1> SUFFICES ASSUME TreeInv, FoundInv, [Next]_vars PROVE FoundInv'
    OBVIOUS
  <1>1. TreeTypeOK
    BY DEF TreeInv
  <1>2. CASE UNCHANGED <<nodes, lastId, call, acked, addsMet, delMet>>
    BY <1>2 DEF FoundInv, Calm, OneWriter, NoTwins, StillMissing, Match, Kids, Deep
  <1> QED
    BY <1>1, <1>2, StepKinds, FoundAside, FoundLooks, FoundInserts, FoundMounts, FoundDeletes, FoundBegins
       DEF Moves

\* Without twins the first match is the only one.
LEMMA OnlyMatch ==
    ASSUME TreeTypeOK, NoTwins, NEW r \in nodes, r.name # NoName
    PROVE  Match(r.path, r.name) = {r} /\ FirstOf(Match(r.path, r.name)) = r
  <1>1. Match(r.path, r.name) = {r}
    BY DEF Match, Kids, NoTwins
  <1>2. FirstOf(Match(r.path, r.name)) \in Match(r.path, r.name)
    BY <1>1, FirstIsThere DEF TreeTypeOK
  <1> QED
    BY <1>1, <1>2

(* A statement of StreeAdd or GetOrInsert that finds nothing is still right   *)
(* when the row is inserted, unless additions meet: then no two rows stand    *)
(* for one node, and the walks of query 4 and of ResourceUnMount, which take  *)
(* the first match, find every path that was added and not deleted since.     *)
THEOREM AddedFound == Spec => []AddedIsFound
  <1>1. Init => ListedInv /\ FoundInv
    BY DEF Init, ListedInv, Asked, Walked, Idle, Adders, FoundInv, OneWriter, NoTwins, StillMissing, Writers
  <1>2. TreeInv /\ ListedInv /\ FoundInv => AddedIsFound
    <2> SUFFICES ASSUME TreeInv, ListedInv, FoundInv, Calm, NEW n \in acked, Full(n) PROVE Found(n)
      BY DEF AddedIsFound, Calm
    <2>1. PICK g \in nodes, p \in nodes, a \in nodes : Chain(g, p, a, n)
      BY DEF ListedInv, HasChain, Calm
    <2>2. g.name = n[1] /\ p.name = n[2] /\ a.name = n[3] /\ DOMAIN n = 1..3
      BY <2>1 DEF Chain
    <2>3. n[1] # NoName /\ n[2] # NoName
      BY <2>2 DEF Full
    <2>4. TreeTypeOK /\ NoTwins /\ RowsOK
      BY DEF TreeInv, TreeTypeOK, FoundInv
    <2>5. Match(<<>>, n[1]) = {g} /\ g = FirstOf(Match(<<>>, n[1]))
      BY <2>1, <2>2, <2>3, <2>4, OnlyMatch DEF Chain
    <2>6. Match(<<g.id>>, n[2]) = {p} /\ p = FirstOf(Match(<<g.id>>, n[2]))
      BY <2>1, <2>2, <2>3, <2>4, OnlyMatch DEF Chain
    <2>7. Append(p.path, p.id) = a.path
      BY <2>1, <2>4, Pairs DEF Chain, RowsOK
    <2>8. a \in Match(Append(p.path, p.id), n[3])
      BY <2>2, <2>7 DEF Match, Kids
    <2> QED
      BY <2>5, <2>6, <2>8, Zenon DEF Found
  <1> QED
    BY <1>1, <1>2, TreeInvInit, TreeInvStep, ListedStep, FoundStep, PTL DEF Spec

-----------------------------------------------------------------------------
(* Queries that walk the table agree with the one that reads it at once.   *)

\* The node a query asks for has as many names as its type needs.
Shaped(x) ==
    /\ x.op = "q4" => Triple(x.node)
    /\ x.op = "q3" => x.node = <<x.node[1], x.node[2]>>
    /\ x.op \in {"q1", "q2"} => x.node = <<x.node[1]>>

\* Nothing has changed or failed since the query began.
Undisturbed(x) == x.op \in Queries /\ Full(x.node) /\ x.still /\ ~x.failed

\* What query 2 has listed when the products `left` are still to come.
Listed(path, left, group) == {x \in AllPaths : \E g, p, a \in nodes :
    Chain(g, p, a, x) /\ p.path = path /\ p \notin left /\ x[1] = group}

\* The answer is the one of query 5.
Right(x) == LET n == x.node IN
    /\ x.op = "q1" => {y[2] : y \in {z \in AllPaths : z[1] = n[1]}} \subseteq x.got
    /\ x.op = "q2" => x.got = {y \in AllPaths : y[1] = n[1]}
    /\ x.op = "q3" => x.got = {y \in AllPaths : <<y[1], y[2]>> = n}
    /\ x.op = "q4" => x.got = {n} \cap AllPaths

\* How far a query has come.
OnTheWay(x) ==
    /\ x.at = "find" => On(nodes, x.path, x.node) /\ x.got = {}
    /\ x.at = "list" => /\ On(nodes, x.path, x.node) /\ Len(x.path) = 1
                        /\ x.left \subseteq Kids(x.path)
                        /\ x.got = Listed(x.path, x.left, x.node[1])
    /\ x.at = "done" => Right(x)

QueryInv == \A c \in Callers : call[c].op \in Queries =>
    /\ Shaped(call[c]) /\ call[c].at \in {"find", "list", "done"}
    /\ Calm /\ Undisturbed(call[c]) => OnTheWay(call[c])

LEMMA PathsAreChains ==
    ASSUME RowsOK, NEW x
    PROVE  x \in AllPaths <=> \E g, p, a \in nodes : Chain(g, p, a, x)
  <1>1. ASSUME x \in AllPaths PROVE \E g, p, a \in nodes : Chain(g, p, a, x)
    <2>1. PICK y \in Chains : x = Names(y)
      BY <1>1 DEF AllPaths
    <2>2. /\ y[1] \in nodes /\ y[2] \in nodes /\ y[3] \in nodes
          /\ y[1].path = <<>> /\ y[2].path = <<y[1].id>> /\ y[3].path = Append(y[2].path, y[2].id)
      BY DEF Chains, Kids
    <2>3. y[3].path = <<y[1].id, y[2].id>>
      BY <2>2, Pairs DEF RowsOK
    <2> QED
      BY <2>1, <2>2, <2>3 DEF Names, Chain
  <1> QED
    BY <1>1, ChainIsListed

\* Without twins a chain of the names asked for is the one walked.
LEMMA OnlyWalk ==
    ASSUME TreeTypeOK, NoTwins, NEW path \in Seq(Nat), NEW node, On(nodes, path, node),
           NEW g \in nodes, NEW p \in nodes, NEW a \in nodes, NEW x, Chain(g, p, a, x)
    PROVE  /\ Len(path) >= 1 /\ node[1] # NoName /\ x[1] = node[1] => g.id = path[1]
           /\ /\ Len(path) >= 2 /\ node[1] # NoName /\ x[1] = node[1]
              /\ node[2] # NoName /\ x[2] = node[2]
              => p.id = path[2]
  <1>1. x[1] = g.name /\ x[2] = p.name /\ g.path = <<>> /\ p.path = <<g.id>>
    BY DEF Chain
  <1>2. ASSUME Len(path) >= 1, node[1] # NoName, x[1] = node[1] PROVE g.id = path[1]
    <2>1. 1 \in 1..Len(path) /\ SubSeq(path, 1, 0) = <<>>
      BY <1>2
    <2>2. PICK r \in nodes : r.id = path[1] /\ r.path = SubSeq(path, 1, 1 - 1) /\ Fits(r, node[1])
      BY <2>1 DEF On
    <2>3. r.path = g.path /\ r.name = g.name
      BY <1>1, <1>2, <2>1, <2>2 DEF Fits
    <2> QED
      BY <2>2, <2>3 DEF NoTwins
  <1>3. ASSUME Len(path) >= 2, node[1] # NoName, x[1] = node[1], node[2] # NoName, x[2] = node[2]
        PROVE  p.id = path[2]
    <2>1. 2 \in 1..Len(path) /\ g.id = path[1]
      BY <1>2, <1>3
    <2>2. PICK r \in nodes : r.id = path[2] /\ r.path = SubSeq(path, 1, 2 - 1) /\ Fits(r, node[2])
      BY <2>1 DEF On
    <2>3. SubSeq(path, 1, 1) = <<path[1]>>
      <3>1. SubSeq(path, 1, 1) = [i \in 1..1 |-> path[i]]
        BY <1>3
      <3>2. [i \in 1..1 |-> path[i]] = <<path[1]>>
        OBVIOUS
      <3> QED
        BY <3>1, <3>2, Zenon
    <2>4. r.path = p.path /\ r.name = p.name
      BY <1>1, <1>3, <2>1, <2>2, <2>3 DEF Fits
    <2> QED
      BY <2>2, <2>4 DEF NoTwins
  <1> QED
    BY <1>2, <1>3

\* When no row is found for the next name, there is no such path.
LEMMA NoneMissed ==
    ASSUME TreeTypeOK, NoTwins, NEW path \in Seq(Nat), Len(path) < 3, NEW node, On(nodes, path, node),
           \A k \in 1..(Len(path) + 1) : node[k] # NoName,
           \A r \in nodes : ~(r.path = path /\ r.name = node[Len(path) + 1]),
           NEW g \in nodes, NEW p \in nodes, NEW a \in nodes, NEW x, Chain(g, p, a, x),
           \A k \in 1..(Len(path) + 1) : x[k] = node[k]
    PROVE  FALSE
  <1>1. /\ x[1] = g.name /\ x[2] = p.name /\ x[3] = a.name
        /\ g.path = <<>> /\ p.path = <<g.id>> /\ a.path = <<g.id, p.id>>
    BY DEF Chain
  <1>2. Len(path) = 0 \/ Len(path) = 1 \/ Len(path) = 2
    <2>1. Len(path) \in Nat
      OBVIOUS
    <2>2. \A k \in Nat : k < 3 => k = 0 \/ k = 1 \/ k = 2
      OBVIOUS
    <2> QED
      BY <2>1, <2>2
  <1>3. CASE Len(path) = 0
    <2>1. path = <<>> /\ 1 \in 1..(Len(path) + 1) /\ Len(path) + 1 = 1
      BY <1>3
    <2> QED
      BY <1>1, <2>1
  <1>4. CASE Len(path) = 1
    <2>1. path = <<path[1]>> /\ 1 \in 1..(Len(path) + 1) /\ 2 \in 1..(Len(path) + 1) /\ Len(path) + 1 = 2
      BY <1>4
    <2>2. g.id = path[1]
      BY <1>4, <2>1, OnlyWalk
    <2> QED
      BY <1>1, <2>1, <2>2
  <1>5. CASE Len(path) = 2
    <2>1. /\ path = <<path[1], path[2]>> /\ 1 \in 1..(Len(path) + 1) /\ 2 \in 1..(Len(path) + 1)
          /\ 3 \in 1..(Len(path) + 1) /\ Len(path) + 1 = 3
      BY <1>5
    <2>2. g.id = path[1] /\ p.id = path[2]
      BY <1>5, <2>1, OnlyWalk
    <2> QED
      BY <1>1, <2>1, <2>2
  <1> QED
    BY <1>2, <1>3, <1>4, <1>5

LEMMA SameRows ==
    ASSUME nodes' = nodes, NEW x
    PROVE  OnTheWay(x)' <=> OnTheWay(x)
  BY DEF OnTheWay, On, Right, Listed, AllPaths, Chains, Kids

LEMMA NamesGiven ==
    ASSUME NEW x, x.op \in {"q1", "q2", "q3", "q4"}, Shaped(x), Full(x.node)
    PROVE  /\ x.op \in {"q1", "q2"} => Len(x.node) = 1
           /\ x.op = "q3" => Len(x.node) = 2
           /\ x.op = "q4" => Len(x.node) = 3
           /\ \A k \in 1..Len(x.node) : x.node[k] # NoName
  <1>1. CASE x.op \in {"q1", "q2"}
    <2>1. Len(x.node) = 1 /\ DOMAIN x.node = 1..1
      BY <1>1 DEF Shaped
    <2> QED
      BY <1>1, <2>1 DEF Full
  <1>2. CASE x.op = "q3"
    <2>1. Len(x.node) = 2 /\ DOMAIN x.node = 1..2
      BY <1>2 DEF Shaped
    <2> QED
      BY <1>2, <2>1 DEF Full
  <1>3. CASE x.op = "q4"
    <2>1. Len(x.node) = 3 /\ DOMAIN x.node = 1..3
      BY <1>3 DEF Shaped, Triple
    <2> QED
      BY <1>3, <2>1 DEF Full
  <1> QED
    BY <1>1, <1>2, <1>3

\* The empty answer of a walk that finds no row.
LEMMA NothingIsRight ==
    ASSUME TreeTypeOK, NoTwins, NEW x, x.op \in {"q1", "q2", "q3", "q4"}, Shaped(x), Full(x.node),
           x.path \in Seq(Nat), Len(x.path) < Len(x.node), On(nodes, x.path, x.node),
           \A r \in nodes : ~(r.path = x.path /\ r.name = x.node[Len(x.path) + 1]),
           NEW y, y.op = x.op, y.node = x.node, y.got = {}
    PROVE  Right(y)
  <1> DEFINE n == x.node
             m == Len(x.path)
  <1>1. /\ x.op \in {"q1", "q2"} => Len(n) = 1
        /\ x.op = "q3" => Len(n) = 2
        /\ x.op = "q4" => Len(n) = 3
        /\ \A k \in 1..Len(n) : n[k] # NoName
    BY NamesGiven
  <1>2. m \in Nat /\ m < Len(n) /\ Len(n) \in 1..3
    BY <1>1
  <1> HIDE DEF m, n
  <1>3. m < 3 /\ 1..(m + 1) \subseteq 1..Len(n)
    <2>1. \A i \in Nat, l \in 1..3 : i < l => i < 3 /\ 1..(i + 1) \subseteq 1..l
      OBVIOUS
    <2> QED
      BY <1>2, <2>1
  <1>4. \A k \in 1..(m + 1) : n[k] # NoName
    BY <1>1, <1>3
  <1>5. ASSUME NEW z \in AllPaths, \A k \in 1..(m + 1) : z[k] = n[k] PROVE FALSE
    <2>1. PICK g \in nodes, p \in nodes, a \in nodes : Chain(g, p, a, z)
      BY PathsAreChains DEF TreeTypeOK
    <2> QED
      BY <1>3, <1>4, <1>5, <2>1, NoneMissed DEF m, n
  <1>6. ASSUME NEW z \in AllPaths, \A k \in 1..Len(n) : z[k] = n[k] PROVE FALSE
    BY <1>3, <1>5, <1>6
  <1>7. CASE x.op \in {"q1", "q2"}
    <2>1. \A z \in AllPaths : z[1] # n[1]
      BY <1>1, <1>6, <1>7
    <2> QED
      BY <1>7, <2>1 DEF Right, n
  <1>8. CASE x.op = "q3"
    <2>1. ASSUME NEW z \in AllPaths, <<z[1], z[2]>> = n PROVE FALSE
      <3>1. z[1] = n[1] /\ z[2] = n[2]
        BY <2>1
      <3>2. \A k \in 1..Len(n) : k = 1 \/ k = 2
        <4>1. Len(n) = 2
          BY <1>1, <1>8
        <4>2. \A k \in 1..2 : k = 1 \/ k = 2
          OBVIOUS
        <4> QED
          BY <4>1, <4>2, Zenon
      <3>3. \A k \in 1..Len(n) : z[k] = n[k]
        BY <3>1, <3>2
      <3> QED
        BY <1>6, <3>3, Zenon
    <2> QED
      BY <1>8, <2>1 DEF Right, n
  <1>9. CASE x.op = "q4"
    <2>1. n \notin AllPaths
      BY <1>6
    <2> QED
      BY <1>9, <2>1 DEF Right, n
  <1> QED
    BY <1>7, <1>8, <1>9

LEMMA QueryWalks ==
    ASSUME TreeTypeOK, NoTwins, NEW c \in Procs, call[c].op \in {"q1", "q2", "q3", "q4"},
           Shaped(call[c]), Undisturbed(call[c]), OnTheWay(call[c]), Deep(c) < Len(call[c].node),
           NEW rows, rows \in {Match(call[c].path, call[c].node[Deep(c) + 1]),
                              MatchExactly(call[c].path, call[c].node[Deep(c) + 1])},
           Descend(c, rows, Ended(c, {}))
    PROVE  OnTheWay(call'[c]) /\ call'[c].at \in {"find", "done"}
  <1> DEFINE x == call[c]
             n == x.node
             m == Len(x.path)
  <1>1. /\ RowsOK /\ IsCall(x) /\ x.path \in Seq(Nat) /\ x.at = "find" /\ m = Deep(c)
        /\ m \in Nat /\ call = [d \in Procs |-> call[d]]
    BY DEF TreeTypeOK, CallOK, Descend, Deep
  <1>2. On(nodes, x.path, n) /\ x.got = {} /\ Full(n)
    BY <1>1 DEF OnTheWay, Undisturbed
  <1>3. n[m + 1] # NoName
    <2>1. Len(n) \in Nat /\ \A k \in 1..Len(n) : n[k] # NoName
      BY <1>2, NamesGiven
    <2> QED
      BY <1>1, <2>1
  <1>4. rows = {r \in nodes : r.path = x.path /\ r.name = n[m + 1]}
    BY <1>1, <1>3 DEF Match, MatchExactly, Kids
  <1>5. CASE rows = {}
    <2> DEFINE y == [x EXCEPT !.at = "done", !.got = {}, !.left = {}, !.path = <<>>]
    <2>1. call'[c] = y
      BY <1>1, <1>5 DEF Descend, Step, Ended, Queries
    <2>2. y.op = x.op /\ y.node = x.node /\ y.got = {} /\ y.at = "done"
      BY <1>1 DEF IsCall, Fields
    <2> HIDE DEF y
    <2>3. \A r \in nodes : ~(r.path = x.path /\ r.name = n[m + 1])
      BY <1>4, <1>5
    <2>4. m < Len(n)
      BY <1>1
    <2>5. Right(y)
      BY <1>1, <1>2, <2>2, <2>3, <2>4, NothingIsRight
    <2> QED
      BY <2>1, <2>2, <2>5 DEF OnTheWay
  <1>6. CASE rows # {}
    <2> DEFINE r == FirstOf(rows)
               path == Append(x.path, r.id)
               y == [x EXCEPT !.path = path, !.at = "find"]
    <2>1. call'[c] = y
      <3>1. ~Arrived(c)
        BY DEF Arrived
      <3> QED
        BY <1>1, <1>6, <3>1 DEF Descend, Step, Down, IsCall, Fields
    <2>2. r \in rows
      BY <1>1, <1>4, <1>6, FirstIsThere
    <2>3. r \in nodes /\ r.path = x.path /\ Fits(r, n[m + 1]) /\ r.id \in Nat
      BY <1>1, <1>4, <2>2 DEF Fits, RowsOK
    <2> HIDE DEF r
    <2>4. On(nodes, path, n)
      BY <1>1, <1>2, <2>3, OnGoesDown
    <2> HIDE DEF path
    <2>5. y.path = path /\ y.at = "find" /\ y.node = n /\ y.got = {}
      BY <1>1, <1>2 DEF IsCall, Fields
    <2> HIDE DEF y
    <2> QED
      BY <2>1, <2>4, <2>5 DEF OnTheWay
  <1> QED
    BY <1>5, <1>6

\* The group and the product a walk has found.
LEMMA FirstRows ==
    ASSUME NEW path \in Seq(Nat), NEW node, On(nodes, path, node)
    PROVE  /\ Len(path) >= 1 /\ node[1] # NoName =>
                \E g \in nodes : g.id = path[1] /\ g.path = <<>> /\ g.name = node[1]
           /\ Len(path) >= 2 /\ node[2] # NoName =>
                \E p \in nodes : p.id = path[2] /\ p.path = <<path[1]>> /\ p.name = node[2]
  <1>1. ASSUME Len(path) >= 1, node[1] # NoName
        PROVE  \E g \in nodes : g.id = path[1] /\ g.path = <<>> /\ g.name = node[1]
    <2>1. 1 \in 1..Len(path) /\ SubSeq(path, 1, 1 - 1) = <<>>
      BY <1>1
    <2> QED
      BY <1>1, <2>1 DEF On, Fits
  <1>2. ASSUME Len(path) >= 2, node[2] # NoName
        PROVE  \E p \in nodes : p.id = path[2] /\ p.path = <<path[1]>> /\ p.name = node[2]
    <2>1. 2 \in 1..Len(path)
      BY <1>2
    <2>2. SubSeq(path, 1, 2 - 1) = <<path[1]>>
      <3>1. SubSeq(path, 1, 2 - 1) = [i \in 1..1 |-> path[i]]
        BY <1>2
      <3>2. [i \in 1..1 |-> path[i]] = <<path[1]>>
        OBVIOUS
      <3> QED
        BY <3>1, <3>2, Zenon
    <2> QED
      BY <1>2, <2>1, <2>2 DEF On, Fits
  <1> QED
    BY <1>1, <1>2

LEMMA Query1Right ==
    ASSUME TreeTypeOK, NoTwins, NEW x, x.op = "q1", x.path \in Seq(Nat), Len(x.path) = 1,
           x.node[1] # NoName, On(nodes, x.path, x.node),
           NEW y, y.op = x.op, y.node = x.node, y.got = {r.name : r \in Kids(x.path)}
    PROVE  Right(y)
  <1>1. ASSUME NEW z \in AllPaths, z[1] = x.node[1] PROVE z[2] \in y.got
    <2>1. PICK g \in nodes, p \in nodes, a \in nodes : Chain(g, p, a, z)
      BY PathsAreChains DEF TreeTypeOK
    <2>2. g.id = x.path[1]
      BY <1>1, <2>1, OnlyWalk
    <2>3. x.path = <<x.path[1]>>
      OBVIOUS
    <2>4. p \in Kids(x.path) /\ z[2] = p.name
      BY <2>1, <2>2, <2>3 DEF Chain, Kids
    <2> QED
      BY <2>4
  <1> QED
    BY <1>1 DEF Right

LEMMA Query2Lists ==
    ASSUME TreeTypeOK, NEW path \in Seq(Nat), Len(path) = 1, NEW node, node[1] # NoName, On(nodes, path, node),
           NEW left, left \subseteq Kids(path), NEW p \in left
    PROVE  Listed(path, left \ {p}, node[1])
               = Listed(path, left, node[1])
                 \cup {<<node[1], p.name, a.name>> : a \in Kids(Append(p.path, p.id))}
  <1> DEFINE more == {<<node[1], p.name, a.name>> : a \in Kids(Append(p.path, p.id))}
  <1>1. p \in nodes /\ p.path = path /\ path = <<path[1]>> /\ path[1] \in Nat
    BY DEF Kids
  <1>2. PICK g \in nodes : g.id = path[1] /\ g.path = <<>> /\ g.name = node[1]
    BY FirstRows
  <1>3. Append(p.path, p.id) = <<g.id, p.id>>
    BY <1>1, <1>2, Pairs DEF TreeTypeOK, RowsOK
  <1>4. ASSUME NEW z \in Listed(path, left \ {p}, node[1]) PROVE z \in Listed(path, left, node[1]) \cup more
    <2>1. PICK h \in nodes, o \in nodes, a \in nodes :
              Chain(h, o, a, z) /\ o.path = path /\ o \notin left \ {p} /\ z[1] = node[1]
      BY DEF Listed
    <2>2. CASE o # p
      BY <2>1, <2>2 DEF Listed
    <2>3. CASE o = p
      <3>1. h.id = g.id
        BY <1>1, <1>2, <2>1, <2>3 DEF Chain
      <3>2. a \in Kids(Append(p.path, p.id)) /\ z = <<node[1], p.name, a.name>>
        BY <1>3, <2>1, <2>3, <3>1 DEF Chain, Kids
      <3> QED
        BY <3>2
    <2> QED
      BY <2>2, <2>3
  <1>5. ASSUME NEW z \in more PROVE z \in Listed(path, left \ {p}, node[1])
    <2>1. PICK a \in Kids(Append(p.path, p.id)) : z = <<node[1], p.name, a.name>>
      OBVIOUS
    <2>2. Chain(g, p, a, z) /\ a \in nodes
      BY <1>1, <1>2, <1>3, <2>1 DEF Chain, Kids
    <2>3. z \in AllPaths /\ z[1] = node[1]
      BY <1>1, <2>1, <2>2, ChainIsListed DEF TreeTypeOK
    <2> QED
      BY <1>1, <2>2, <2>3 DEF Listed
  <1>6. Listed(path, left, node[1]) \subseteq Listed(path, left \ {p}, node[1])
    BY DEF Listed
  <1> QED
    BY <1>4, <1>5, <1>6

LEMMA Query2Right ==
    ASSUME TreeTypeOK, NoTwins, NEW path \in Seq(Nat), Len(path) = 1, NEW node, node[1] # NoName,
           On(nodes, path, node),
           NEW y, y.op = "q2", y.node = node, y.got = Listed(path, {}, node[1])
    PROVE  Right(y)
  <1>1. ASSUME NEW z \in AllPaths, z[1] = node[1] PROVE z \in y.got
    <2>1. PICK g \in nodes, p \in nodes, a \in nodes : Chain(g, p, a, z)
      BY PathsAreChains DEF TreeTypeOK
    <2>2. g.id = path[1]
      BY <1>1, <2>1, OnlyWalk
    <2>3. path = <<path[1]>>
      OBVIOUS
    <2>4. p.path = path
      BY <2>1, <2>2, <2>3 DEF Chain
    <2> QED
      BY <1>1, <2>1, <2>4 DEF Listed
  <1>2. \A z \in y.got : z \in AllPaths /\ z[1] = node[1]
    BY DEF Listed
  <1> QED
    BY <1>1, <1>2 DEF Right

LEMMA Query3Right ==
    ASSUME TreeTypeOK, NoTwins, NEW path \in Seq(Nat), Len(path) = 2, NEW node, node = <<node[1], node[2]>>,
           node[1] # NoName, node[2] # NoName, On(nodes, path, node),
           NEW y, y.op = "q3", y.node = node,
           y.got = {<<node[1], node[2], a.name>> : a \in Kids(path)}
    PROVE  Right(y)
  <1>1. path = <<path[1], path[2]>> /\ Len(path) >= 1 /\ Len(path) >= 2
    OBVIOUS
  <1>2. ASSUME NEW z \in AllPaths, <<z[1], z[2]>> = node PROVE z \in y.got
    <2>1. PICK g \in nodes, p \in nodes, a \in nodes : Chain(g, p, a, z)
      BY PathsAreChains DEF TreeTypeOK
    <2>2. z[1] = node[1] /\ z[2] = node[2]
      BY <1>2
    <2>3. g.id = path[1] /\ p.id = path[2]
      BY <2>1, <2>2, OnlyWalk
    <2>4. a \in Kids(path) /\ z = <<node[1], node[2], a.name>>
      BY <1>1, <2>1, <2>2, <2>3 DEF Chain, Kids
    <2> QED
      BY <2>4
  <1>3. ASSUME NEW z \in y.got PROVE z \in AllPaths /\ <<z[1], z[2]>> = node
    <2>1. PICK a \in Kids(path) : z = <<node[1], node[2], a.name>>
      BY <1>3
    <2>2. PICK g \in nodes : g.id = path[1] /\ g.path = <<>> /\ g.name = node[1]
      BY <1>1, FirstRows, Zenon
    <2>3. PICK p \in nodes : p.id = path[2] /\ p.path = <<path[1]>> /\ p.name = node[2]
      BY <1>1, FirstRows, Zenon
    <2>4. Chain(g, p, a, z) /\ a \in nodes
      BY <1>1, <2>1, <2>2, <2>3 DEF Chain, Kids
    <2> QED
      BY <2>1, <2>4, ChainIsListed DEF TreeTypeOK
  <1> QED
    BY <1>2, <1>3 DEF Right

LEMMA Query4Right ==
    ASSUME TreeTypeOK, NEW path \in Seq(Nat), Len(path) = 3, NEW node, Triple(node), Full(node),
           On(nodes, path, node), NEW y, y.op = "q4", y.node = node, y.got = {node}
    PROVE  Right(y)
  <1>1. 3 \in 1..Len(path)
    OBVIOUS
  <1>2. PICK a \in nodes : a.path = SubSeq(path, 1, 3 - 1) /\ Fits(a, node[3])
    BY <1>1 DEF On
  <1>3. HasChain(nodes, node)
    BY <1>2, WalkIsChain
  <1>4. node \in AllPaths
    BY <1>3, ChainIsListed DEF HasChain, TreeTypeOK
  <1> QED
    BY <1>4 DEF Right

\* A statement of a query, or its end.
LEMMA QueriesGoOn ==
    ASSUME TreeTypeOK, NoTwins, NEW c \in Procs, call[c].op \in Queries, Shaped(call[c]),
           call[c].at \in {"find", "list"}, Undisturbed(call[c]), OnTheWay(call[c]),
           QueryProducts(c) \/ QueryGroup(c) \/ QueryProduct(c) \/ QueryPath(c) \/ QueryAll(c)
    PROVE  OnTheWay(call'[c])
  <1> DEFINE x == call[c]
             n == x.node
  <1>1. /\ RowsOK /\ IsCall(x) /\ x.path \in Seq(Nat) /\ Len(x.path) = Deep(c) /\ CallOK(x)
        /\ call = [d \in Procs |-> call[d]] /\ (x.at = "list" => x.op = "q2")
    BY DEF TreeTypeOK, CallOK, Deep
  <1>2. ASSUME NEW got PROVE LET y == Ended(c, got)
                             IN y.op = x.op /\ y.node = n /\ y.got = got /\ y.at = "done"
    BY <1>1 DEF Ended, IsCall, Fields
  <1>3. ASSUME NEW with, Step(c, with) PROVE call'[c] = with
    BY <1>1, <1>3 DEF Step
  <1>4. ASSUME NEW got, Reply(c, got), \A y : y.op = x.op /\ y.node = n /\ y.got = got => Right(y)
        PROVE  OnTheWay(call'[c])
    <2> DEFINE y == Ended(c, got)
    <2>1. call'[c] = y
      BY <1>3, <1>4 DEF Reply
    <2>2. y.op = x.op /\ y.node = n /\ y.got = got /\ y.at = "done"
      BY <1>2
    <2> HIDE DEF y
    <2> QED
      BY <1>4, <2>1, <2>2 DEF OnTheWay
  <1>5. Full(n)
    BY DEF Undisturbed
  <1>6. CASE QueryProducts(c)
    <2>1. x.op = "q1" /\ x.at = "find" /\ Len(n) = 1 /\ n[1] # NoName
      BY <1>1, <1>5, <1>6, NamesGiven DEF QueryProducts, Running
    <2>2. CASE Deep(c) = 0 /\ Walk(c)
      BY <2>1, <2>2, QueryWalks DEF Walk
    <2>3. CASE Deep(c) = 1 /\ Reply(c, {r.name : r \in Kids(x.path)})
      BY <1>1, <1>4, <2>1, <2>3, Query1Right DEF OnTheWay
    <2> QED
      BY <1>6, <2>2, <2>3 DEF QueryProducts
  <1>7. CASE QueryGroup(c)
    <2>1. x.op = "q2" /\ Len(n) = 1 /\ n[1] # NoName
      BY <1>1, <1>5, <1>7, NamesGiven DEF QueryGroup, Running
    <2>2. CASE Deep(c) = 0 /\ Walk(c)
      BY <2>1, <2>2, QueryWalks DEF Walk
    <2>3. CASE /\ Deep(c) = 1 /\ x.at = "find"
               /\ Step(c, [x EXCEPT !.at = "list", !.left = Kids(x.path)])
      <3> DEFINE left == Kids(x.path)
                 y == [x EXCEPT !.at = "list", !.left = left]
      <3>1. Listed(x.path, left, n[1]) = {}
        BY DEF Listed, Kids
      <3>2. call'[c] = y
        BY <1>3, <2>3
      <3>3. left \subseteq Kids(x.path)
        OBVIOUS
      <3> HIDE DEF left
      <3>4. y.at = "list" /\ y.left = left /\ y.node = n /\ y.path = x.path /\ y.got = x.got
        BY <1>1 DEF IsCall, Fields
      <3> HIDE DEF y
      <3> QED
        BY <1>1, <2>3, <3>1, <3>2, <3>3, <3>4 DEF OnTheWay
    <2>4. CASE x.at = "list" /\ x.left = {} /\ Step(c, Ended(c, x.got))
      <3> DEFINE y == Ended(c, x.got)
      <3>1. call'[c] = y
        BY <1>3, <2>4
      <3>2. y.op = "q2" /\ y.node = n /\ y.got = x.got /\ y.at = "done"
        BY <1>2, <2>1
      <3> HIDE DEF y
      <3>3. x.got = Listed(x.path, {}, n[1]) /\ On(nodes, x.path, n) /\ Len(x.path) = 1
        BY <2>4 DEF OnTheWay
      <3>4. Right(y)
        BY <1>1, <2>1, <3>2, <3>3, Query2Right
      <3> QED
        BY <3>1, <3>2, <3>4 DEF OnTheWay
    <2>5. CASE /\ x.at = "list" /\ x.left # {}
               /\ LET p == FirstOf(x.left)
                  IN Step(c, [x EXCEPT !.left = x.left \ {p},
                                 !.got = x.got \cup Named(c, p.name, Kids(Append(p.path, p.id)))])
      <3> DEFINE p == FirstOf(x.left)
                 left == x.left \ {p}
                 got == x.got \cup Named(c, p.name, Kids(Append(p.path, p.id)))
                 y == [x EXCEPT !.left = left, !.got = got]
      <3>1. /\ On(nodes, x.path, n) /\ Len(x.path) = 1 /\ x.left \subseteq Kids(x.path)
            /\ x.got = Listed(x.path, x.left, n[1])
        BY <2>5 DEF OnTheWay
      <3>2. p \in x.left
        <4>1. x.left \subseteq nodes
          BY <3>1 DEF Kids
        <4> QED
          BY <1>1, <2>5, <4>1, FirstIsThere
      <3>3. call'[c] = y
        BY <1>3, <2>5
      <3>4. left \subseteq Kids(x.path)
        BY <3>1
      <3>5. got = Listed(x.path, left, n[1])
        <4> DEFINE more == {<<n[1], p.name, a.name>> : a \in Kids(Append(p.path, p.id))}
        <4>1. Named(c, p.name, Kids(Append(p.path, p.id))) = more
          BY DEF Named
        <4> HIDE DEF p
        <4>2. Listed(x.path, x.left \ {p}, n[1]) = Listed(x.path, x.left, n[1]) \cup more
          <5>1. PICK path, node, all, one : path = x.path /\ node = n /\ all = x.left /\ one = p
            OBVIOUS
          <5>2. /\ path \in Seq(Nat) /\ Len(path) = 1 /\ node[1] # NoName /\ On(nodes, path, node)
                /\ all \subseteq Kids(path) /\ one \in all
            BY <1>1, <2>1, <3>1, <3>2, <5>1
          <5>3. Listed(path, all \ {one}, node[1]) = Listed(path, all, node[1])
                    \cup {<<node[1], one.name, a.name>> : a \in Kids(Append(one.path, one.id))}
            BY <5>2, Query2Lists
          <5> QED
            BY <5>1, <5>3, Zenon
        <4> HIDE DEF more
        <4> QED
          BY <3>1, <4>1, <4>2
      <3> HIDE DEF left, got
      <3>6. y.at = "list" /\ y.left = left /\ y.node = n /\ y.path = x.path /\ y.got = got
        BY <1>1, <2>5 DEF IsCall, Fields
      <3> HIDE DEF y
      <3> QED
        BY <3>1, <3>3, <3>4, <3>5, <3>6 DEF OnTheWay
    <2> QED
      BY <1>7, <2>2, <2>3, <2>4, <2>5 DEF QueryGroup
  <1>8. CASE QueryProduct(c)
    <2>1. x.op = "q3" /\ x.at = "find" /\ Len(n) = 2 /\ n[1] # NoName /\ n[2] # NoName
      BY <1>1, <1>5, <1>8, NamesGiven DEF QueryProduct, Running
    <2>2. CASE Deep(c) = 0 /\ Walk(c)
      BY <2>1, <2>2, QueryWalks DEF Walk
    <2>3. CASE Deep(c) = 1 /\ Descend(c, MatchExactly(x.path, n[2]), Ended(c, {}))
      <3>1. Deep(c) + 1 = 2 /\ Deep(c) < Len(n)
        BY <2>1, <2>3
      <3> QED
        BY <2>1, <2>3, <3>1, QueryWalks
    <2>4. CASE Deep(c) = 2 /\ Reply(c, Named(c, n[2], Kids(x.path)))
      <3>1. On(nodes, x.path, n) /\ Len(x.path) = 2 /\ n = <<n[1], n[2]>>
        BY <1>1, <2>1, <2>4 DEF OnTheWay, Shaped
      <3>2. \A y : y.op = "q3" /\ y.node = n /\ y.got = {<<n[1], n[2], a.name>> : a \in Kids(x.path)} => Right(y)
        BY <1>1, <2>1, <3>1, Query3Right
      <3> QED
        BY <1>4, <2>1, <2>4, <3>2 DEF Named
    <2> QED
      BY <1>8, <2>2, <2>3, <2>4 DEF QueryProduct
  <1>9. CASE QueryPath(c)
    <2>1. x.op = "q4" /\ x.at = "find" /\ Len(n) = 3 /\ Triple(n)
      BY <1>1, <1>5, <1>9, NamesGiven DEF QueryPath, Running, Shaped
    <2>2. CASE Deep(c) < 3 /\ Walk(c)
      BY <2>1, <2>2, QueryWalks DEF Walk
    <2>3. CASE Deep(c) = 3 /\ Reply(c, {n})
      <3>1. On(nodes, x.path, n) /\ Len(x.path) = 3
        BY <1>1, <2>1, <2>3 DEF OnTheWay
      <3>2. \A y : y.op = "q4" /\ y.node = n /\ y.got = {n} => Right(y)
        BY <1>1, <1>5, <2>1, <3>1, Query4Right
      <3> QED
        BY <1>4, <2>1, <2>3, <3>2
    <2> QED
      BY <1>9, <2>2, <2>3 DEF QueryPath
  <1>10. CASE QueryAll(c)
    <2>1. x.op = "q5"
      BY <1>10 DEF QueryAll, Running
    <2> QED
      BY <1>4, <1>10, <2>1 DEF QueryAll, Right
  <1> QED
    BY <1>6, <1>7, <1>8, <1>9, <1>10

\* What a step of one request does to the query of another.
LEMMA QueriesOfOthers ==
    ASSUME TreeTypeOK, NEW d \in Procs, Moves(d) \/ Begins(d), NEW c \in Procs \ {d}
    PROVE  \/ call'[c] = call[c] /\ nodes' = nodes
           \/ /\ call'[c].op = call[c].op /\ call'[c].node = call[c].node /\ call'[c].at = call[c].at
              /\ (call[c].op \in Queries => ~call'[c].still)
  <1>1. ASSUME NEW with, Step(d, with), nodes' = nodes PROVE call'[c] = call[c] /\ nodes' = nodes
    BY <1>1 DEF Step, TreeTypeOK
  <1>2. ASSUME NEW with, Changed(d, with)
        PROVE  /\ call'[c].op = call[c].op /\ call'[c].node = call[c].node /\ call'[c].at = call[c].at
               /\ (call[c].op \in Queries => ~call'[c].still)
    <2>1. call'[c] = [call[c] EXCEPT !.still = @ /\ call[c].op \notin Queries]
      BY <1>2 DEF Changed
    <2>2. IsCall(call[c])
      BY DEF TreeTypeOK, CallOK
    <2>3. /\ call'[c].op = call[c].op /\ call'[c].node = call[c].node /\ call'[c].at = call[c].at
          /\ call'[c].still = (call[c].still /\ call[c].op \notin Queries)
      BY <2>1, <2>2 DEF IsCall, Fields
    <2> QED
      BY <2>3
  <1>3. ASSUME NEW rows, NEW missing, Descend(d, rows, missing) PROVE call'[c] = call[c] /\ nodes' = nodes
    BY <1>1, <1>3 DEF Descend
  <1> QED
    BY <1>1, <1>2, <1>3 DEF Moves, Begins, Begin, Aside, Looks, Inserts, Insert, ResourceMount, Deletes

LEMMA QueryBegins ==
    ASSUME TreeTypeOK, NEW c \in Callers, Begins(c), call'[c].op \in Queries
    PROVE  Shaped(call'[c]) /\ call'[c].at = "find" /\ OnTheWay(call'[c])
  <1>1. PICK q \in Requests : Begin(c, q)
    BY DEF Begins
  <1> DEFINE with == [Idle EXCEPT !.op = q.op, !.node = q.node, !.hosts = q.hosts]
  <1>2. with.op = q.op /\ with.node = q.node /\ with.at = "find" /\ with.path = <<>> /\ with.got = {}
    BY DEF Idle
  <1>3. call'[c] = with
    <2>1. c \in Procs
      BY DEF Procs
    <2> QED
      BY <1>1, <2>1 DEF Begin, Step, TreeTypeOK
  <1> HIDE DEF with
  <1>4. WellShaped(q) /\ q.node = [k \in 1..Len(q.node) |-> q.node[k]]
    BY <1>1, RequestsAssumption DEF Begin
  <1>5. q.op = "q4" => Triple(q.node)
    <2>1. q.op = "q4" => q.node = [k \in 1..3 |-> q.node[k]]
      BY <1>4 DEF WellShaped
    <2>2. \A f : f = [k \in 1..3 |-> f[k]] => f = <<f[1], f[2], f[3]>>
      OBVIOUS
    <2> QED
      BY <2>1, <2>2, Zenon DEF Triple
  <1>6. q.op = "q3" => q.node = <<q.node[1], q.node[2]>>
    <2>1. q.op = "q3" => q.node = [k \in 1..2 |-> q.node[k]]
      BY <1>4 DEF WellShaped
    <2>2. \A f : f = [k \in 1..2 |-> f[k]] => f = <<f[1], f[2]>>
      OBVIOUS
    <2> QED
      BY <2>1, <2>2, Zenon
  <1>7. q.op \in {"q1", "q2"} => q.node = <<q.node[1]>>
    <2>1. q.op \in {"q1", "q2"} => q.node = [k \in 1..1 |-> q.node[k]]
      BY <1>4 DEF WellShaped
    <2>2. \A f : f = [k \in 1..1 |-> f[k]] => f = <<f[1]>>
      OBVIOUS
    <2> QED
      BY <2>1, <2>2, Zenon
  <1>8. Shaped(call'[c])
    BY <1>2, <1>3, <1>5, <1>6, <1>7 DEF Shaped
  <1>9. On(nodes, <<>>, q.node)
    BY OnStarts
  <1> QED
    BY <1>2, <1>3, <1>8, <1>9 DEF OnTheWay

\* The request goes on, or ends, or fails.
LEMMA QueryMoves ==
    ASSUME TreeTypeOK, NEW c \in Procs, call[c].op \in Queries, Serve(c) \/ Refused(c),
           call'[c].op \in Queries, call[c].at \in {"find", "list", "done"}
    PROVE  /\ call'[c].op = call[c].op /\ call'[c].node = call[c].node
           /\ call'[c].at \in {"find", "list", "done"}
           /\ UNCHANGED <<nodes, addsMet, delMet>>
           /\ Undisturbed(call'[c]) =>
                /\ Undisturbed(call[c]) /\ call[c].at # "done"
                /\ \/ QueryProducts(c) \/ QueryGroup(c) \/ QueryProduct(c) \/ QueryPath(c)
                   \/ QueryAll(c)
  <1> DEFINE x == call[c]
  <1>1. IsCall(x) /\ CallOK(x) /\ call = [d \in Procs |-> call[d]] /\ x.op # "none"
        /\ x.op \notin Adders /\ x.op # "unmount" /\ x.op \notin Writers /\ x.op # "del" /\ x.op # "add" /\ x.op # "mount"
    BY DEF TreeTypeOK, CallOK, Queries, Adders, Writers
  <1>2. ASSUME NEW with, Step(c, with) PROVE call'[c] = with
    BY <1>1, <1>2 DEF Step
  <1>3. ASSUME NEW got PROVE LET y == Ended(c, got)
                             IN IsCall(y) /\ y.op = x.op /\ y.node = x.node /\ y.at = "done"
                                /\ y.still = x.still /\ y.failed = x.failed
    BY <1>1 DEF Ended, IsCall, Fields
  <1>4. ~Return(c)
    <2>1. Idle.op \notin Queries
      BY DEF Idle, Queries
    <2> QED
      BY <1>2, <2>1 DEF Return
  <1>5. CASE Refused(c)
    <2>1. CASE x.left = {}
      <3> DEFINE e == Ended(c, {})
                 y == [e EXCEPT !.failed = TRUE]
      <3>1. call'[c] = y
        BY <1>2, <1>5, <2>1 DEF Refused
      <3>2. IsCall(e) /\ e.op = x.op /\ e.node = x.node /\ e.at = "done"
        BY <1>3
      <3> HIDE DEF e
      <3>3. y.op = x.op /\ y.node = x.node /\ y.at = "done" /\ y.failed = TRUE
        BY <3>2 DEF IsCall, Fields
      <3> HIDE DEF y
      <3> QED
        BY <1>5, <3>1, <3>3 DEF Refused, history, Undisturbed
    <2>2. CASE x.left # {}
      <3> DEFINE left == x.left \ {FirstOf(x.left)}
                 y == [x EXCEPT !.left = left, !.failed = TRUE]
      <3>1. call'[c] = y
        BY <1>2, <1>5, <2>2 DEF Refused
      <3> HIDE DEF left
      <3>2. y.op = x.op /\ y.node = x.node /\ y.at = x.at /\ y.failed = TRUE
        BY <1>1 DEF IsCall, Fields
      <3> HIDE DEF y
      <3> QED
        BY <1>5, <3>1, <3>2 DEF Refused, history, Undisturbed
    <2> QED
      BY <2>1, <2>2
  <1>6. CASE Serve(c)
    <2>1. \/ QueryProducts(c) \/ QueryGroup(c) \/ QueryProduct(c) \/ QueryPath(c) \/ QueryAll(c)
      BY <1>1, <1>4, <1>6 DEF Serve, StreeAdd, CheckPathExists, ResourceMount, ResourceUnMount, StreeDelete, Running
    <2>2. x.at # "done"
      BY <2>1 DEF QueryProducts, QueryGroup, QueryProduct, QueryPath, QueryAll, Running
    <2>3. ASSUME NEW got, Step(c, Ended(c, got))
          PROVE  /\ call'[c].op = x.op /\ call'[c].node = x.node /\ call'[c].at = "done"
                 /\ call'[c].still = x.still /\ call'[c].failed = x.failed
      BY <1>2, <1>3, <2>3
    <2>4. ASSUME NEW rows, Descend(c, rows, Ended(c, {}))
          PROVE  /\ call'[c].op = x.op /\ call'[c].node = x.node /\ call'[c].at \in {"find", "done"}
                 /\ call'[c].still = x.still /\ call'[c].failed = x.failed
                 /\ UNCHANGED <<nodes, addsMet, delMet>>
      <3>1. UNCHANGED <<nodes, addsMet, delMet>> /\ ~Arrived(c)
        BY <1>1, <2>4 DEF Descend, Arrived
      <3>2. CASE rows = {}
        BY <2>3, <2>4, <3>1, <3>2 DEF Descend
      <3>3. CASE rows # {}
        <4> DEFINE path == Append(x.path, FirstOf(rows).id)
                   y == [x EXCEPT !.path = path, !.at = "find"]
        <4>1. call'[c] = y
          BY <1>1, <1>2, <2>4, <3>1, <3>3 DEF Descend, Down, IsCall, Fields
        <4> HIDE DEF path
        <4>2. y.op = x.op /\ y.node = x.node /\ y.at = "find" /\ y.still = x.still /\ y.failed = x.failed
          BY <1>1 DEF IsCall, Fields
        <4> HIDE DEF y
        <4> QED
          BY <3>1, <4>1, <4>2
      <3> QED
        BY <3>2, <3>3
    <2>5. ASSUME NEW left, Step(c, [x EXCEPT !.at = "list", !.left = left])
          PROVE  /\ call'[c].op = x.op /\ call'[c].node = x.node /\ call'[c].at = "list"
                 /\ call'[c].still = x.still /\ call'[c].failed = x.failed
      <3> DEFINE y == [x EXCEPT !.at = "list", !.left = left]
      <3>1. y.op = x.op /\ y.node = x.node /\ y.at = "list" /\ y.still = x.still /\ y.failed = x.failed
        BY <1>1 DEF IsCall, Fields
      <3>2. call'[c] = y
        BY <1>2, <2>5
      <3> HIDE DEF y
      <3> QED
        BY <3>1, <3>2
    <2>6. ASSUME NEW left, NEW got, Step(c, [x EXCEPT !.left = left, !.got = got])
          PROVE  /\ call'[c].op = x.op /\ call'[c].node = x.node /\ call'[c].at = x.at
                 /\ call'[c].still = x.still /\ call'[c].failed = x.failed
      <3> DEFINE y == [x EXCEPT !.left = left, !.got = got]
      <3>1. y.op = x.op /\ y.node = x.node /\ y.at = x.at /\ y.still = x.still /\ y.failed = x.failed
        BY <1>1 DEF IsCall, Fields
      <3>2. call'[c] = y
        BY <1>2, <2>6
      <3> HIDE DEF y
      <3> QED
        BY <3>1, <3>2
    <2>7. /\ call'[c].op = x.op /\ call'[c].node = x.node /\ call'[c].at \in {"find", "list", "done"}
          /\ call'[c].still = x.still /\ call'[c].failed = x.failed
          /\ UNCHANGED <<nodes, addsMet, delMet>>
      <3>1. CASE Walk(c) \/ Descend(c, MatchExactly(x.path, x.node[2]), Ended(c, {}))
        BY <2>4, <3>1 DEF Walk
      <3>2. ASSUME NEW got, Reply(c, got)
            PROVE  /\ call'[c].op = x.op /\ call'[c].node = x.node /\ call'[c].at \in {"find", "list", "done"}
                   /\ call'[c].still = x.still /\ call'[c].failed = x.failed
                   /\ UNCHANGED <<nodes, addsMet, delMet>>
        BY <2>3, <3>2 DEF Reply, history
      <3>3. CASE QueryGroup(c) /\ ~Walk(c)
        BY <2>3, <2>5, <2>6, <3>3 DEF QueryGroup, history
      <3> QED
        BY <2>1, <3>1, <3>2, <3>3 DEF QueryProducts, QueryProduct, QueryPath, QueryAll
    <2> QED
      BY <2>1, <2>2, <2>7 DEF Undisturbed
  <1> QED
    BY <1>5, <1>6

\* No other deletion or addition is forgotten.
LEMMA CalmWasCalm ==
    ASSUME NEW d \in Procs, Moves(d) \/ Begins(d), Calm'
    PROVE  Calm
  <1> SUFFICES (addsMet => addsMet') /\ (delMet => delMet')
    BY DEF Calm
  <1>1. Begins(d) => (addsMet => addsMet') /\ (delMet => delMet')
    BY DEF Begins, Begin
  <1>2. Moves(d) => UNCHANGED <<addsMet, delMet>>
    BY DEF Moves, Aside, Looks, Descend, Inserts, Insert, ResourceMount, Deletes
  <1> QED
    BY <1>1, <1>2

LEMMA OpsAreKept ==
    ASSUME TreeTypeOK, NEW c \in Procs, Moves(c)
    PROVE  call'[c].op \in {"none", call[c].op}
  <1>1. IsCall(call[c])
    BY DEF TreeTypeOK, CallOK
  <1>2. ASSUME NEW with, Step(c, with) \/ Changed(c, with), with.op \in {"none", call[c].op}
        PROVE  call'[c].op \in {"none", call[c].op}
    BY <1>2, OthersStay
  <1>3. ASSUME NEW id, NEW then PROVE Down(c, id, then).op \in {"none", call[c].op}
    <2>1. CASE Arrived(c)
      BY <2>1 DEF Down, Idle
    <2>2. CASE ~Arrived(c)
      <3> DEFINE path == Append(call[c].path, id)
                 y == [call[c] EXCEPT !.path = path, !.at = then]
      <3>1. Down(c, id, then) = y
        BY <1>1, <2>2 DEF Down, IsCall, Fields
      <3> HIDE DEF path
      <3>2. y.op = call[c].op
        BY <1>1 DEF IsCall, Fields
      <3> QED
        BY <3>1, <3>2
    <2> QED
      BY <2>1, <2>2
  <1>4. ASSUME NEW got, call[c].op # "none" PROVE Ended(c, got).op \in {"none", call[c].op}
    BY <1>4, EndedOK
  <1>5. CASE Looks(c)
    <2>1. PICK rows, missing :
              /\ Descend(c, rows, missing)
              /\ call[c].op \in Adders => missing = [call[c] EXCEPT !.at = "insert"]
              /\ call[c].op \notin Adders => missing.op \in {"none", call[c].op}
      BY <1>5 DEF Looks
    <2>2. missing.op \in {"none", call[c].op}
      BY <1>1, <2>1 DEF IsCall, Fields
    <2> QED
      BY <1>2, <1>3, <2>1, <2>2 DEF Descend
  <1>6. CASE Inserts(c)
    BY <1>2, <1>3, <1>6 DEF Inserts, Insert
  <1>7. CASE ResourceMount(c) \/ Deletes(c)
    <2>1. call[c].op # "none"
      BY <1>7 DEF ResourceMount, Running, Deletes
    <2> QED
      BY <1>2, <1>4, <1>7, <2>1 DEF ResourceMount, Deletes
  <1>8. ASSUME NEW with, Aside(c, with) PROVE call'[c].op \in {"none", call[c].op}
    BY <1>2, <1>8 DEF Aside
  <1> QED
    BY <1>5, <1>6, <1>7, <1>8 DEF Moves

LEMMA QueryStep == TreeInv /\ FoundInv /\ QueryInv /\ [Next]_vars => QueryInv'
  <1> SUFFICES ASSUME TreeInv, FoundInv, QueryInv, [Next]_vars,
                      NEW c \in Callers, call'[c].op \in Queries
               PROVE  /\ Shaped(call'[c]) /\ call'[c].at \in {"find", "list", "done"}
                      /\ Calm' /\ Undisturbed(call'[c]) => OnTheWay(call[c])'
    BY DEF QueryInv, Shaped, Undisturbed
  <1>1. TreeTypeOK /\ c \in Procs /\ (Calm => NoTwins)
    BY DEF TreeInv, Procs, FoundInv
  <1>2. nodes' = nodes => (OnTheWay(call[c])' <=> OnTheWay(call'[c]))
    <2> SUFFICES ASSUME nodes' = nodes PROVE OnTheWay(call[c])' <=> OnTheWay(call'[c])
      OBVIOUS
    <2>1. PICK x : x = call'[c]
      OBVIOUS
    <2>2. OnTheWay(x)' <=> OnTheWay(x)
      BY SameRows
    <2> QED
      BY <2>1, <2>2 DEF OnTheWay, On, Right, Listed, AllPaths, Chains, Kids
  <1>3. CASE UNCHANGED <<nodes, lastId, call, acked, addsMet, delMet>>
    BY <1>2, <1>3 DEF QueryInv, Calm
  <1>4. ASSUME NEW d \in Procs, d # c, Moves(d) \/ Begins(d)
        PROVE  /\ Shaped(call'[c]) /\ call'[c].at \in {"find", "list", "done"}
               /\ Calm' /\ Undisturbed(call'[c]) => OnTheWay(call[c])'
    <2>1. CASE call'[c] = call[c] /\ nodes' = nodes
      BY <1>2, <1>4, <2>1, CalmWasCalm DEF QueryInv
    <2>2. CASE /\ call'[c].op = call[c].op /\ call'[c].node = call[c].node /\ call'[c].at = call[c].at
               /\ (call[c].op \in Queries => ~call'[c].still)
      BY <2>2 DEF QueryInv, Shaped, Undisturbed
    <2> QED
      BY <1>1, <1>4, <2>1, <2>2, QueriesOfOthers
  <1>5. CASE Begins(c)
    <2>1. nodes' = nodes
      BY <1>5 DEF Begins, Begin
    <2> QED
      BY <1>1, <1>2, <1>5, <2>1, QueryBegins
  <1>6. CASE Moves(c) /\ (Serve(c) \/ Refused(c))
    <2>1. call[c].op \in Queries
      BY <1>1, <1>6, OpsAreKept DEF Queries
    <2>2. /\ Shaped(call[c]) /\ call[c].at \in {"find", "list", "done"}
          /\ Calm /\ Undisturbed(call[c]) => OnTheWay(call[c])
      BY <2>1 DEF QueryInv
    <2>3. /\ call'[c].op = call[c].op /\ call'[c].node = call[c].node
          /\ call'[c].at \in {"find", "list", "done"}
          /\ UNCHANGED <<nodes, addsMet, delMet>>
          /\ Undisturbed(call'[c]) =>
                /\ Undisturbed(call[c]) /\ call[c].at # "done"
                /\ \/ QueryProducts(c) \/ QueryGroup(c) \/ QueryProduct(c) \/ QueryPath(c)
                   \/ QueryAll(c)
      BY <1>1, <1>6, <2>1, <2>2, QueryMoves
    <2>4. Shaped(call'[c])
      BY <2>2, <2>3 DEF Shaped
    <2>5. ASSUME Calm', Undisturbed(call'[c]) PROVE OnTheWay(call'[c])
      <3>1. Calm
        BY <2>3, <2>5 DEF Calm
      <3> QED
        BY <1>1, <2>1, <2>2, <2>3, <2>5, <3>1, QueriesGoOn
    <2> QED
      BY <1>2, <2>3, <2>4, <2>5
  <1> QED
    BY <1>1, <1>3, <1>4, <1>5, <1>6, StepKinds

(* Queries 1 to 4 of StreeQuery walk the table in several statements: if it   *)
(* has not changed meanwhile, and no statement failed, they answer what the   *)
(* one statement of query 5 would, whatever deletions, failed additions and   *)
(* nameless nodes have left in the table, until additions or deletions meet.  *)
THEOREM QueriesRight == Spec => []QueriesAgree
  <1>1. Init => FoundInv /\ QueryInv
    BY DEF Init, Idle, Adders, FoundInv, OneWriter, NoTwins, StillMissing, Writers, QueryInv, Queries, Procs
  <1>2. QueryInv => QueriesAgree
    <2> SUFFICES ASSUME QueryInv, NEW c \in Callers, call[c].op \in Queries, call[c].at = "done",
                        Full(call[c].node), call[c].still, ~call[c].failed, ~addsMet, ~delMet
                 PROVE  LET n == call[c].node
                        IN CASE call[c].op = "q1" -> {x[2] : x \in {y \in AllPaths : y[1] = n[1]}}
                                                         \subseteq call[c].got
                             [] call[c].op = "q2" -> call[c].got = {x \in AllPaths : x[1] = n[1]}
                             [] call[c].op = "q3" -> call[c].got = {x \in AllPaths : <<x[1], x[2]>> = n}
                             [] call[c].op = "q4" -> call[c].got = {n} \cap AllPaths
                             [] OTHER -> TRUE
      BY DEF QueriesAgree
    <2>1. Right(call[c])
      BY DEF QueryInv, Calm, Undisturbed, OnTheWay
    <2>2. CASE call[c].op = "q1"
      BY <2>1, <2>2 DEF Right
    <2>3. CASE call[c].op = "q2"
      BY <2>1, <2>3 DEF Right
    <2>4. CASE call[c].op = "q3"
      BY <2>1, <2>4 DEF Right
    <2>5. CASE call[c].op = "q4"
      BY <2>1, <2>5 DEF Right
    <2>6. CASE call[c].op = "q5"
      BY <2>6
    <2> QED
      BY <2>2, <2>3, <2>4, <2>5, <2>6 DEF Queries
  <1> QED
    BY <1>1, <1>2, TreeInvInit, TreeInvStep, FoundStep, QueryStep, PTL DEF Spec
=============================================================================
