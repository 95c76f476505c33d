---------------------------- MODULE ServiceTree ----------------------------
(***************************************************************************)
(* The service tree: table `stree` (pkg/model/stree.go), whose rows are    *)
(* groups, products and apps, the requests that walk and extend it         *)
(* (pkg/web/action/nodepath.go, rmount.go), the hosts mounted on its       *)
(* leaves (pkg/model/rmount.go) and the goroutine of FlushIndex that adds  *)
(* the path of every host (cmd/server/indexer/manager.go).                 *)
(*                                                                         *)
(* Nothing is done in a transaction and the table has no unique key: every *)
(* SQL statement of a request is a step, and requests interleave.          *)
(*                                                                         *)
(* The path column "0", "/1", "/1/2" is the sequence of the ids above a    *)
(* row, so its level is the length of the path plus one.  xorm leaves a    *)
(* zero field out of the WHERE clause: an empty name finds any node.  A    *)
(* SELECT of one row returns the one of least id.                          *)
(***************************************************************************)
EXTENDS Naturals, FiniteSets, Sequences

CONSTANTS
    NoName,    \* the empty string
    Hosts,     \* rows of resource_host
    Requests,  \* what clients ask: records [op, node, hosts]
    Callers,   \* bound: requests served at the same time
    Flusher,   \* the goroutine of FlushIndex (bound: one at a time)
    MaxCalls,  \* bound: requests in a behaviour
    MaxErrors  \* bound: statements the database refuses

Ops == {"add", "mount", "unmount", "del", "q1", "q2", "q3", "q4", "q5"}
Writers == {"add", "mount", "del"}
Queries == {"q1", "q2", "q3", "q4", "q5"}
Unmounted == <<NoName, NoName, NoName>>

ASSUME RequestsAssumption ==
    \A q \in Requests :
        /\ q.op \in Ops /\ q.hosts \subseteq Hosts
        /\ Len(q.node) \in 1..3 /\ q.node = [k \in 1..Len(q.node) |-> q.node[k]]
ASSUME CallersAssumption == Flusher \notin Callers
ASSUME BoundsAssumption == MaxCalls \in Nat /\ MaxErrors \in Nat

VARIABLES
    nodes,     \* the rows: [id, path, name]
    lastId,    \* the auto-increment counter
    mount,     \* stree_group, stree_product, stree_app of every host
    call,      \* the request each goroutine serves
    flush,     \* the paths the goroutine of FlushIndex has still to add
    calls,     \* counts requests (bound)
    errors,    \* counts refused statements (bound)
    acked,     \* history: the paths added (with no error) and not deleted since
    addsMet,   \* history: two additions have run at the same time
    delMet     \* history: a deletion has run at the same time as another writer

vars == <<nodes, lastId, mount, call, flush, calls, errors, acked, addsMet, delMet>>
history == <<acked, addsMet, delMet>>

(* A request: what it asks, the statement it is at, the ids found on the   *)
(* way down, the products query 2 has still to list, what it has found;    *)
(* `still` is history: nothing in the table has changed since it began.    *)
Idle == [op |-> "none", node |-> <<>>, hosts |-> {}, at |-> "find", path |-> <<>>,
         left |-> {}, got |-> {}, still |-> TRUE, failed |-> FALSE]

Procs == Callers \cup {Flusher}
Deep(c) == Len(call[c].path)
Running(c, op) == call[c].op = op /\ call[c].at # "done"
Writing(c) == call[c].op \in Writers /\ call[c].at # "done"

Init ==
    /\ nodes = {}
    /\ lastId = 0
    /\ mount = [h \in Hosts |-> Unmounted]
    /\ call = [c \in Procs |-> Idle]
    /\ flush = {}
    /\ calls = 0
    /\ errors = 0
    /\ acked = {}
    /\ addsMet = FALSE
    /\ delMet = FALSE

-----------------------------------------------------------------------------
(* One statement.                                                          *)

Kids(path) == {r \in nodes : r.path = path}

\* Stree.Get: an empty name is no condition.
Match(path, name) == {r \in Kids(path) : name = NoName \/ r.name = name}

\* Get(where, ...): the name is compared, empty or not.
MatchExactly(path, name) == {r \in Kids(path) : r.name = name}

FirstOf(rows) == CHOOSE r \in rows : \A o \in rows : r.id <= o.id

Step(c, with) == call' = [call EXCEPT ![c] = with]

(* A statement that changes the table under the other requests.            *)
Changed(c, with) == call' = [d \in Procs |->
    IF d = c THEN with ELSE [call[d] EXCEPT !.still = @ /\ call[d].op \notin Queries]]

\* The end of a request; the answer of a query is kept until Return.
Ended(c, got) == IF call[c].op \notin Queries THEN Idle
                 ELSE [call[c] EXCEPT !.at = "done", !.got = got, !.left = {}, !.path = <<>>]

(* Going down to a node; the third node of StreeAdd ends it, and the client *)
(* is told that the path is added.                                         *)
Arrived(c) == call[c].op = "add" /\ Deep(c) = 2
Down(c, id, then) == IF Arrived(c) THEN Idle
                     ELSE [call[c] EXCEPT !.path = Append(@, id), !.at = then]
Told(c) == acked' = IF Arrived(c) /\ c # Flusher THEN acked \cup {call[c].node} ELSE acked

\* Looks for the next node of the path: goes down, or to `missing`.
Descend(c, rows, missing) ==
    /\ call[c].at = "find"
    /\ IF rows = {} THEN Step(c, missing) /\ UNCHANGED acked
       ELSE Step(c, Down(c, FirstOf(rows).id, "find")) /\ Told(c)
    /\ UNCHANGED <<nodes, lastId, mount, flush, calls, errors, addsMet, delMet>>

Walk(c) == Descend(c, Match(call[c].path, call[c].node[Deep(c) + 1]), Ended(c, {}))

\* Inserts the next node of the path below the last one; `then` is the next
\* statement of the request.
Insert(c, parent, then) ==
    /\ call[c].at = "insert"
    /\ lastId' = lastId + 1
    /\ nodes' = nodes \cup {[id |-> lastId', path |-> parent, name |-> call[c].node[Deep(c) + 1]]}
    /\ Changed(c, Down(c, lastId', then))
    /\ Told(c)
    /\ UNCHANGED <<mount, flush, calls, errors, addsMet, delMet>>

Reply(c, got) ==
    /\ Step(c, Ended(c, got))
    /\ UNCHANGED <<nodes, lastId, mount, flush, calls, errors, history>>

-----------------------------------------------------------------------------
(* Adding a path.                                                          *)

FindOrInsert(c) == Descend(c, Match(call[c].path, call[c].node[Deep(c) + 1]),
                          [call[c] EXCEPT !.at = "insert"])

\* A mistake a run must notice: the app is put below the group.
StreeAddBelowGroup(c) ==
    /\ Running(c, "add")
    /\ \/ FindOrInsert(c)
       \/ Insert(c, IF Deep(c) = 2 THEN <<call[c].path[1], call[c].path[1]>>
                    ELSE call[c].path, "insert")

\* A mistake a run must notice: only the group is looked for.
StreeAddAnew(c) ==
    /\ Running(c, "add")
    /\ \/ Deep(c) = 0 /\ FindOrInsert(c)
       \/ Deep(c) = 1 /\ Descend(c, {}, [call[c] EXCEPT !.at = "insert"])
       \/ Insert(c, call[c].path, "insert")

\* After a missing node, StreeAdd inserts the rest without looking.
StreeAdd(c) == Running(c, "add") /\ (FindOrInsert(c) \/ Insert(c, call[c].path, "insert"))

\* GetOrInsert, for each node of the path.
CheckPathExists(c) ==
    /\ Running(c, "mount")
    /\ Deep(c) < 3
    /\ FindOrInsert(c) \/ Insert(c, call[c].path, "find")

-----------------------------------------------------------------------------
(* Mounting hosts.                                                         *)

\* The UPDATE, refused for an empty name.
MountOn(n, hosts) == IF \E k \in 1..3 : n[k] = NoName THEN mount
                     ELSE [h \in Hosts |-> IF h \in hosts THEN n ELSE mount[h]]

Dismount(hosts) == [h \in Hosts |-> IF h \in hosts THEN Unmounted ELSE mount[h]]

\* The path has been made by now, also for a mount that is refused.
ResourceMount(c) ==
    /\ Running(c, "mount")
    /\ Deep(c) = 3
    /\ acked' = acked \cup {call[c].node}
    /\ mount' = MountOn(call[c].node, call[c].hosts)
    /\ Step(c, Ended(c, {}))
    /\ UNCHANGED <<nodes, lastId, flush, calls, errors, addsMet, delMet>>

\* The path is checked, but any host of the list is unmounted, wherever it is.
ResourceUnMount(c) ==
    /\ Running(c, "unmount")
    /\ \/ Deep(c) < 3 /\ Walk(c)
       \/ /\ Deep(c) = 3
          /\ mount' = Dismount(call[c].hosts)
          /\ Step(c, Ended(c, {}))
          /\ UNCHANGED <<nodes, lastId, flush, calls, errors, history>>

-----------------------------------------------------------------------------
(* Queries.                                                                *)

\* Query 1: the products of a group.
QueryProducts(c) ==
    /\ Running(c, "q1")
    /\ \/ Deep(c) = 0 /\ Walk(c)
       \/ Deep(c) = 1 /\ Reply(c, {r.name : r \in Kids(call[c].path)})

Named(c, p, apps) == {<<call[c].node[1], p, a.name>> : a \in apps}

\* Query 2: the paths of a group; its products are listed one by one.
QueryGroup(c) ==
    /\ Running(c, "q2")
    /\ \/ Deep(c) = 0 /\ Walk(c)
       \/ /\ Deep(c) = 1 /\ call[c].at = "find"
          /\ Step(c, [call[c] EXCEPT !.at = "list", !.left = Kids(call[c].path)])
          /\ UNCHANGED <<nodes, lastId, mount, flush, calls, errors, history>>
       \/ /\ call[c].at = "list"
          /\ IF call[c].left = {} THEN Step(c, Ended(c, call[c].got))
             ELSE LET p == FirstOf(call[c].left)
                  IN Step(c, [call[c] EXCEPT !.left = @ \ {p},
                         !.got = @ \cup Named(c, p.name, Kids(Append(p.path, p.id)))])
          /\ UNCHANGED <<nodes, lastId, mount, flush, calls, errors, history>>

\* Query 3: the paths of a product.
QueryProduct(c) ==
    /\ Running(c, "q3")
    /\ Len(call[c].node) = 2
    /\ \/ Deep(c) = 0 /\ Walk(c)
       \/ Deep(c) = 1 /\ Descend(c, MatchExactly(call[c].path, call[c].node[2]), Ended(c, {}))
       \/ Deep(c) = 2 /\ Reply(c, Named(c, call[c].node[2], Kids(call[c].path)))

\* A mistake a run must notice: the app is not looked for.
QueryPathTwo(c) ==
    /\ Running(c, "q4")
    /\ \/ Deep(c) < 2 /\ Walk(c)
       \/ Deep(c) = 2 /\ Reply(c, {call[c].node})

\* Query 4: is there such a path?
QueryPath(c) ==
    /\ Running(c, "q4")
    /\ \/ Deep(c) < 3 /\ Walk(c)
       \/ Deep(c) = 3 /\ Reply(c, {call[c].node})

\* A group, a product of it and an app of that.
Chains == {y \in Kids(<<>>) \X nodes \X nodes :
    y[2].path = <<y[1].id>> /\ y[3].path = Append(y[2].path, y[2].id)}

Names(y) == <<y[1].name, y[2].name, y[3].name>>

\* Query 5: every path, from one SELECT of the whole table.
AllPaths == {Names(y) : y \in Chains}

QueryAll(c) == Running(c, "q5") /\ Reply(c, AllPaths)

-----------------------------------------------------------------------------
(* Deleting a node: the last one of g, g.p or g.p.a.                       *)

Bare(c) == Kids(call[c].path) = {}

\* The path of the app that goes, by the names of its rows: the client may have
\* left one out.
Forget(c, id) == acked' = acked \ ({call[c].node} \cup {Names(y) : y \in {z \in Chains : z[3].id = id}})

\* A mistake a run must notice: children are not counted.
StreeDeleteForced(c) ==
    LET n == Len(call[c].node)
    IN /\ Running(c, "del")
       /\ \/ Deep(c) < n /\ Walk(c)
          \/ /\ Deep(c) = n
             /\ nodes' = {r \in nodes : r.id # call[c].path[n]}
             /\ Forget(c, call[c].path[n])
             /\ Changed(c, Ended(c, {}))
             /\ UNCHANGED <<lastId, mount, flush, calls, errors, addsMet, delMet>>

\* The children are counted by one statement, the node deleted by another.
StreeDelete(c) ==
    LET n == Len(call[c].node)
        name == call[c].node[Deep(c) + 1]
    IN /\ Running(c, "del")
       /\ \/ /\ Deep(c) < n
             /\ Descend(c, IF Deep(c) = 2 THEN MatchExactly(call[c].path, name)
                           ELSE Match(call[c].path, name), Ended(c, {}))
          \/ /\ Deep(c) = n /\ n < 3 /\ call[c].at = "find"
             /\ Step(c, IF Bare(c) THEN [call[c] EXCEPT !.at = "del"] ELSE Ended(c, {}))
             /\ UNCHANGED <<nodes, lastId, mount, flush, calls, errors, history>>
          \/ /\ Deep(c) = n
             /\ n = 3 \/ call[c].at = "del"
             /\ nodes' = {r \in nodes : r.id # call[c].path[n]}
             /\ Forget(c, call[c].path[n])
             /\ Changed(c, Ended(c, {}))
             /\ UNCHANGED <<lastId, mount, flush, calls, errors, addsMet, delMet>>

-----------------------------------------------------------------------------
(* Requests.                                                               *)

\* NodePathAdd, NodePathQuery: the node has as many parts as its query needs.
WellShaped(q) ==
    CASE q.op \in {"add", "mount", "unmount", "q4"} -> Len(q.node) = 3
      [] q.op = "q3" -> Len(q.node) = 2
      [] q.op \in {"q1", "q2"} -> Len(q.node) = 1
      [] OTHER -> TRUE

Begin(c, q) ==
    LET met == {d \in Procs \ {c} : Writing(d)}
    IN /\ WellShaped(q)
       /\ Step(c, [Idle EXCEPT !.op = q.op, !.node = q.node, !.hosts = q.hosts])
       /\ addsMet' = (addsMet \/ (q.op \in Writers /\ met # {}))
       /\ delMet' = (delMet \/ /\ q.op \in Writers
                               /\ \E d \in met : "del" \in {q.op, call[d].op})
       /\ UNCHANGED <<nodes, lastId, mount, errors, acked>>

Request(c) ==
    /\ call[c].op = "none"
    /\ calls < MaxCalls
    /\ calls' = calls + 1
    /\ \E q \in Requests : Begin(c, q)
    /\ UNCHANGED flush

\* The answer goes out.
Return(c) ==
    /\ call[c].at = "done"
    /\ Step(c, Idle)
    /\ UNCHANGED <<nodes, lastId, mount, flush, calls, errors, history>>

\* The database refuses the statement and the request returns: a query answers
\* the empty list, as for a node that does not exist, and query 2 only leaves
\* out the product.
Refused(c) ==
    /\ errors < MaxErrors
    /\ call[c].op # "none" /\ call[c].at # "done"
    /\ errors' = errors + 1
    /\ IF call[c].left = {} THEN Step(c, [Ended(c, {}) EXCEPT !.failed = TRUE])
       ELSE Step(c, [call[c] EXCEPT !.left = @ \ {FirstOf(@)}, !.failed = TRUE])
    /\ UNCHANGED <<nodes, lastId, mount, flush, calls, history>>

\* FlushIndex has read the hosts: it leaves the path of each, also of a host
\* that is not mounted, to a goroutine.
FlushIndex ==
    /\ flush = {} /\ call[Flusher].op = "none"
    /\ flush' = {mount[h] : h \in Hosts}
    /\ UNCHANGED <<nodes, lastId, mount, call, calls, errors, history>>

FlushPath ==
    /\ call[Flusher].op = "none"
    /\ \E n \in flush : /\ flush' = flush \ {n}
                        /\ Begin(Flusher, [op |-> "add", node |-> n, hosts |-> {}])
    /\ UNCHANGED calls

Serve(c) ==
    \/ StreeAdd(c) \/ CheckPathExists(c) \/ ResourceMount(c) \/ ResourceUnMount(c)
    \/ QueryProducts(c) \/ QueryGroup(c) \/ QueryProduct(c) \/ QueryPath(c) \/ QueryAll(c)
    \/ StreeDelete(c) \/ Return(c)

Next ==
    \/ \E c \in Callers : Request(c)
    \/ \E c \in Procs : Serve(c) \/ Refused(c)
    \/ FlushIndex \/ FlushPath

Spec == Init /\ [][Next]_vars

-----------------------------------------------------------------------------
(* Properties.                                                             *)

Full(n) == \A k \in DOMAIN n : n[k] # NoName

\* No product or app is left without the row above it, although the check of a
\* deletion and the deletion are two statements: as long as no deletion meets
\* another writer (StreeDelete, StreeAdd).
NoOrphans == ~delMet => \A r \in nodes : r.path # <<>> =>
    \E o \in nodes : r.path = Append(o.path, o.id)

\* Whoever was told that a path is added sees it in the full list, however the
\* additions interleave and whatever statement fails: two rows may stand for one
\* group, but each addition finishes below its own.
AddedIsListed == ~delMet => \A n \in acked : Full(n) => n \in AllPaths

\* What a lone walk down from the first match finds (query 4, ResourceUnMount).
Found(n) ==
    \E g \in Match(<<>>, n[1]), p, a \in nodes :
        /\ g = FirstOf(Match(<<>>, n[1]))
        /\ Match(<<g.id>>, n[2]) # {} /\ p = FirstOf(Match(<<g.id>>, n[2]))
        /\ a \in Match(Append(p.path, p.id), n[3])

\* Unless two additions meet, a walk from the first matching group and product
\* finds every path that was added: none hides behind a duplicate, and an
\* addition that failed half way does not get in the way of a retry.
AddedIsFound == ~addsMet /\ ~delMet => \A n \in acked : Full(n) => Found(n)

\* "Ask directly whether g.p.a exists" (pkg/model/stree.go:344): a path that was
\* added, and never deleted, is found, whatever ran at the same time.
AddedExists == \A n \in acked : Full(n) => Found(n)

\* Queries 1 to 4 walk the table in several statements; if it has not changed
\* meanwhile they agree with the one statement of query 5, also when deletions,
\* failed additions and nameless nodes have left their traces before.
QueriesAgree ==
    \A c \in Callers : LET n == call[c].node IN
        (/\ call[c].op \in Queries /\ call[c].at = "done" /\ Full(n)
         /\ call[c].still /\ ~call[c].failed /\ ~addsMet /\ ~delMet)
        => CASE call[c].op = "q1" -> {x[2] : x \in {y \in AllPaths : y[1] = n[1]}}
                                     \subseteq call[c].got
             [] call[c].op = "q2" -> call[c].got = {x \in AllPaths : x[1] = n[1]}
             [] call[c].op = "q3" -> call[c].got = {x \in AllPaths : <<x[1], x[2]>> = n}
             [] call[c].op = "q4" -> call[c].got = {n} \cap AllPaths
             [] OTHER -> TRUE

=============================================================================
