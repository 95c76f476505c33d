--------------------------- MODULE InvertedIndex ---------------------------
(***************************************************************************)
(* The inverted index: postings lists and their iterators                  *)
(* (pkg/inverted/index/postings.go), and how a query assembles them        *)
(* (pkg/inverted/querier.go, head.go).                                     *)
(*                                                                         *)
(* An iterator is a record; the operators named ...Next and ...Seek return *)
(* the iterator after the call with the call's answer.  Its `cur` is what  *)
(* At returns; 0 is no id.  Each loop of the code is a While, on the       *)
(* states of the loop.                                                     *)
(*                                                                         *)
(* Queries put iterators together in one way only: lists are merged,       *)
(* lists and merged lists intersected, and from the result others are      *)
(* removed.  So the kinds of iterators are modelled in that order, each    *)
(* with the operations that those above it call.  An iterator whose Next   *)
(* said no is not asked again.                                             *)
(***************************************************************************)
EXTENDS Matchers, Loops, Naturals, FiniteSets, Sequences, SequencesExt

-----------------------------------------------------------------------------
(* Postings lists.                                                         *)

\* addFor: append, then move the id down to its place, behind the last id that is
\* not greater.
AddFor(list, id) ==
    LET place == Max({0} \cup {i \in DOMAIN list : list[i] <= id})
    IN [i \in 1..(Len(list) + 1) |->
            IF i <= place THEN list[i] ELSE IF i = place + 1 THEN id ELSE list[i - 1]]

Yes(it) == [it |-> it, ok |-> TRUE]
No(it) == [it |-> it, ok |-> FALSE]

EmptyPostings == [kind |-> "empty", cur |-> 0]

-----------------------------------------------------------------------------
(* Iterators of lists.  `pos` is how much of the list has been read.       *)

Lists == [kind : {"list"}, list : Seq(Nat), pos : Nat, cur : Nat]
ListPostings(l) == [kind |-> "list", list |-> l, pos |-> 0, cur |-> 0]

ListNext(it) ==
    IF it.pos < Len(it.list) THEN Yes([it EXCEPT !.cur = it.list[it.pos + 1], !.pos = it.pos + 1])
    ELSE No([it EXCEPT !.cur = 0])

\* The list is in order, so the binary search finds the first id that is not below x.
ListSeek(it, x) ==
    LET far == {i \in (it.pos + 1)..Len(it.list) : it.list[i] >= x}
    IN IF it.cur >= x THEN Yes(it)
       ELSE IF far = {} THEN No([it EXCEPT !.pos = Len(it.list)])
       ELSE Yes([it EXCEPT !.cur = it.list[Min(far)], !.pos = Min(far)])

-----------------------------------------------------------------------------
(* Union: a heap of lists, whose top alone is moved.  The place of a list  *)
(* that has left the heap is empty.  Any list of least At may be the top.  *)

MergedIts == [kind : {"merged"}, subs : Seq(Lists \cup {EmptyPostings}), started : BOOLEAN, cur : Nat]

InHeap(it) == {k \in DOMAIN it.subs : it.subs[k].kind = "list"}
Top(it) == CHOOSE k \in InHeap(it) : \A j \in InHeap(it) : it.subs[k].cur <= it.subs[j].cur
TopAt(it) == it.subs[Top(it)].cur

\* heap.Fix, or heap.Pop
AfterTop(it, r) == [it EXCEPT !.subs[Top(it)] = IF r.ok THEN r.it ELSE EmptyPostings]

\* The loop of Next: it moves the top until At changes.
StillThere == [it \in MergedIts |-> InHeap(it) # {} /\ TopAt(it) = it.cur]
NextOfTop == [it \in MergedIts |-> AfterTop(it, ListNext(it.subs[Top(it)]))]

MergedNext(it) ==
    IF InHeap(it) = {} THEN No(it)
    ELSE IF ~it.started THEN Yes([it EXCEPT !.started = TRUE, !.cur = TopAt(it)])
    ELSE LET moved == While(MergedIts, StillThere, NextOfTop)[NextOfTop[it]]
         IN IF InHeap(moved) = {} THEN No(moved) ELSE Yes([moved EXCEPT !.cur = TopAt(moved)])

\* The loop of Seek: it moves the top until At is not below x.
Below(x) == [it \in MergedIts |-> InHeap(it) # {} /\ it.cur < x]
SeekOfTop(x) == [it \in MergedIts |->
    LET moved == AfterTop(it, ListSeek(it.subs[Top(it)], x))
    IN IF InHeap(moved) = {} THEN moved ELSE [moved EXCEPT !.cur = TopAt(moved)]]

MergedSeek(it, x) ==
    LET begun == IF it.started THEN it ELSE MergedNext(it).it
        moved == While(MergedIts, Below(x), SeekOfTop(x))[begun]
    IN IF InHeap(moved) = {} THEN No(moved) ELSE Yes(moved)

\* A merged iterator starts with every list on its first value; a list that has none
\* does not get into the heap.
Merge(its) ==
    LET first == [k \in DOMAIN its |-> IF its[k].kind = "list" THEN ListNext(its[k]) ELSE No(its[k])]
    IN CASE Len(its) = 1 -> its[1]
         [] Len(its) # 1 /\ (\A k \in DOMAIN first : ~first[k].ok) -> EmptyPostings
         [] OTHER -> [kind |-> "merged", started |-> FALSE, cur |-> 0,
                      subs |-> [k \in DOMAIN first |-> IF first[k].ok THEN first[k].it ELSE EmptyPostings]]

-----------------------------------------------------------------------------
(* What a matcher finds: nothing, a list or merged lists.                  *)

Leaves == Lists \cup MergedIts \cup {EmptyPostings}

LeafNext(it) ==
    CASE it.kind = "list" -> ListNext(it)
      [] it.kind = "merged" -> MergedNext(it)
      [] OTHER -> No(it)

LeafSeek(it, x) ==
    CASE it.kind = "list" -> ListSeek(it, x)
      [] it.kind = "merged" -> MergedSeek(it, x)
      [] OTHER -> No(it)

-----------------------------------------------------------------------------
(* Intersection.                                                           *)

Intersections == [kind : {"intersect"}, subs : Seq(Leaves), cur : Nat]

\* The loop of doNext: the first `level` inputs are at cur; when one is beyond, it
\* begins again.
Rounds == [it : Intersections, level : Nat, ok : BOOLEAN]
Uneven == [a \in Rounds |-> a.ok /\ a.level < Len(a.it.subs)]
SeekOfNext == [a \in Rounds |->
    LET k == a.level + 1
        r == LeafSeek(a.it.subs[k], a.it.cur)
        moved == [a EXCEPT !.it.subs[k] = r.it]
    IN IF ~r.ok THEN [moved EXCEPT !.ok = FALSE]
       ELSE IF r.it.cur > a.it.cur THEN [moved EXCEPT !.it.cur = r.it.cur, !.level = 0]
       ELSE [moved EXCEPT !.level = k]]

IntersectNext(it) ==
    LET r == [k \in DOMAIN it.subs |-> LeafNext(it.subs[k])]
        moved == [it EXCEPT !.subs = [k \in DOMAIN it.subs |-> r[k].it],
                            !.cur = Max({it.cur} \cup {r[k].it.cur : k \in DOMAIN it.subs})]
        even == While(Rounds, Uneven, SeekOfNext)[[it |-> moved, level |-> 0, ok |-> TRUE]]
    IN IF \A k \in DOMAIN it.subs : r[k].ok THEN [it |-> even.it, ok |-> even.ok] ELSE No(moved)

Intersect(its) ==
    CASE its = <<>> \/ (Len(its) > 1 /\ EmptyPostings \in ToSet(its)) -> EmptyPostings
      [] Len(its) = 1 -> its[1]
      [] OTHER -> [kind |-> "intersect", subs |-> its, cur |-> 0]

-----------------------------------------------------------------------------
(* Difference.  Both inputs run ahead; fok and rok say whether they still  *)
(* have a value.  `full` is only asked for its next value and shares       *)
(* nothing with other iterators: it stands here as the list of what it     *)
(* gives.                                                                  *)

Removals == [kind : {"removed"}, full : Lists, remove : Leaves, cur : Nat,
             started : BOOLEAN, fok : BOOLEAN, rok : BOOLEAN]

PullFull(it) == LET r == ListNext(it.full) IN [it EXCEPT !.full = r.it, !.fok = r.ok]
PullRemove(it, r) == [it EXCEPT !.remove = r.it, !.rok = r.ok]

\* The loop of Next, while it gives nothing.
Removable == [it \in Removals |-> it.fok /\ it.rok /\ it.remove.cur <= it.full.cur]
Forward == [it \in Removals |->
    IF it.remove.cur < it.full.cur THEN PullRemove(it, LeafSeek(it.remove, it.full.cur))
    ELSE PullFull(it)]

RemovedNext(it) ==
    LET begun == IF it.started THEN it
                 ELSE [PullRemove(PullFull(it), LeafNext(it.remove)) EXCEPT !.started = TRUE]
        moved == While(Removals, Removable, Forward)[begun]
    IN IF moved.fok THEN Yes([PullFull(moved) EXCEPT !.cur = moved.full.cur]) ELSE No(moved)

-----------------------------------------------------------------------------
(* All of a query.                                                         *)

Postings == Leaves \cup Intersections \cup Removals

Advance(it) ==
    CASE it.kind = "intersect" -> IntersectNext(it)
      [] it.kind = "removed" -> RemovedNext(it)
      [] OTHER -> LeafNext(it)

\* The loop of ExpandPostings.  r is the answer of the last Next.
Drains == [r : [it : Postings, ok : BOOLEAN], out : Seq(Nat)]
HasNext == [d \in Drains |-> d.r.ok]
TakeNext == [d \in Drains |-> [r |-> Advance(d.r.it), out |-> Append(d.out, d.r.it.cur)]]
Given(it) == While(Drains, HasNext, TakeNext)[[r |-> Advance(it), out |-> <<>>]].out

\* The list may name an id twice, the result does not.
Expand(it) == ToSet(Given(it))

Removed(full, drop) ==
    [kind |-> "removed", full |-> ListPostings(full), remove |-> drop, cur |-> 0,
     started |-> FALSE, fok |-> FALSE, rok |-> FALSE]

\* A mistake a run must notice: the two are taken for each other.
WithoutSwapped(full, drop) ==
    IF EmptyPostings \in {full, drop} THEN full ELSE Removed(Given(drop), ListPostings(Given(full)))

Without(full, drop) ==
    IF EmptyPostings \in {full, drop} THEN full ELSE Removed(Given(full), drop)

-----------------------------------------------------------------------------
(* How a query puts the postings of its matchers together.                 *)

\* The labels that the matchers together do not let be empty.
MustBeSet(ms) == {ms[k].name : k \in {j \in DOMAIN ms : ~Matches(ms[j], NoValue)}}

(* Where the postings of a matcher go: which values of its label it asks   *)
(* for (`pick`, those that match or those that do not), and whether they   *)
(* are subtracted.                                                         *)
Part(m, match, minus) == [m |-> m, match |-> match, minus |-> minus]

PartOf(ms, m) ==
    IF m.name \notin MustBeSet(ms) THEN Part(m, FALSE, TRUE)
    ELSE IF ~Negative(m) THEN Part(m, TRUE, FALSE)
    ELSE IF Matches(m, NoValue) THEN Part(Inverse_(m), TRUE, TRUE)
    ELSE Part(Inverse_(m), FALSE, FALSE)

\* Those that need no list of the values: an equality, a set of literals.
IsDirect(part) == part.match /\ (part.m.type = "=" \/ (part.m.type = "=~" /\ part.m.literal
                                                         /\ part.m.values \ {NoValue} # {}))
DirectValues(part) == IF part.m.type = "=" THEN part.m.values ELSE part.m.values \ {NoValue}

ValuesFor(part, labelValues) ==
    IF IsDirect(part) THEN DirectValues(part)
    ELSE {v \in labelValues : Matches(part.m, v) = part.match}

\* The loop that subtracts.
Subtractions == [it : Postings, drops : Seq(Leaves)]
DropsLeft == [s \in Subtractions |-> s.drops # <<>>]
DropNext == [s \in Subtractions |-> [it |-> Without(s.it, Head(s.drops)), drops |-> Tail(s.drops)]]

\* The postings of a matcher, from the lists of its values.
Found(ls) == Merge([k \in DOMAIN ls |-> IF ls[k] = <<>> THEN EmptyPostings ELSE ListPostings(ls[k])])

\* The end of PostingsForMatchers and ExpandPostings, from the lists found for
\* each matcher and from the list of all ids.
Evaluate(its, notIts, all) ==
    LET base == IF its = <<>> /\ notIts # <<>> THEN <<Found(<<all>>)>>
                ELSE [k \in DOMAIN its |-> Found(its[k])]
        drops == [k \in DOMAIN notIts |-> Found(notIts[k])]
    IN Expand(While(Subtractions, DropsLeft, DropNext)[[it |-> Intersect(base), drops |-> drops]].it)
=============================================================================
