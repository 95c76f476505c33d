---------------------------- MODULE IndexProofs ----------------------------
(***************************************************************************)
(* The iterators of the inverted index give the ids they should            *)
(* (pkg/inverted/index/postings.go): a union those that are in any of its  *)
(* lists, an intersection those that all its inputs have, a difference     *)
(* those of the one that the other has not, each id above the last; so a   *)
(* query gets the ids it asks for (EvaluateIs), for any number of lists of *)
(* any length.                                                             *)
(*                                                                         *)
(* Of each kind of iterator it is said when it is in order (...Fits),      *)
(* which ids it has still to give (...Rest, with the current one ...Here)  *)
(* and a finite set that gets smaller with each Next (...Left), which is   *)
(* what makes the loops of the code end.  Next and Seek of a kind are      *)
(* right by those of the kinds below, and each loop by LoopRule.           *)
(***************************************************************************)
EXTENDS InvertedIndex, FiniteSetTheorems, SequenceTheorems, WellFoundedInduction, TLAPS

-----------------------------------------------------------------------------
(* Loops.                                                                  *)

\* The loop goes on in s.
LoopGoes(S, Go, Step, s) == Go[s] /\ Step[s] \in S

\* g is a run of the loop of n steps.
LoopRun(S, Go, Step, n, g) ==
    /\ g \in [0 .. n -> S] /\ ~LoopGoes(S, Go, Step, g[n])
    /\ \A i \in 0 .. (n - 1) : LoopGoes(S, Go, Step, g[i]) /\ g[i + 1] = Step[g[i]]

LoopEnds(S, Go, Step, s) ==
    {e \in S : \E n \in Nat : \E g \in [0 .. n -> S] : LoopRun(S, Go, Step, n, g) /\ g[0] = s /\ g[n] = e}

LEMMA EndsOfNoStep ==
    ASSUME NEW S, NEW Go, NEW Step, NEW s \in S, ~LoopGoes(S, Go, Step, s)
    PROVE  LoopEnds(S, Go, Step, s) = {s}
  <1>1. s \in LoopEnds(S, Go, Step, s)
    <2> DEFINE g == [i \in 0 .. 0 |-> s]
    <2>1. g \in [0 .. 0 -> S] /\ g[0] = s
      OBVIOUS
    <2> HIDE DEF g
    <2>2. LoopRun(S, Go, Step, 0, g)
      BY <2>1 DEF LoopRun
    <2> QED
      BY <2>1, <2>2 DEF LoopEnds
  <1>2. ASSUME NEW e \in LoopEnds(S, Go, Step, s) PROVE e = s
    <2>a. PICK n \in Nat : \E g \in [0 .. n -> S] : LoopRun(S, Go, Step, n, g) /\ g[0] = s /\ g[n] = e
      BY DEF LoopEnds
    <2>1. PICK g \in [0 .. n -> S] : LoopRun(S, Go, Step, n, g) /\ g[0] = s /\ g[n] = e
      BY <2>a
    <2>2. n = 0
      BY <2>1 DEF LoopRun
    <2> QED
      BY <2>1, <2>2
  <1> QED
    BY <1>1, <1>2

LEMMA EndsOfStep ==
    ASSUME NEW S, NEW Go, NEW Step, NEW s \in S, LoopGoes(S, Go, Step, s)
    PROVE  LoopEnds(S, Go, Step, s) = LoopEnds(S, Go, Step, Step[s])
  <1>0. Step[s] \in S
    BY DEF LoopGoes
  <1>1. ASSUME NEW e \in LoopEnds(S, Go, Step, s) PROVE e \in LoopEnds(S, Go, Step, Step[s])
    <2>a. PICK n \in Nat : \E g \in [0 .. n -> S] : LoopRun(S, Go, Step, n, g) /\ g[0] = s /\ g[n] = e
      BY DEF LoopEnds
    <2>1. PICK g \in [0 .. n -> S] : LoopRun(S, Go, Step, n, g) /\ g[0] = s /\ g[n] = e
      BY <2>a
    <2>2. n # 0
      BY <2>1 DEF LoopRun
    <2> DEFINE h == [i \in 0 .. (n - 1) |-> g[i + 1]]
    <2>3. n - 1 \in Nat /\ h \in [0 .. (n - 1) -> S] /\ h[0] = Step[s] /\ h[n - 1] = e
      BY <2>1, <2>2 DEF LoopRun
    <2>4. LoopRun(S, Go, Step, n - 1, h)
      <3>1. ~LoopGoes(S, Go, Step, h[n - 1])
        BY <2>1, <2>3 DEF LoopRun
      <3>2. ASSUME NEW i \in 0 .. ((n - 1) - 1)
            PROVE  LoopGoes(S, Go, Step, h[i]) /\ h[i + 1] = Step[h[i]]
        <4>1. i + 1 \in 0 .. (n - 1) /\ h[i] = g[i + 1] /\ h[i + 1] = g[(i + 1) + 1]
          BY <2>2
        <4> QED
          BY <2>1, <4>1 DEF LoopRun
      <3> HIDE DEF h
      <3> QED
        BY <2>3, <3>1, <3>2 DEF LoopRun
    <2> HIDE DEF h
    <2> QED
      BY <2>1, <2>3, <2>4 DEF LoopEnds
  <1>2. ASSUME NEW e \in LoopEnds(S, Go, Step, Step[s]) PROVE e \in LoopEnds(S, Go, Step, s)
    <2>a. PICK n \in Nat : \E g \in [0 .. n -> S] : LoopRun(S, Go, Step, n, g) /\ g[0] = Step[s] /\ g[n] = e
      BY DEF LoopEnds
    <2>1. PICK g \in [0 .. n -> S] : LoopRun(S, Go, Step, n, g) /\ g[0] = Step[s] /\ g[n] = e
      BY <2>a
    <2> DEFINE h == [i \in 0 .. (n + 1) |-> IF i = 0 THEN s ELSE g[i - 1]]
    <2>2. n + 1 \in Nat /\ h \in [0 .. (n + 1) -> S] /\ h[0] = s /\ h[n + 1] = e
      BY <2>1
    <2>3. LoopRun(S, Go, Step, n + 1, h)
      <3>1. ~LoopGoes(S, Go, Step, h[n + 1])
        BY <2>1, <2>2 DEF LoopRun
      <3>2. ASSUME NEW i \in 0 .. ((n + 1) - 1)
            PROVE  LoopGoes(S, Go, Step, h[i]) /\ h[i + 1] = Step[h[i]]
        <4>1. CASE i = 0
          BY <2>1, <4>1
        <4>2. CASE i # 0
          <5>1. i - 1 \in 0 .. (n - 1) /\ h[i] = g[i - 1] /\ h[i + 1] = g[(i - 1) + 1]
            BY <4>2
          <5> QED
            BY <2>1, <5>1 DEF LoopRun
        <4> QED
          BY <4>1, <4>2
      <3> HIDE DEF h
      <3> QED
        BY <2>2, <3>1, <3>2 DEF LoopRun
    <2> HIDE DEF h
    <2> QED
      BY <2>1, <2>2, <2>3 DEF LoopEnds
  <1> QED
    BY <1>1, <1>2

\* The function is there, so the equation that defines it holds: whatever S, Go and Step
\* are, and whether or not the loop ends.
LEMMA WhileIs ==
    ASSUME NEW S, NEW Go, NEW Step, NEW s \in S
    PROVE  While(S, Go, Step)[s] =
               IF Go[s] /\ Step[s] \in S THEN While(S, Go, Step)[Step[s]] ELSE s
  <1> DEFINE f == [t \in S |-> CHOOSE e : e \in LoopEnds(S, Go, Step, t)]
             Body(h) == [t \in S |-> LET next == Step[t] IN IF Go[t] /\ next \in S THEN h[next] ELSE t]
  <1>1. ASSUME NEW t \in S
        PROVE  f[t] = IF Go[t] /\ Step[t] \in S THEN f[Step[t]] ELSE t
    <2>1. CASE LoopGoes(S, Go, Step, t)
      BY <2>1, EndsOfStep DEF LoopGoes
    <2>2. CASE ~LoopGoes(S, Go, Step, t)
      <3>1. LoopEnds(S, Go, Step, t) = {t}
        BY <2>2, EndsOfNoStep
      <3> QED
        BY <2>2, <3>1 DEF LoopGoes
    <2> QED
      BY <2>1, <2>2
  <1>2. f = Body(f)
    <2>1. f = [t \in S |-> f[t]]
      OBVIOUS
    <2> HIDE DEF f
    <2> QED
      BY <1>1, <2>1
  <1>3. While(S, Go, Step) = CHOOSE h : h = Body(h)
    BY DEF While
  <1> HIDE DEF f
  <1>4. (CHOOSE h : h = Body(h)) = Body(CHOOSE h : h = Body(h))
    <2> HIDE DEF Body
    <2> QED
      BY <1>2
  <1>5. While(S, Go, Step) = Body(While(S, Go, Step))
    BY <1>3, <1>4
  <1> DEFINE w == While(S, Go, Step)
  <1> HIDE DEF w
  <1>6. w = Body(w)
    BY <1>5 DEF w
  <1>7. w[s] = IF Go[s] /\ Step[s] \in S THEN w[Step[s]] ELSE s
    BY <1>6
  <1> QED
    BY <1>7 DEF w

\* The rule for loops: an invariant of the loop that has a variant (here a finite set
\* that loses elements) holds where it ends, and the loop's condition does not.
LEMMA LoopRule ==
    ASSUME NEW S, NEW Go, NEW Step, NEW Inv \in SUBSET S, NEW m,
           \A s \in Inv : IsFiniteSet(m[s]),
           \A s \in Inv : Go[s] => /\ Step[s] \in Inv
                                   /\ m[Step[s]] \subseteq m[s] /\ m[Step[s]] # m[s],
           NEW s0 \in Inv
    PROVE  While(S, Go, Step)[s0] \in Inv /\ ~Go[While(S, Go, Step)[s0]]
  <1> DEFINE w == While(S, Go, Step)
             Good(s) == w[s] \in Inv /\ ~Go[w[s]]
             Bad == {c \in Nat : \E s \in Inv : Cardinality(m[s]) = c /\ ~Good(s)}
  <1>1. SUFFICES ASSUME ~Good(s0) PROVE FALSE
    OBVIOUS
  <1>2. \A s \in Inv : Cardinality(m[s]) \in Nat
    BY FS_CardinalityType
  <1>3. Bad # {} /\ Bad \subseteq Nat
    BY <1>1, <1>2
  <1>4. PICK c \in Bad : \A d \in Bad : ~(<<d, c>> \in OpToRel(<, Nat))
    BY <1>3, NatLessThanWellFounded, WFMin
  <1>5. \A d \in Bad : ~(d < c)
    BY <1>3, <1>4 DEF OpToRel
  <1>6. PICK s \in Inv : Cardinality(m[s]) = c /\ ~Good(s)
    OBVIOUS
  <1>7. w[s] = IF Go[s] /\ Step[s] \in S THEN w[Step[s]] ELSE s
    BY WhileIs
  <1>8. CASE ~Go[s]
    BY <1>6, <1>7, <1>8
  <1>9. CASE Go[s]
    <2>1. Step[s] \in Inv /\ m[Step[s]] \subseteq m[s] /\ m[Step[s]] # m[s]
      BY <1>9
    <2>2. w[s] = w[Step[s]]
      BY <1>7, <1>9, <2>1
    <2>3. ~Good(Step[s])
      BY <1>6, <2>2
    <2>4. Cardinality(m[Step[s]]) < Cardinality(m[s])
      <3>1. IsFiniteSet(m[s]) /\ IsFiniteSet(m[Step[s]])
        BY <2>1
      <3>2. Cardinality(m[s]) \in Nat /\ Cardinality(m[Step[s]]) \in Nat
        BY <3>1, FS_CardinalityType
      <3>3. /\ Cardinality(m[Step[s]]) <= Cardinality(m[s])
            /\ Cardinality(m[s]) = Cardinality(m[Step[s]]) => m[s] = m[Step[s]]
        BY <2>1, <3>1, FS_Subset
      <3> QED
        BY <2>1, <3>2, <3>3
    <2>5. Cardinality(m[Step[s]]) \in Bad
      BY <1>2, <2>1, <2>3
    <2> QED
      BY <1>5, <1>6, <2>4, <2>5
  <1> QED
    BY <1>8, <1>9

-----------------------------------------------------------------------------
(* Numbers.                                                                *)

\* A set of numbers that is not empty has a least one.
LEMMA LeastOf ==
    ASSUME NEW S \in SUBSET Nat, S # {}
    PROVE  \E m \in S : \A x \in S : m <= x
  <1>1. PICK t \in S : \A y \in S : ~(<<y, t>> \in OpToRel(<, Nat))
    BY NatLessThanWellFounded, WFMin
  <1>2. \A y \in S : ~(y < t)
    BY <1>1 DEF OpToRel
  <1> QED
    BY <1>2

\* One that has a bound has a greatest one.
LEMMA GreatestOf ==
    ASSUME NEW S \in SUBSET Nat, S # {}, NEW n \in Nat, \A x \in S : x <= n
    PROVE  \E m \in S : \A x \in S : x <= m
  <1> DEFINE T == {n - x : x \in S}
  <1>1. T \subseteq Nat /\ T # {}
    <2>1. \A x \in S : n - x \in Nat
      OBVIOUS
    <2>2. PICK x \in S : TRUE
      OBVIOUS
    <2> QED
      BY <2>1, <2>2
  <1>2. PICK t \in T : \A y \in T : t <= y
    BY <1>1, LeastOf
  <1>3. PICK m \in S : t = n - m
    OBVIOUS
  <1>4. ASSUME NEW x \in S PROVE x <= m
    <2>1. n - x \in T /\ n - x \in Nat /\ n - m \in Nat
      OBVIOUS
    <2>2. n - m <= n - x
      BY <1>2, <1>3, <2>1
    <2> QED
      BY <2>2
  <1> QED
    BY <1>4

LEMMA MinIs ==
    ASSUME NEW S \in SUBSET Nat, S # {}
    PROVE  Min(S) \in S /\ \A x \in S : Min(S) <= x
  BY LeastOf DEF Min

LEMMA MaxIs ==
    ASSUME NEW S \in SUBSET Nat, S # {}, NEW n \in Nat, \A x \in S : x <= n
    PROVE  Max(S) \in S /\ \A x \in S : x <= Max(S)
  <1>1. PICK m \in S : \A x \in S : x <= m
    BY GreatestOf
  <1> QED
    BY <1>1 DEF Max

-----------------------------------------------------------------------------
(* Lists.                                                                  *)

InOrder(l) == \A i, j \in DOMAIN l : i <= j => l[i] <= l[j]
IdsOfList(l) == {l[i] : i \in DOMAIN l}

\* What of a list is unread, and the ids there.
ListLeft(it) == (it.pos + 1) .. Len(it.list)
ListRest(it) == {it.list[i] : i \in ListLeft(it)}

\* An iterator of a list in order of ids up to n, which has read to its current value.
ListFits(it, n) ==
    /\ it \in Lists /\ InOrder(it.list) /\ it.pos <= Len(it.list)
    /\ \A i \in DOMAIN it.list : it.list[i] <= n
    /\ \A y \in ListRest(it) : it.cur <= y
    /\ it.cur <= n

\* The ids from the current one on.
ListHere(it) == {it.cur} \cup ListRest(it)

LEMMA ListType ==
    ASSUME NEW it \in Lists
    PROVE  /\ it.kind = "list" /\ it.list \in Seq(Nat) /\ it.pos \in Nat /\ it.cur \in Nat
           /\ Len(it.list) \in Nat /\ DOMAIN it.list = 1 .. Len(it.list)
           /\ \A i \in 1 .. Len(it.list) : it.list[i] \in Nat
  <1>1. it.list \in Seq(Nat)
    BY DEF Lists
  <1> QED
    BY <1>1, LenProperties, ElementOfSeq DEF Lists

LEMMA ListOrder ==
    ASSUME NEW n \in Nat, NEW it, ListFits(it, n)
    PROVE  \A i, j \in 1 .. Len(it.list) : i <= j => it.list[i] <= it.list[j]
  <1>1. it \in Lists
    BY DEF ListFits
  <1>2. DOMAIN it.list = 1 .. Len(it.list)
    BY <1>1, ListType
  <1> QED
    BY <1>2 DEF ListFits, InOrder

LEMMA ListNextFacts ==
    ASSUME NEW n \in Nat, NEW it, ListFits(it, n)
    PROVE  LET r == ListNext(it)
           IN  /\ r.it \in Lists /\ r.it.cur <= n /\ r.ok \in BOOLEAN
               /\ r.ok => /\ ListFits(r.it, n) /\ ListHere(r.it) = ListRest(it)
                          /\ r.it.list = it.list /\ r.it.pos = it.pos + 1
                          /\ ListLeft(it) = ListLeft(r.it) \cup {r.it.pos}
                          /\ r.it.pos \notin ListLeft(r.it)
               /\ ~r.ok => ListRest(it) = {}
  <1> DEFINE r == ListNext(it)
             new == [it EXCEPT !.cur = it.list[it.pos + 1], !.pos = it.pos + 1]
  <1>0. it \in Lists
    BY DEF ListFits
  <1>1. it.kind = "list" /\ it.list \in Seq(Nat) /\ it.pos \in Nat /\ it.cur \in Nat
        /\ Len(it.list) \in Nat /\ DOMAIN it.list = 1 .. Len(it.list)
        /\ \A i \in 1 .. Len(it.list) : it.list[i] \in Nat
    BY <1>0, ListType
  <1>2. CASE it.pos < Len(it.list)
    <2>1. r = [it |-> new, ok |-> TRUE]
      BY <1>2 DEF ListNext, Yes
    <2>2. it.pos + 1 \in 1 .. Len(it.list)
      BY <1>1, <1>2
    <2>3. new \in Lists /\ new.list = it.list /\ new.pos = it.pos + 1 /\ new.cur = it.list[it.pos + 1]
      <3> DEFINE v == it.list[it.pos + 1]
                 p == it.pos + 1
      <3>1. v \in Nat /\ p \in Nat
        BY <1>1, <2>2
      <3> HIDE DEF v, p
      <3>2. LET moved == [it EXCEPT !.cur = v, !.pos = p]
            IN  moved \in Lists /\ moved.list = it.list /\ moved.pos = p /\ moved.cur = v
        BY <1>0, <3>1 DEF Lists
      <3> QED
        BY <3>2 DEF v, p
    <2> HIDE DEF new
    <2>5. ListLeft(it) = ListLeft(new) \cup {it.pos + 1} /\ it.pos + 1 \notin ListLeft(new)
      BY <1>1, <1>2, <2>3 DEF ListLeft
    <2>6. ListRest(it) = {it.list[it.pos + 1]} \cup ListRest(new)
      BY <2>3, <2>5 DEF ListRest
    <2>7. \A y \in ListRest(new) : it.list[it.pos + 1] <= y
      <3>1. ASSUME NEW i \in ListLeft(new) PROVE it.list[it.pos + 1] <= it.list[i]
        <4>1. i \in 1 .. Len(it.list) /\ it.pos + 1 <= i
          BY <1>1, <2>3 DEF ListLeft
        <4> QED
          BY <2>2, <4>1, ListOrder
      <3> QED
        BY <2>3, <3>1 DEF ListRest
    <2>8. ListFits(new, n)
      <3>1. new.cur <= n
        BY <1>1, <2>2, <2>3 DEF ListFits
      <3>2. InOrder(new.list) /\ \A i \in DOMAIN new.list : new.list[i] <= n
        BY <2>3 DEF ListFits
      <3> QED
        BY <1>1, <2>2, <2>3, <2>7, <3>1, <3>2 DEF ListFits
    <2> QED
      BY <2>1, <2>3, <2>5, <2>6, <2>8 DEF ListHere, ListFits
  <1>3. CASE ~(it.pos < Len(it.list))
    <2>1. r = [it |-> [it EXCEPT !.cur = 0], ok |-> FALSE]
      BY <1>3 DEF ListNext, No
    <2>2. [it EXCEPT !.cur = 0] \in Lists /\ [it EXCEPT !.cur = 0].cur = 0
      BY <1>0 DEF Lists
    <2>3. ListLeft(it) = {}
      BY <1>1, <1>3 DEF ListLeft
    <2>4. r.it = [it EXCEPT !.cur = 0] /\ r.ok = FALSE /\ 0 <= n
      BY <2>1
    <2> HIDE DEF r
    <2> QED
      BY <2>2, <2>3, <2>4 DEF ListRest, r
  <1> QED
    BY <1>1, <1>2, <1>3

LEMMA ListSeekFacts ==
    ASSUME NEW n \in Nat, NEW it, ListFits(it, n), NEW x \in Nat
    PROVE  LET r == ListSeek(it, x)
           IN  /\ r.it \in Lists /\ r.ok \in BOOLEAN
               /\ r.ok => /\ ListFits(r.it, n) /\ ListHere(r.it) = {y \in ListHere(it) : x <= y}
                          /\ x <= r.it.cur
                          /\ ListLeft(r.it) \subseteq ListLeft(it)
                          /\ it.cur < x => ListLeft(r.it) # ListLeft(it)
               /\ ~r.ok => {y \in ListHere(it) : x <= y} = {}
  <1> DEFINE r == ListSeek(it, x)
             far == {i \in (it.pos + 1) .. Len(it.list) : it.list[i] >= x}
             k == Min(far)
             new == [it EXCEPT !.cur = it.list[k], !.pos = k]
  <1>0. it \in Lists
    BY DEF ListFits
  <1>1. it.kind = "list" /\ it.list \in Seq(Nat) /\ it.pos \in Nat /\ it.cur \in Nat
        /\ Len(it.list) \in Nat /\ DOMAIN it.list = 1 .. Len(it.list)
        /\ \A i \in 1 .. Len(it.list) : it.list[i] \in Nat
    BY <1>0, ListType
  <1>2. CASE it.cur >= x
    <2>1. r = [it |-> it, ok |-> TRUE]
      BY <1>2 DEF ListSeek, Yes
    <2>2. \A y \in ListRest(it) : y \in Nat /\ it.cur <= y
      BY <1>1 DEF ListFits, ListRest, ListLeft
    <2>3. ListHere(it) = {y \in ListHere(it) : x <= y}
      BY <1>1, <1>2, <2>2 DEF ListHere
    <2> QED
      BY <1>0, <1>1, <1>2, <2>1, <2>3
  <1>3. CASE ~(it.cur >= x) /\ far = {}
    <2>1. r = [it |-> [it EXCEPT !.pos = Len(it.list)], ok |-> FALSE]
      BY <1>3 DEF ListSeek, No
    <2>2. [it EXCEPT !.pos = Len(it.list)] \in Lists
      BY <1>0, <1>1 DEF Lists
    <2>3. \A i \in ListLeft(it) : ~(it.list[i] >= x) /\ it.list[i] \in Nat
      BY <1>1, <1>3 DEF ListLeft
    <2>4. \A y \in ListHere(it) : ~(x <= y)
      BY <1>1, <1>3, <2>3 DEF ListHere, ListRest
    <2> QED
      BY <2>1, <2>2, <2>4
  <1>4. CASE ~(it.cur >= x) /\ far # {}
    <2>1. r = [it |-> new, ok |-> TRUE]
      BY <1>4 DEF ListSeek, Yes
    <2>2. far \subseteq Nat /\ k \in far /\ \A i \in far : k <= i
      <3>1. far \in SUBSET Nat
        BY <1>1
      <3> HIDE DEF far
      <3> QED
        BY <1>4, <3>1, MinIs
    <2>3. k \in (it.pos + 1) .. Len(it.list) /\ it.list[k] >= x /\ k \in 1 .. Len(it.list)
      BY <1>1, <2>2
    <2>4. \A i \in (it.pos + 1) .. Len(it.list) : i < k => ~(it.list[i] >= x)
      <3>1. ASSUME NEW i \in (it.pos + 1) .. Len(it.list), it.list[i] >= x PROVE ~(i < k)
        <4>1. i \in far
          BY <3>1
        <4> HIDE DEF far, k
        <4> QED
          BY <2>2, <4>1
      <3> QED
        BY <3>1
    <2> HIDE DEF k, far
    <2>5. new \in Lists /\ new.list = it.list /\ new.pos = k /\ new.cur = it.list[k]
      <3> DEFINE v == it.list[k]
                 p == k
      <3>1. v \in Nat /\ p \in Nat
        BY <1>1, <2>3
      <3> HIDE DEF v, p
      <3>2. LET moved == [it EXCEPT !.cur = v, !.pos = p]
            IN  moved \in Lists /\ moved.list = it.list /\ moved.pos = p /\ moved.cur = v
        BY <1>0, <3>1 DEF Lists
      <3> QED
        BY <3>2 DEF v, p
    <2> HIDE DEF new
    <2>7. ListLeft(new) \subseteq ListLeft(it) /\ ListLeft(new) # ListLeft(it)
      BY <1>1, <2>3, <2>5 DEF ListLeft
    <2>8. \A i \in ListLeft(new) : it.list[k] <= it.list[i] /\ it.list[i] \in Nat
      <3>1. ASSUME NEW i \in ListLeft(new) PROVE i \in 1 .. Len(it.list) /\ k <= i
        BY <1>1, <2>3, <2>5 DEF ListLeft
      <3> QED
        BY <1>1, <2>3, <3>1, ListOrder
    <2>9. ListFits(new, n)
      <3>1. new.cur <= n /\ new.pos <= Len(new.list)
        BY <1>1, <2>3, <2>5 DEF ListFits
      <3>2. InOrder(new.list) /\ \A i \in DOMAIN new.list : new.list[i] <= n
        BY <2>5 DEF ListFits
      <3>3. \A y \in ListRest(new) : new.cur <= y
        BY <2>5, <2>8 DEF ListRest
      <3> QED
        BY <2>5, <3>1, <3>2, <3>3 DEF ListFits
    <2>10. ASSUME NEW y PROVE y \in ListHere(new) <=> y \in ListHere(it) /\ x <= y
      <3>1. ASSUME y \in ListHere(new) PROVE y \in ListHere(it) /\ x <= y
        <4>1. CASE y = it.list[k]
          BY <1>1, <2>3, <4>1 DEF ListHere, ListRest, ListLeft
        <4>2. CASE y \in ListRest(new)
          <5>1. PICK i \in ListLeft(new) : y = it.list[i]
            BY <2>5, <4>2 DEF ListRest
          <5>2. x <= y
            BY <1>1, <2>3, <2>8, <5>1
          <5> QED
            BY <2>7, <5>1, <5>2 DEF ListHere, ListRest
        <4> QED
          BY <2>5, <3>1, <4>1, <4>2 DEF ListHere
      <3>2. ASSUME y \in ListHere(it), x <= y PROVE y \in ListHere(new)
        <4>1. PICK i \in ListLeft(it) : y = it.list[i]
          BY <1>1, <1>4, <3>2 DEF ListHere, ListRest
        <4>2. i \in Nat /\ it.list[i] \in Nat /\ ~(i < k)
          BY <1>1, <2>4, <3>2, <4>1 DEF ListLeft
        <4>3. i = k \/ i \in ListLeft(new)
          BY <1>1, <2>3, <2>5, <4>1, <4>2 DEF ListLeft
        <4> QED
          BY <2>5, <4>1, <4>3 DEF ListHere, ListRest
      <3> QED
        BY <3>1, <3>2
    <2>11. ListHere(new) = {y \in ListHere(it) : x <= y}
      BY <2>10
    <2> QED
      BY <2>1, <2>3, <2>5, <2>7, <2>9, <2>11
  <1> QED
    BY <1>2, <1>3, <1>4

-----------------------------------------------------------------------------
(* The heap of a union.                                                    *)

HeapSubs == Seq(Lists \cup {EmptyPostings})

LEMMA HeapChanged ==
    ASSUME NEW T, NEW it \in [kind : {"merged"}, subs : T, started : BOOLEAN, cur : Nat],
           NEW k, NEW v, [it.subs EXCEPT ![k] = v] \in T
    PROVE  LET new == [it EXCEPT !.subs[k] = v]
           IN  /\ new \in [kind : {"merged"}, subs : T, started : BOOLEAN, cur : Nat]
               /\ new.subs = [it.subs EXCEPT ![k] = v]
               /\ new.started = it.started /\ new.cur = it.cur
  OBVIOUS

LEMMA HeapRaised ==
    ASSUME NEW it \in MergedIts, NEW v \in Nat
    PROVE  LET new == [it EXCEPT !.cur = v]
           IN  new \in MergedIts /\ new.subs = it.subs /\ new.started = it.started /\ new.cur = v
  BY DEF MergedIts

LEMMA HeapBegun ==
    ASSUME NEW it \in MergedIts, NEW v \in Nat
    PROVE  LET new == [it EXCEPT !.started = TRUE, !.cur = v]
           IN  new \in MergedIts /\ new.subs = it.subs /\ new.started /\ new.cur = v
  BY DEF MergedIts

LEMMA HeapType ==
    ASSUME NEW it \in MergedIts
    PROVE  /\ it.kind = "merged" /\ it.subs \in HeapSubs /\ it.started \in BOOLEAN /\ it.cur \in Nat
           /\ Len(it.subs) \in Nat /\ DOMAIN it.subs = 1 .. Len(it.subs)
           /\ \A k \in DOMAIN it.subs : it.subs[k] \in Lists \cup {EmptyPostings}
           /\ InHeap(it) \subseteq DOMAIN it.subs
           /\ \A k \in InHeap(it) : it.subs[k] \in Lists /\ it.subs[k].cur \in Nat
  <1>1. it.kind = "merged" /\ it.subs \in HeapSubs /\ it.started \in BOOLEAN /\ it.cur \in Nat
    BY DEF MergedIts, HeapSubs
  <1>2. /\ Len(it.subs) \in Nat /\ DOMAIN it.subs = 1 .. Len(it.subs)
        /\ \A k \in DOMAIN it.subs : it.subs[k] \in Lists \cup {EmptyPostings}
    BY <1>1, LenProperties, ElementOfSeq DEF HeapSubs
  <1>3. EmptyPostings.kind # "list"
    BY DEF EmptyPostings
  <1>4. \A k \in InHeap(it) : k \in DOMAIN it.subs /\ it.subs[k] \in Lists
    BY <1>2, <1>3 DEF InHeap
  <1> QED
    BY <1>1, <1>2, <1>4, ListType

LEMMA TopIs ==
    ASSUME NEW it \in MergedIts, InHeap(it) # {}
    PROVE  /\ Top(it) \in InHeap(it) /\ TopAt(it) \in Nat
           /\ \A k \in InHeap(it) : TopAt(it) <= it.subs[k].cur
  <1> DEFINE S == {it.subs[k].cur : k \in InHeap(it)}
  <1>1. S \in SUBSET Nat /\ S # {}
    BY HeapType
  <1>2. PICK m \in S : \A x \in S : m <= x
    BY <1>1, LeastOf
  <1>3. PICK k \in InHeap(it) : m = it.subs[k].cur
    OBVIOUS
  <1>4. \A j \in InHeap(it) : it.subs[k].cur <= it.subs[j].cur
    BY <1>2, <1>3
  <1>5. Top(it) \in InHeap(it) /\ \A j \in InHeap(it) : it.subs[Top(it)].cur <= it.subs[j].cur
    BY <1>3, <1>4 DEF Top
  <1> QED
    BY <1>5, HeapType DEF TopAt

\* The ids in the heap, and the places in its lists that are still to be read.
HeapHere(it) == UNION {ListHere(it.subs[k]) : k \in InHeap(it)}
HeapFits(it, n) == it \in MergedIts /\ it.cur <= n /\ \A k \in InHeap(it) : ListFits(it.subs[k], n)
CellsOf(it, k) == {k} \X ({0} \cup ListLeft(it.subs[k]))
HeapLeft(it) == UNION {CellsOf(it, k) : k \in InHeap(it)}

LEMMA HeapLeftIsFinite ==
    ASSUME NEW it \in MergedIts
    PROVE  IsFiniteSet(HeapLeft(it))
  <1>1. IsFiniteSet(InHeap(it))
    <2>1. InHeap(it) \in SUBSET (1 .. Len(it.subs)) /\ Len(it.subs) \in Int /\ 1 \in Int
      BY HeapType
    <2>2. IsFiniteSet(1 .. Len(it.subs))
      BY <2>1, FS_Interval
    <2> QED
      BY <2>1, <2>2, FS_Subset
  <1>2. ASSUME NEW k \in InHeap(it) PROVE IsFiniteSet(CellsOf(it, k))
    <2>1. it.subs[k].pos + 1 \in Int /\ Len(it.subs[k].list) \in Int
      BY HeapType, ListType
    <2>2. IsFiniteSet(ListLeft(it.subs[k]))
      BY <2>1, FS_Interval DEF ListLeft
    <2>3. IsFiniteSet({0}) /\ IsFiniteSet({k})
      BY FS_Singleton
    <2>4. IsFiniteSet({0} \cup ListLeft(it.subs[k]))
      BY <2>2, <2>3, FS_Union
    <2> QED
      BY <2>3, <2>4, FS_Product DEF CellsOf
  <1> DEFINE T == {CellsOf(it, k) : k \in InHeap(it)}
             f == [k \in InHeap(it) |-> CellsOf(it, k)]
  <1>3. f \in Surjection(InHeap(it), T)
    BY DEF Surjection
  <1>4. IsFiniteSet(T)
    BY <1>1, <1>3, FS_Surjection
  <1>5. IsFiniteSet(UNION T)
    BY <1>2, <1>4, FS_UNION
  <1> QED
    BY <1>5 DEF HeapLeft

\* What the heap is when its top has been moved: with `r` the answer of the call.
LEMMA AfterTopFacts ==
    ASSUME NEW n \in Nat, NEW it, HeapFits(it, n), InHeap(it) # {},
           NEW r, r.ok \in BOOLEAN, r.it \in Lists, r.ok => ListFits(r.it, n)
    PROVE  LET new == AfterTop(it, r)
               t == Top(it)
           IN  /\ HeapFits(new, n) /\ new.cur = it.cur /\ new.started = it.started
               /\ t \in InHeap(it)
               /\ InHeap(new) = IF r.ok THEN InHeap(it) ELSE InHeap(it) \ {t}
               /\ \A k \in InHeap(new) : new.subs[k] = IF k = t THEN r.it ELSE it.subs[k]
  <1> DEFINE new == AfterTop(it, r)
             t == Top(it)
             v == IF r.ok THEN r.it ELSE EmptyPostings
  <1>1. it \in MergedIts
    BY DEF HeapFits
  <1>2. t \in InHeap(it) /\ t \in DOMAIN it.subs /\ it.subs \in HeapSubs
    BY <1>1, TopIs, HeapType
  <1> HIDE DEF t
  <1>3. v \in Lists \cup {EmptyPostings}
    OBVIOUS
  <1>4. t \in 1 .. Len(it.subs)
    BY <1>1, <1>2, HeapType
  <1>5. [it.subs EXCEPT ![t] = v] \in HeapSubs
    BY <1>2, <1>3, <1>4, ExceptSeq DEF HeapSubs
  <1>6. new = [it EXCEPT !.subs[t] = v]
    BY DEF AfterTop, t
  <1> HIDE DEF v
  <1>7. MergedIts = [kind : {"merged"}, subs : HeapSubs, started : BOOLEAN, cur : Nat]
    BY DEF MergedIts, HeapSubs
  <1>8. new \in MergedIts /\ new.subs = [it.subs EXCEPT ![t] = v]
        /\ new.started = it.started /\ new.cur = it.cur
    BY <1>1, <1>5, <1>6, <1>7, HeapChanged
  <1> HIDE DEF new
  <1>9. DOMAIN new.subs = DOMAIN it.subs
        /\ \A k \in DOMAIN it.subs : new.subs[k] = IF k = t THEN v ELSE it.subs[k]
    BY <1>2, <1>8
  <1>10. r.it.kind = "list" /\ EmptyPostings.kind # "list"
    BY ListType DEF EmptyPostings
  <1>11. InHeap(new) = IF r.ok THEN InHeap(it) ELSE InHeap(it) \ {t}
    BY <1>2, <1>9, <1>10 DEF InHeap, v
  <1>12. \A k \in InHeap(new) : new.subs[k] = IF k = t THEN r.it ELSE it.subs[k]
    BY <1>2, <1>9, <1>10 DEF InHeap, v
  <1>13. \A k \in InHeap(new) : ListFits(new.subs[k], n)
    BY <1>11, <1>12 DEF HeapFits
  <1>14. HeapFits(new, n)
    BY <1>8, <1>13 DEF HeapFits
  <1> QED
    BY <1>2, <1>8, <1>11, <1>12, <1>14 DEF new, t

\* Next of the top, which is at `cur`: only `cur` may leave the heap.
LEMMA NextOfTopFacts ==
    ASSUME NEW n \in Nat, NEW it, HeapFits(it, n), InHeap(it) # {}, TopAt(it) = it.cur
    PROVE  LET new == NextOfTop[it]
           IN  /\ HeapFits(new, n) /\ new.cur = it.cur /\ new.started = it.started
               /\ {y \in HeapHere(new) : new.cur < y} = {y \in HeapHere(it) : it.cur < y}
               /\ \A k \in InHeap(new) : it.cur <= new.subs[k].cur
               /\ HeapLeft(new) \subseteq HeapLeft(it) /\ HeapLeft(new) # HeapLeft(it)
  <1> DEFINE new == NextOfTop[it]
             t == Top(it)
             r == ListNext(it.subs[t])
  <1>1. it \in MergedIts /\ it.cur \in Nat
    BY HeapType DEF HeapFits
  <1>2. t \in InHeap(it) /\ it.subs[t].cur = it.cur
        /\ \A k \in InHeap(it) : it.cur <= it.subs[k].cur
    BY <1>1, TopIs DEF TopAt
  <1>3. ListFits(it.subs[t], n)
    BY <1>2 DEF HeapFits
  <1>4. /\ r.it \in Lists /\ r.ok \in BOOLEAN
        /\ r.ok => /\ ListFits(r.it, n) /\ ListHere(r.it) = ListRest(it.subs[t])
                   /\ ListLeft(it.subs[t]) = ListLeft(r.it) \cup {r.it.pos}
                   /\ r.it.pos \notin ListLeft(r.it)
        /\ ~r.ok => ListRest(it.subs[t]) = {}
    BY <1>3, ListNextFacts
  <1>5. new = AfterTop(it, r)
    BY <1>1 DEF NextOfTop
  <1> HIDE DEF new, r
  <1>6. /\ HeapFits(new, n) /\ new.cur = it.cur /\ new.started = it.started
        /\ InHeap(new) = IF r.ok THEN InHeap(it) ELSE InHeap(it) \ {t}
        /\ \A k \in InHeap(new) : new.subs[k] = IF k = t THEN r.it ELSE it.subs[k]
    BY <1>4, <1>5, AfterTopFacts
  <1> HIDE DEF t
  <1>7. ASSUME NEW y, it.cur < y PROVE y \in HeapHere(new) <=> y \in HeapHere(it)
    <2>1. ASSUME NEW k \in InHeap(new), y \in ListHere(new.subs[k])
          PROVE  k \in InHeap(it) /\ y \in ListHere(it.subs[k])
      <3>1. CASE k = t
        BY <1>4, <1>6, <2>1, <3>1 DEF ListHere
      <3>2. CASE k # t
        BY <1>6, <2>1, <3>2
      <3> QED
        BY <3>1, <3>2
    <2>2. ASSUME NEW k \in InHeap(it), y \in ListHere(it.subs[k])
          PROVE  k \in InHeap(new) /\ y \in ListHere(new.subs[k])
      <3>1. CASE k = t
        <4>1. y # it.cur
          BY <1>1, <1>7
        <4>2. y \in ListRest(it.subs[t])
          BY <1>2, <2>2, <3>1, <4>1 DEF ListHere
        <4> QED
          BY <1>4, <1>6, <3>1, <4>2
      <3>2. CASE k # t
        BY <1>6, <2>2, <3>2
      <3> QED
        BY <3>1, <3>2
    <2> QED
      BY <2>1, <2>2 DEF HeapHere
  <1>8. \A k \in InHeap(new) : it.cur <= new.subs[k].cur
    <2>1. ASSUME r.ok PROVE it.cur <= r.it.cur
      <3>1. r.it.cur \in ListRest(it.subs[t])
        BY <1>4, <2>1 DEF ListHere
      <3> QED
        BY <1>2, <1>3, <3>1 DEF ListFits
    <2> QED
      BY <1>2, <1>6, <2>1
  <1>9. HeapLeft(new) \subseteq HeapLeft(it)
    <2>1. ASSUME NEW k \in InHeap(new)
          PROVE  k \in InHeap(it) /\ CellsOf(new, k) \subseteq CellsOf(it, k)
      BY <1>4, <1>6 DEF CellsOf
    <2> QED
      BY <2>1 DEF HeapLeft
  <1>10. HeapLeft(new) # HeapLeft(it)
    <2>1. CASE r.ok
      <3>1. <<t, r.it.pos>> \in HeapLeft(it)
        BY <1>2, <1>4, <2>1 DEF HeapLeft, CellsOf
      <3>2. <<t, r.it.pos>> \notin HeapLeft(new)
        <4>1. SUFFICES ASSUME NEW k \in InHeap(new), <<t, r.it.pos>> \in CellsOf(new, k) PROVE FALSE
          BY DEF HeapLeft
        <4>2. k = t /\ r.it.pos \in {0} \cup ListLeft(r.it)
          BY <1>6, <4>1 DEF CellsOf
        <4>3. r.it.pos # 0
          <5>1. it.subs[t].pos \in Nat
            BY <1>1, <1>2, HeapType, ListType
          <5>2. r.it.pos \in (it.subs[t].pos + 1) .. Len(it.subs[t].list)
            BY <1>4, <2>1 DEF ListLeft
          <5>3. Len(it.subs[t].list) \in Nat
            BY <1>1, <1>2, HeapType, ListType
          <5> QED
            BY <5>1, <5>2, <5>3
        <4> QED
          BY <1>4, <2>1, <4>2, <4>3
      <3> QED
        BY <3>1, <3>2
    <2>2. CASE ~r.ok
      <3>1. <<t, 0>> \in HeapLeft(it)
        BY <1>2 DEF HeapLeft, CellsOf
      <3>2. <<t, 0>> \notin HeapLeft(new)
        BY <1>6, <2>2 DEF HeapLeft, CellsOf
      <3> QED
        BY <3>1, <3>2
    <2> QED
      BY <1>4, <2>1, <2>2
  <1>11. {y \in HeapHere(new) : new.cur < y} = {y \in HeapHere(it) : it.cur < y}
    BY <1>6, <1>7
  <1> QED
    BY <1>6, <1>8, <1>9, <1>10, <1>11 DEF new

\* Seek of the top, which is below x: nothing else leaves the heap.
LEMMA SeekOfTopFacts ==
    ASSUME NEW n \in Nat, NEW it, HeapFits(it, n), InHeap(it) # {}, TopAt(it) = it.cur,
           NEW x \in Nat, it.cur < x
    PROVE  LET new == SeekOfTop(x)[it]
           IN  /\ HeapFits(new, n) /\ new.started = it.started
               /\ InHeap(new) # {} => TopAt(new) = new.cur
               /\ {y \in HeapHere(new) : x <= y} = {y \in HeapHere(it) : x <= y}
               /\ it.cur <= new.cur
               /\ HeapLeft(new) \subseteq HeapLeft(it) /\ HeapLeft(new) # HeapLeft(it)
  <1> DEFINE t == Top(it)
             r == ListSeek(it.subs[t], x)
             moved == AfterTop(it, r)
             new == SeekOfTop(x)[it]
  <1>1. it \in MergedIts /\ it.cur \in Nat
    BY HeapType DEF HeapFits
  <1>2. t \in InHeap(it) /\ it.subs[t].cur = it.cur
        /\ \A k \in InHeap(it) : it.cur <= it.subs[k].cur
    BY <1>1, TopIs DEF TopAt
  <1>3. ListFits(it.subs[t], n)
    BY <1>2 DEF HeapFits
  <1>4. /\ r.it \in Lists /\ r.ok \in BOOLEAN
        /\ r.ok => /\ ListFits(r.it, n)
                   /\ ListHere(r.it) = {y \in ListHere(it.subs[t]) : x <= y}
                   /\ x <= r.it.cur
                   /\ ListLeft(r.it) \subseteq ListLeft(it.subs[t])
                   /\ ListLeft(r.it) # ListLeft(it.subs[t])
        /\ ~r.ok => {y \in ListHere(it.subs[t]) : x <= y} = {}
    BY <1>2, <1>3, ListSeekFacts
  <1>5. new = IF InHeap(moved) = {} THEN moved ELSE [moved EXCEPT !.cur = TopAt(moved)]
    BY <1>1 DEF SeekOfTop
  <1> HIDE DEF r
  <1>6. /\ HeapFits(moved, n) /\ moved.cur = it.cur /\ moved.started = it.started
        /\ InHeap(moved) = IF r.ok THEN InHeap(it) ELSE InHeap(it) \ {t}
        /\ \A k \in InHeap(moved) : moved.subs[k] = IF k = t THEN r.it ELSE it.subs[k]
    BY <1>4, AfterTopFacts
  <1> HIDE DEF t, moved, new
  <1>7. moved \in MergedIts
    BY <1>6 DEF HeapFits
  <1>8. /\ new \in MergedIts /\ new.subs = moved.subs /\ new.started = it.started
        /\ new.cur = IF InHeap(moved) = {} THEN it.cur ELSE TopAt(moved)
    <2>1. CASE InHeap(moved) = {}
      BY <1>5, <1>6, <1>7, <2>1
    <2>2. CASE InHeap(moved) # {}
      <3>1. TopAt(moved) \in Nat
        BY <1>7, <2>2, TopIs
      <3> QED
        BY <1>5, <1>6, <1>7, <2>2, <3>1, HeapRaised
    <2> QED
      BY <2>1, <2>2
  <1>9. InHeap(new) = InHeap(moved) /\ TopAt(new) = TopAt(moved)
        /\ HeapHere(new) = HeapHere(moved) /\ HeapLeft(new) = HeapLeft(moved)
    BY <1>8 DEF InHeap, TopAt, Top, HeapHere, HeapLeft, CellsOf
  <1>10. it.cur <= new.cur /\ new.cur <= n
    <2>1. CASE InHeap(moved) = {}
      BY <1>1, <1>8, <2>1 DEF HeapFits
    <2>2. CASE InHeap(moved) # {}
      <3>1. Top(moved) \in InHeap(moved) /\ TopAt(moved) = moved.subs[Top(moved)].cur
        BY <1>7, <2>2, TopIs DEF TopAt
      <3>2. moved.subs[Top(moved)].cur <= n
        BY <1>6, <3>1 DEF HeapFits, ListFits
      <3>3. it.cur <= moved.subs[Top(moved)].cur
        <4>1. CASE Top(moved) = t
          <5>1. r.ok
            BY <1>4, <1>6, <3>1, <4>1
          <5>2. r.it.cur \in Nat /\ x <= r.it.cur /\ moved.subs[t] = r.it
            BY <1>4, <1>6, <3>1, <4>1, <5>1, ListType
          <5> QED
            BY <1>1, <4>1, <5>2
        <4>2. CASE Top(moved) # t
          BY <1>2, <1>6, <3>1, <4>2
        <4> QED
          BY <4>1, <4>2
      <3> QED
        BY <1>8, <2>2, <3>1, <3>2, <3>3
    <2> QED
      BY <2>1, <2>2
  <1>11. HeapFits(new, n)
    BY <1>6, <1>8, <1>9, <1>10 DEF HeapFits
  <1>12. ASSUME NEW y, x <= y PROVE y \in HeapHere(moved) <=> y \in HeapHere(it)
    <2>1. ASSUME NEW k \in InHeap(moved), y \in ListHere(moved.subs[k])
          PROVE  k \in InHeap(it) /\ y \in ListHere(it.subs[k])
      BY <1>4, <1>6, <2>1
    <2>2. ASSUME NEW k \in InHeap(it), y \in ListHere(it.subs[k])
          PROVE  k \in InHeap(moved) /\ y \in ListHere(moved.subs[k])
      BY <1>4, <1>6, <1>12, <2>2
    <2> QED
      BY <2>1, <2>2 DEF HeapHere
  <1>13. HeapLeft(moved) \subseteq HeapLeft(it)
    <2>1. ASSUME NEW k \in InHeap(moved)
          PROVE  k \in InHeap(it) /\ CellsOf(moved, k) \subseteq CellsOf(it, k)
      BY <1>4, <1>6 DEF CellsOf
    <2> QED
      BY <2>1 DEF HeapLeft
  <1>14. HeapLeft(moved) # HeapLeft(it)
    <2>1. CASE r.ok
      <3>1. PICK i \in ListLeft(it.subs[t]) : i \notin ListLeft(r.it)
        BY <1>4, <2>1
      <3>2. <<t, i>> \in HeapLeft(it)
        BY <1>2, <3>1 DEF HeapLeft, CellsOf
      <3>3. <<t, i>> \notin HeapLeft(moved)
        <4>1. SUFFICES ASSUME NEW k \in InHeap(moved), <<t, i>> \in CellsOf(moved, k) PROVE FALSE
          BY DEF HeapLeft
        <4>2. k = t /\ i \in {0} \cup ListLeft(r.it)
          BY <1>6, <4>1 DEF CellsOf
        <4>3. i # 0
          <5>1. it.subs[t].pos \in Nat /\ Len(it.subs[t].list) \in Nat
            BY <1>1, <1>2, HeapType, ListType
          <5> QED
            BY <5>1 DEF ListLeft
        <4> QED
          BY <3>1, <4>2, <4>3
      <3> QED
        BY <3>2, <3>3
    <2>2. CASE ~r.ok
      <3>1. <<t, 0>> \in HeapLeft(it)
        BY <1>2 DEF HeapLeft, CellsOf
      <3>2. <<t, 0>> \notin HeapLeft(moved)
        BY <1>6, <2>2 DEF HeapLeft, CellsOf
      <3> QED
        BY <3>1, <3>2
    <2> QED
      BY <1>4, <2>1, <2>2
  <1>15. {y \in HeapHere(new) : x <= y} = {y \in HeapHere(it) : x <= y}
    BY <1>9, <1>12
  <1>16. InHeap(new) # {} => TopAt(new) = new.cur
    BY <1>8, <1>9
  <1> QED
    BY <1>8, <1>9, <1>10, <1>11, <1>13, <1>14, <1>15, <1>16 DEF new

\* A union: before it begins, and when it has given a value.
MergedFits(it, n) ==
    /\ HeapFits(it, n)
    /\ \A k \in InHeap(it) : it.cur <= it.subs[k].cur
    /\ it.started => \E k \in InHeap(it) : it.subs[k].cur = it.cur

MergedRest(it) == IF it.started THEN {y \in HeapHere(it) : it.cur < y} ELSE HeapHere(it)
MergedHere(it) == {it.cur} \cup MergedRest(it)
MergedLeft(it, n) == {v \in 0 .. (n + 1) : it.started => it.cur < v /\ v <= n}

LEMMA HeapRange ==
    ASSUME NEW n \in Nat, NEW it, HeapFits(it, n), NEW y \in HeapHere(it)
    PROVE  y \in Nat /\ y <= n /\ \E k \in InHeap(it) : it.subs[k].cur <= y
  <1>1. PICK k \in InHeap(it) : y \in ListHere(it.subs[k])
    BY DEF HeapHere
  <1>2. ListFits(it.subs[k], n) /\ it.subs[k] \in Lists
    BY DEF HeapFits, ListFits
  <1> DEFINE sub == it.subs[k]
  <1>3. sub.list \in Seq(Nat) /\ sub.pos \in Nat /\ sub.cur \in Nat /\ Len(sub.list) \in Nat
        /\ DOMAIN sub.list = 1 .. Len(sub.list) /\ \A i \in 1 .. Len(sub.list) : sub.list[i] \in Nat
    BY <1>2, ListType
  <1>4. CASE y = sub.cur
    BY <1>2, <1>3, <1>4 DEF ListFits
  <1>5. CASE y \in ListRest(sub)
    <2>1. PICK i \in ListLeft(sub) : y = sub.list[i]
      BY <1>5 DEF ListRest
    <2>2. i \in 1 .. Len(sub.list)
      BY <1>3 DEF ListLeft
    <2> QED
      BY <1>2, <1>3, <1>5, <2>1, <2>2 DEF ListFits
  <1> QED
    BY <1>1, <1>4, <1>5 DEF ListHere

\* With every list at `cur` or beyond, and one of them there.
LEMMA MergedHereIsHeap ==
    ASSUME NEW n \in Nat, NEW it, MergedFits(it, n), it.started
    PROVE  MergedHere(it) = HeapHere(it) /\ \A y \in HeapHere(it) : it.cur <= y
  <1>1. PICK k \in InHeap(it) : it.subs[k].cur = it.cur
    BY DEF MergedFits
  <1>2. it.cur \in HeapHere(it)
    BY <1>1 DEF HeapHere, ListHere
  <1>3. it.cur \in Nat /\ it \in MergedIts
    BY HeapType DEF MergedFits, HeapFits
  <1>4. ASSUME NEW y \in HeapHere(it) PROVE y \in Nat /\ it.cur <= y
    <2>1. PICK j \in InHeap(it) : y \in Nat /\ it.subs[j].cur <= y
      BY HeapRange DEF MergedFits
    <2>2. it.cur <= it.subs[j].cur /\ it.subs[j].cur \in Nat
      BY <1>3, HeapType DEF MergedFits
    <2> QED
      BY <1>3, <2>1, <2>2
  <1> QED
    BY <1>2, <1>3, <1>4 DEF MergedHere, MergedRest

\* The loop of Next: it gives up the ids at `cur`.
LEMMA NextLoop ==
    ASSUME NEW n \in Nat, NEW it, HeapFits(it, n), it.started,
           \A k \in InHeap(it) : it.cur <= it.subs[k].cur
    PROVE  LET end == While(MergedIts, StillThere, NextOfTop)[it]
           IN  /\ HeapFits(end, n) /\ end.started /\ end.cur = it.cur
               /\ HeapHere(end) = {y \in HeapHere(it) : it.cur < y}
               /\ \A k \in InHeap(end) : it.cur < end.subs[k].cur
  <1> DEFINE C == {y \in HeapHere(it) : it.cur < y}
             Inv == {x \in MergedIts : /\ HeapFits(x, n) /\ x.started /\ x.cur = it.cur
                                       /\ \A k \in InHeap(x) : it.cur <= x.subs[k].cur
                                       /\ {y \in HeapHere(x) : it.cur < y} = C}
             m == [x \in MergedIts |-> HeapLeft(x)]
             end == While(MergedIts, StillThere, NextOfTop)[it]
  <1>1. it \in MergedIts
    BY DEF HeapFits
  <1>2. it \in Inv
    BY <1>1
  <1>3. \A x \in Inv : IsFiniteSet(m[x])
    BY HeapLeftIsFinite
  <1>4. ASSUME NEW x \in Inv, StillThere[x]
        PROVE  /\ NextOfTop[x] \in Inv
               /\ m[NextOfTop[x]] \subseteq m[x] /\ m[NextOfTop[x]] # m[x]
    <2>1. x \in MergedIts /\ HeapFits(x, n) /\ InHeap(x) # {} /\ TopAt(x) = x.cur
      BY <1>4 DEF StillThere
    <2> DEFINE new == NextOfTop[x]
    <2>2. /\ HeapFits(new, n) /\ new.cur = x.cur /\ new.started = x.started
          /\ {y \in HeapHere(new) : new.cur < y} = {y \in HeapHere(x) : x.cur < y}
          /\ \A k \in InHeap(new) : x.cur <= new.subs[k].cur
          /\ HeapLeft(new) \subseteq HeapLeft(x) /\ HeapLeft(new) # HeapLeft(x)
      BY <2>1, NextOfTopFacts
    <2> HIDE DEF new, C
    <2>3. new \in MergedIts
      BY <2>2 DEF HeapFits
    <2>4. new \in Inv /\ m[new] = HeapLeft(new) /\ m[x] = HeapLeft(x)
      BY <2>1, <2>2, <2>3
    <2> QED
      BY <2>2, <2>4 DEF new
  <1>5. Inv \in SUBSET MergedIts
    OBVIOUS
  <1> HIDE DEF Inv, m
  <1>6. end \in Inv /\ ~StillThere[end]
    BY <1>2, <1>3, <1>4, <1>5, LoopRule
  <1>7. /\ end \in MergedIts /\ HeapFits(end, n) /\ end.started /\ end.cur = it.cur
        /\ \A k \in InHeap(end) : it.cur <= end.subs[k].cur
        /\ {y \in HeapHere(end) : it.cur < y} = C
    BY <1>6 DEF Inv
  <1> HIDE DEF end
  <1>8. ASSUME NEW k \in InHeap(end) PROVE it.cur < end.subs[k].cur
    <2>1. TopAt(end) # end.cur
      BY <1>6, <1>7, <1>8 DEF StillThere
    <2>2. Top(end) \in InHeap(end) /\ TopAt(end) \in Nat /\ TopAt(end) <= end.subs[k].cur
      BY <1>7, <1>8, TopIs
    <2>3. it.cur <= TopAt(end) /\ end.subs[k].cur \in Nat /\ it.cur \in Nat
      BY <1>1, <1>7, <1>8, <2>2, HeapType DEF TopAt
    <2> QED
      BY <1>7, <2>1, <2>2, <2>3
  <1>9. ASSUME NEW y \in HeapHere(end) PROVE it.cur < y
    <2>1. PICK k \in InHeap(end) : y \in Nat /\ end.subs[k].cur <= y
      BY <1>7, <1>9, HeapRange
    <2>2. it.cur \in Nat /\ end.subs[k].cur \in Nat
      BY <1>1, <1>7, HeapType
    <2> QED
      BY <1>8, <2>1, <2>2
  <1>10. HeapHere(end) = C
    BY <1>7, <1>9
  <1> QED
    BY <1>7, <1>8, <1>10 DEF end

LEMMA MergedNextFacts ==
    ASSUME NEW n \in Nat, NEW it, MergedFits(it, n)
    PROVE  LET r == MergedNext(it)
           IN  /\ r.it \in MergedIts /\ r.it.cur <= n /\ r.ok \in BOOLEAN
               /\ r.ok => /\ MergedFits(r.it, n) /\ r.it.started
                          /\ MergedHere(r.it) = MergedRest(it)
                          /\ MergedLeft(r.it, n) \subseteq MergedLeft(it, n)
                          /\ MergedLeft(r.it, n) # MergedLeft(it, n)
               /\ ~r.ok => MergedRest(it) = {}
  <1> DEFINE r == MergedNext(it)
  <1>1. it \in MergedIts /\ HeapFits(it, n) /\ it.cur \in Nat
    BY HeapType DEF MergedFits, HeapFits
  <1>2. CASE InHeap(it) = {}
    <2>1. r = [it |-> it, ok |-> FALSE]
      BY <1>2 DEF MergedNext, No
    <2>2. HeapHere(it) = {}
      BY <1>2 DEF HeapHere
    <2> QED
      BY <1>1, <2>1, <2>2 DEF MergedRest, HeapFits
  <1>3. CASE InHeap(it) # {} /\ ~it.started
    <2> DEFINE new == [it EXCEPT !.started = TRUE, !.cur = TopAt(it)]
    <2>1. r = [it |-> new, ok |-> TRUE]
      BY <1>3 DEF MergedNext, Yes
    <2>2. Top(it) \in InHeap(it) /\ TopAt(it) \in Nat /\ TopAt(it) = it.subs[Top(it)].cur
          /\ \A k \in InHeap(it) : TopAt(it) <= it.subs[k].cur
      BY <1>1, <1>3, TopIs DEF TopAt
    <2>3. new \in MergedIts /\ new.subs = it.subs /\ new.started /\ new.cur = TopAt(it)
      BY <1>1, <2>2, HeapBegun
    <2> HIDE DEF new
    <2>4. InHeap(new) = InHeap(it) /\ HeapHere(new) = HeapHere(it)
      BY <2>3 DEF InHeap, HeapHere
    <2>5. TopAt(it) <= n
      BY <1>1, <2>2 DEF HeapFits, ListFits
    <2>6. HeapFits(new, n)
      BY <1>1, <2>3, <2>4, <2>5 DEF HeapFits
    <2>7. MergedFits(new, n)
      BY <2>2, <2>3, <2>4, <2>6 DEF MergedFits
    <2>8. MergedHere(new) = MergedRest(it)
      BY <1>3, <2>3, <2>4, <2>7, MergedHereIsHeap DEF MergedRest
    <2>9. MergedLeft(new, n) \subseteq MergedLeft(it, n)
      BY <1>3, <2>3 DEF MergedLeft
    <2>10. n + 1 \in MergedLeft(it, n) /\ n + 1 \notin MergedLeft(new, n)
      BY <1>3, <2>3 DEF MergedLeft
    <2> QED
      BY <2>1, <2>3, <2>5, <2>7, <2>8, <2>9, <2>10
  <1>4. CASE InHeap(it) # {} /\ it.started
    <2> DEFINE first == NextOfTop[it]
               end == While(MergedIts, StillThere, NextOfTop)[first]
               new == [end EXCEPT !.cur = TopAt(end)]
    <2>1. TopAt(it) = it.cur
      <3>1. PICK k \in InHeap(it) : it.subs[k].cur = it.cur
        BY <1>4 DEF MergedFits
      <3>2. Top(it) \in InHeap(it) /\ TopAt(it) \in Nat /\ TopAt(it) <= it.subs[k].cur
        BY <1>1, <1>4, TopIs
      <3> QED
        BY <1>1, <3>1, <3>2 DEF MergedFits, TopAt
    <2>2. /\ HeapFits(first, n) /\ first.cur = it.cur /\ first.started
          /\ {y \in HeapHere(first) : first.cur < y} = {y \in HeapHere(it) : it.cur < y}
          /\ \A k \in InHeap(first) : it.cur <= first.subs[k].cur
      BY <1>1, <1>4, <2>1, NextOfTopFacts
    <2>3. r = IF InHeap(end) = {} THEN [it |-> end, ok |-> FALSE] ELSE [it |-> new, ok |-> TRUE]
      BY <1>4 DEF MergedNext, Yes, No
    <2> HIDE DEF first
    <2>4. /\ HeapFits(end, n) /\ end.started /\ end.cur = it.cur
          /\ HeapHere(end) = {y \in HeapHere(first) : first.cur < y}
          /\ \A k \in InHeap(end) : it.cur < end.subs[k].cur
      BY <2>2, NextLoop
    <2> HIDE DEF end
    <2>5. HeapHere(end) = MergedRest(it) /\ end \in MergedIts
      BY <1>4, <2>2, <2>4 DEF MergedRest, HeapFits
    <2>6. CASE InHeap(end) = {}
      BY <2>3, <2>4, <2>5, <2>6 DEF HeapHere, HeapFits
    <2>7. CASE InHeap(end) # {}
      <3>1. Top(end) \in InHeap(end) /\ TopAt(end) \in Nat /\ TopAt(end) = end.subs[Top(end)].cur
            /\ \A k \in InHeap(end) : TopAt(end) <= end.subs[k].cur
        BY <2>5, <2>7, TopIs DEF TopAt
      <3>2. new \in MergedIts /\ new.subs = end.subs /\ new.started /\ new.cur = TopAt(end)
        BY <2>4, <2>5, <3>1, HeapRaised
      <3> HIDE DEF new
      <3>3. InHeap(new) = InHeap(end) /\ HeapHere(new) = HeapHere(end)
        BY <3>2 DEF InHeap, HeapHere
      <3>4. TopAt(end) <= n
        BY <2>4, <3>1 DEF HeapFits, ListFits
      <3>5. HeapFits(new, n)
        BY <2>4, <3>2, <3>3, <3>4 DEF HeapFits
      <3>6. MergedFits(new, n)
        BY <3>1, <3>2, <3>3, <3>5 DEF MergedFits
      <3>7. MergedHere(new) = MergedRest(it)
        BY <2>5, <3>2, <3>3, <3>6, MergedHereIsHeap
      <3>8. it.cur < new.cur
        BY <2>4, <3>1, <3>2
      <3>9. MergedLeft(new, n) \subseteq MergedLeft(it, n)
        BY <1>1, <3>1, <3>2, <3>8 DEF MergedLeft
      <3>10. new.cur \in MergedLeft(it, n) /\ new.cur \notin MergedLeft(new, n)
        BY <1>1, <3>1, <3>2, <3>4, <3>8 DEF MergedLeft
      <3> QED
        BY <2>3, <2>7, <3>2, <3>4, <3>6, <3>7, <3>9, <3>10
    <2> QED
      BY <2>6, <2>7
  <1> QED
    BY <1>1, <1>2, <1>3, <1>4 DEF MergedIts

LEMMA MergedSeekFacts ==
    ASSUME NEW n \in Nat, NEW it, MergedFits(it, n), it.started, NEW x \in Nat
    PROVE  LET r == MergedSeek(it, x)
           IN  /\ r.it \in MergedIts /\ r.ok \in BOOLEAN
               /\ r.ok => /\ MergedFits(r.it, n) /\ r.it.started /\ x <= r.it.cur
                          /\ MergedHere(r.it) = {y \in MergedHere(it) : x <= y}
                          /\ MergedLeft(r.it, n) \subseteq MergedLeft(it, n)
               /\ ~r.ok => {y \in MergedHere(it) : x <= y} = {}
  <1> DEFINE C == {y \in HeapHere(it) : x <= y}
             Inv == {a \in MergedIts : /\ HeapFits(a, n) /\ a.started /\ it.cur <= a.cur
                                       /\ InHeap(a) # {} => TopAt(a) = a.cur
                                       /\ {y \in HeapHere(a) : x <= y} = C}
             m == [a \in MergedIts |-> HeapLeft(a)]
             end == While(MergedIts, Below(x), SeekOfTop(x))[it]
             r == MergedSeek(it, x)
  <1>1. it \in MergedIts /\ HeapFits(it, n) /\ it.cur \in Nat
    BY HeapType DEF MergedFits, HeapFits
  <1>2. TopAt(it) = it.cur
    <2>1. PICK k \in InHeap(it) : it.subs[k].cur = it.cur
      BY DEF MergedFits
    <2>2. Top(it) \in InHeap(it) /\ TopAt(it) \in Nat /\ TopAt(it) <= it.subs[k].cur
      BY <1>1, <2>1, TopIs
    <2> QED
      BY <1>1, <2>1, <2>2 DEF MergedFits, TopAt
  <1>3. it \in Inv
    BY <1>1, <1>2
  <1>4. \A a \in Inv : IsFiniteSet(m[a])
    BY HeapLeftIsFinite
  <1>5. ASSUME NEW a \in Inv, Below(x)[a]
        PROVE  /\ SeekOfTop(x)[a] \in Inv
               /\ m[SeekOfTop(x)[a]] \subseteq m[a] /\ m[SeekOfTop(x)[a]] # m[a]
    <2>1. a \in MergedIts /\ HeapFits(a, n) /\ InHeap(a) # {} /\ TopAt(a) = a.cur /\ a.cur < x
      BY <1>5 DEF Below
    <2> DEFINE new == SeekOfTop(x)[a]
    <2>2. /\ HeapFits(new, n) /\ new.started = a.started
          /\ InHeap(new) # {} => TopAt(new) = new.cur
          /\ {y \in HeapHere(new) : x <= y} = {y \in HeapHere(a) : x <= y}
          /\ a.cur <= new.cur
          /\ HeapLeft(new) \subseteq HeapLeft(a) /\ HeapLeft(new) # HeapLeft(a)
      BY <2>1, SeekOfTopFacts
    <2> HIDE DEF new, C
    <2>3. new \in MergedIts
      BY <2>2 DEF HeapFits
    <2>4. it.cur <= new.cur
      <3>1. new.cur \in Nat /\ a.cur \in Nat
        BY <2>1, <2>3, HeapType
      <3> QED
        BY <1>1, <2>2, <3>1
    <2>5. new \in Inv /\ m[new] = HeapLeft(new) /\ m[a] = HeapLeft(a)
      BY <2>1, <2>2, <2>3, <2>4
    <2> QED
      BY <2>2, <2>5 DEF new
  <1>6. Inv \in SUBSET MergedIts
    OBVIOUS
  <1> HIDE DEF Inv, m
  <1>7. end \in Inv /\ ~Below(x)[end]
    BY <1>3, <1>4, <1>5, <1>6, LoopRule
  <1>8. /\ end \in MergedIts /\ HeapFits(end, n) /\ end.started /\ it.cur <= end.cur
        /\ InHeap(end) # {} => TopAt(end) = end.cur
        /\ {y \in HeapHere(end) : x <= y} = C
    BY <1>7 DEF Inv
  <1>9. r = IF InHeap(end) = {} THEN [it |-> end, ok |-> FALSE] ELSE [it |-> end, ok |-> TRUE]
    BY DEF MergedSeek, Yes, No
  <1> HIDE DEF end, r
  <1>10. {y \in MergedHere(it) : x <= y} = C
    BY MergedHereIsHeap
  <1>11. CASE InHeap(end) = {}
    <2>1. HeapHere(end) = {}
      BY <1>11 DEF HeapHere
    <2> QED
      BY <1>8, <1>9, <1>10, <1>11, <2>1 DEF r
  <1>12. CASE InHeap(end) # {}
    <2>1. Top(end) \in InHeap(end) /\ TopAt(end) \in Nat /\ TopAt(end) = end.subs[Top(end)].cur
          /\ \A k \in InHeap(end) : TopAt(end) <= end.subs[k].cur
      BY <1>8, <1>12, TopIs DEF TopAt
    <2>2. MergedFits(end, n)
      BY <1>8, <1>12, <2>1 DEF MergedFits
    <2>3. x <= end.cur
      <3>1. ~(end.cur < x)
        BY <1>7, <1>8, <1>12 DEF Below
      <3> QED
        BY <1>8, <1>12, <2>1, <3>1
    <2>4. MergedHere(end) = HeapHere(end) /\ \A y \in HeapHere(end) : end.cur <= y
      BY <1>8, <2>2, MergedHereIsHeap
    <2>5. \A y \in HeapHere(end) : x <= y
      <3>1. ASSUME NEW y \in HeapHere(end) PROVE x <= y
        <4>1. y \in Nat /\ end.cur <= y
          BY <1>8, <2>4, HeapRange
        <4> QED
          BY <1>8, <1>12, <2>1, <2>3, <4>1
      <3> QED
        BY <3>1
    <2>6. MergedHere(end) = C
      BY <1>8, <2>4, <2>5
    <2>7. MergedLeft(end, n) \subseteq MergedLeft(it, n)
      BY <1>1, <1>8, <1>12, <2>1 DEF MergedLeft
    <2> QED
      BY <1>8, <1>9, <1>10, <1>12, <2>2, <2>3, <2>6, <2>7 DEF r
  <1> QED
    BY <1>11, <1>12

-----------------------------------------------------------------------------
(* What all iterators of ids up to n have in common: which ids are yet to  *)
(* be given, and with the current one; and a set that every Next makes     *)
(* smaller.                                                                *)

LeafFits(it, n) ==
    CASE it.kind = "list" -> ListFits(it, n)
      [] it.kind = "merged" -> MergedFits(it, n)
      [] OTHER -> it = EmptyPostings
LeafRest(it) ==
    CASE it.kind = "list" -> ListRest(it)
      [] it.kind = "merged" -> MergedRest(it)
      [] OTHER -> {}
LeafHere(it) == {it.cur} \cup LeafRest(it)
LeafLeft(it, n) ==
    CASE it.kind = "list" -> ListLeft(it)
      [] it.kind = "merged" -> MergedLeft(it, n)
      [] OTHER -> {}

\* It has given a value.
LeafBegun(it) == it.kind = "merged" => it.started

LEMMA LeafKinds ==
    /\ \A it \in Lists : it.kind = "list" /\ it # EmptyPostings
    /\ \A it \in MergedIts : it.kind = "merged" /\ it # EmptyPostings
    /\ EmptyPostings.kind = "empty" /\ EmptyPostings.cur = 0
  <1>1. EmptyPostings.kind = "empty" /\ EmptyPostings.cur = 0
    BY DEF EmptyPostings
  <1>2. \A it \in Lists : it.kind = "list"
    BY DEF Lists
  <1>3. \A it \in MergedIts : it.kind = "merged"
    BY DEF MergedIts
  <1> QED
    BY <1>1, <1>2, <1>3

LEMMA LeafType ==
    ASSUME NEW n \in Nat, NEW it \in Leaves, LeafFits(it, n)
    PROVE  /\ it.cur \in Nat /\ it.cur <= n
           /\ \A y \in LeafRest(it) : y \in Nat /\ it.cur <= y /\ y <= n
           /\ IsFiniteSet(LeafLeft(it, n))
  <1>1. CASE it \in Lists
    <2>1. it.kind = "list" /\ ListFits(it, n)
      BY <1>1, LeafKinds DEF LeafFits
    <2>2. it.list \in Seq(Nat) /\ it.pos \in Nat /\ it.cur \in Nat /\ Len(it.list) \in Nat
          /\ DOMAIN it.list = 1 .. Len(it.list) /\ \A i \in 1 .. Len(it.list) : it.list[i] \in Nat
      BY <1>1, ListType
    <2>3. \A i \in ListLeft(it) : i \in 1 .. Len(it.list)
      BY <2>2 DEF ListLeft
    <2>4. \A y \in ListRest(it) : y \in Nat /\ it.cur <= y /\ y <= n
      BY <2>1, <2>2, <2>3 DEF ListFits, ListRest
    <2>5. IsFiniteSet(ListLeft(it))
      <3>1. it.pos + 1 \in Int /\ Len(it.list) \in Int
        BY <2>2
      <3> QED
        BY <3>1, FS_Interval DEF ListLeft
    <2> QED
      BY <2>1, <2>2, <2>4, <2>5 DEF LeafRest, LeafLeft, ListFits
  <1>2. CASE it \in MergedIts
    <2>1. it.kind = "merged" /\ MergedFits(it, n)
      BY <1>2, LeafKinds DEF LeafFits
    <2>2. it.cur \in Nat /\ it.cur <= n /\ HeapFits(it, n)
      BY <1>2, <2>1, HeapType DEF MergedFits, HeapFits
    <2>3. \A y \in HeapHere(it) : y \in Nat /\ it.cur <= y /\ y <= n
      <3>1. ASSUME NEW y \in HeapHere(it) PROVE y \in Nat /\ it.cur <= y /\ y <= n
        <4>1. y \in Nat /\ y <= n
          BY <2>2, HeapRange
        <4>2. PICK k \in InHeap(it) : it.subs[k].cur <= y
          BY <2>2, HeapRange
        <4>3. it.cur <= it.subs[k].cur /\ it.subs[k].cur \in Nat
          BY <1>2, <2>1, HeapType DEF MergedFits
        <4> QED
          BY <2>2, <4>1, <4>2, <4>3
      <3> QED
        BY <3>1
    <2>4. IsFiniteSet(MergedLeft(it, n))
      <3>1. MergedLeft(it, n) \in SUBSET (0 .. (n + 1)) /\ n + 1 \in Int /\ 0 \in Int
        BY DEF MergedLeft
      <3>2. IsFiniteSet(0 .. (n + 1))
        BY <3>1, FS_Interval
      <3> QED
        BY <3>1, <3>2, FS_Subset
    <2> QED
      BY <2>1, <2>2, <2>3, <2>4 DEF LeafRest, LeafLeft, MergedRest
  <1>3. CASE it = EmptyPostings
    BY <1>3, LeafKinds, FS_EmptySet DEF LeafRest, LeafLeft
  <1> QED
    BY <1>1, <1>2, <1>3 DEF Leaves

\* Next gives the least of the ids that are left, and goes on from there.
LEMMA LeafNextFacts ==
    ASSUME NEW n \in Nat, NEW it \in Leaves, LeafFits(it, n)
    PROVE  LET r == LeafNext(it)
           IN  /\ r.it \in Leaves /\ r.it.cur <= n /\ r.ok \in BOOLEAN
               /\ r.ok => /\ LeafFits(r.it, n) /\ LeafBegun(r.it)
                          /\ r.it # EmptyPostings
                          /\ LeafHere(r.it) = LeafRest(it)
                          /\ LeafLeft(r.it, n) \subseteq LeafLeft(it, n)
                          /\ LeafLeft(r.it, n) # LeafLeft(it, n)
               /\ ~r.ok => LeafRest(it) = {}
  <1> DEFINE r == LeafNext(it)
  <1>1. CASE it \in Lists
    <2>1. it.kind = "list" /\ ListFits(it, n)
      BY <1>1, LeafKinds DEF LeafFits
    <2>2. r = ListNext(it)
      BY <2>1 DEF LeafNext
    <2>3. /\ r.it \in Lists /\ r.it.cur <= n /\ r.ok \in BOOLEAN
          /\ r.ok => /\ ListFits(r.it, n) /\ ListHere(r.it) = ListRest(it)
                     /\ ListLeft(it) = ListLeft(r.it) \cup {r.it.pos}
                     /\ r.it.pos \notin ListLeft(r.it)
          /\ ~r.ok => ListRest(it) = {}
      BY <2>1, <2>2, ListNextFacts
    <2> HIDE DEF r
    <2>4. r.it.kind = "list" /\ r.it # EmptyPostings
      BY <2>3, LeafKinds
    <2>5. r.ok => ListLeft(r.it) \subseteq ListLeft(it) /\ ListLeft(r.it) # ListLeft(it)
      BY <2>3
    <2> QED
      BY <2>1, <2>3, <2>4, <2>5 DEF r, Leaves, LeafFits, LeafRest, LeafHere, LeafLeft, LeafBegun, ListHere
  <1>2. CASE it \in MergedIts
    <2>1. it.kind = "merged" /\ MergedFits(it, n)
      BY <1>2, LeafKinds DEF LeafFits
    <2>2. r = MergedNext(it)
      BY <2>1 DEF LeafNext
    <2>3. /\ r.it \in MergedIts /\ r.it.cur <= n /\ r.ok \in BOOLEAN
          /\ r.ok => /\ MergedFits(r.it, n) /\ r.it.started
                     /\ MergedHere(r.it) = MergedRest(it)
                     /\ MergedLeft(r.it, n) \subseteq MergedLeft(it, n)
                     /\ MergedLeft(r.it, n) # MergedLeft(it, n)
          /\ ~r.ok => MergedRest(it) = {}
      BY <2>1, <2>2, MergedNextFacts
    <2> HIDE DEF r
    <2>4. r.it.kind = "merged" /\ r.it # EmptyPostings
      BY <2>3, LeafKinds
    <2> QED
      BY <2>1, <2>3, <2>4 DEF r, Leaves, LeafFits, LeafRest, LeafHere, LeafLeft, LeafBegun, MergedHere
  <1>3. CASE it = EmptyPostings
    <2>1. r = [it |-> it, ok |-> FALSE]
      BY <1>3, LeafKinds DEF LeafNext, No
    <2> QED
      BY <1>3, <2>1, LeafKinds DEF LeafRest, Leaves
  <1> QED
    BY <1>1, <1>2, <1>3 DEF Leaves

\* Seek gives up what is below x.
LEMMA LeafSeekFacts ==
    ASSUME NEW n \in Nat, NEW it \in Leaves, LeafFits(it, n), LeafBegun(it),
           it # EmptyPostings, NEW x \in Nat
    PROVE  LET r == LeafSeek(it, x)
           IN  /\ r.it \in Leaves /\ r.ok \in BOOLEAN
               /\ r.ok => /\ LeafFits(r.it, n) /\ LeafBegun(r.it) /\ r.it # EmptyPostings
                          /\ LeafHere(r.it) = {y \in LeafHere(it) : x <= y}
                          /\ x <= r.it.cur
                          /\ LeafLeft(r.it, n) \subseteq LeafLeft(it, n)
               /\ ~r.ok => {y \in LeafHere(it) : x <= y} = {}
  <1> DEFINE r == LeafSeek(it, x)
  <1>1. CASE it \in Lists
    <2>1. it.kind = "list" /\ ListFits(it, n)
      BY <1>1, LeafKinds DEF LeafFits
    <2>2. r = ListSeek(it, x)
      BY <2>1 DEF LeafSeek
    <2>3. /\ r.it \in Lists /\ r.ok \in BOOLEAN
          /\ r.ok => /\ ListFits(r.it, n) /\ ListHere(r.it) = {y \in ListHere(it) : x <= y}
                     /\ x <= r.it.cur
                     /\ ListLeft(r.it) \subseteq ListLeft(it)
          /\ ~r.ok => {y \in ListHere(it) : x <= y} = {}
      BY <2>1, <2>2, ListSeekFacts
    <2> HIDE DEF r
    <2>4. r.it.kind = "list" /\ r.it # EmptyPostings
      BY <2>3, LeafKinds
    <2> QED
      BY <2>1, <2>3, <2>4 DEF r, Leaves, LeafFits, LeafRest, LeafHere, LeafLeft, LeafBegun, ListHere
  <1>2. CASE it \in MergedIts
    <2>1. it.kind = "merged" /\ MergedFits(it, n) /\ it.started
      BY <1>2, LeafKinds DEF LeafFits, LeafBegun
    <2>2. r = MergedSeek(it, x)
      BY <2>1 DEF LeafSeek
    <2>3. /\ r.it \in MergedIts /\ r.ok \in BOOLEAN
          /\ r.ok => /\ MergedFits(r.it, n) /\ r.it.started /\ x <= r.it.cur
                     /\ MergedHere(r.it) = {y \in MergedHere(it) : x <= y}
                     /\ MergedLeft(r.it, n) \subseteq MergedLeft(it, n)
          /\ ~r.ok => {y \in MergedHere(it) : x <= y} = {}
      BY <2>1, <2>2, MergedSeekFacts
    <2> HIDE DEF r
    <2>4. r.it.kind = "merged" /\ r.it # EmptyPostings
      BY <2>3, LeafKinds
    <2> QED
      BY <2>1, <2>3, <2>4 DEF r, Leaves, LeafFits, LeafRest, LeafHere, LeafLeft, LeafBegun, MergedHere
  <1> QED
    BY <1>1, <1>2 DEF Leaves

-----------------------------------------------------------------------------
(* Intersections.                                                          *)

LEMMA FunctionIsSeq ==
    ASSUME NEW S, NEW l \in Nat, NEW f \in [1 .. l -> S]
    PROVE  f \in Seq(S) /\ Len(f) = l /\ DOMAIN f = 1 .. l
  OBVIOUS

SeqOfLeaves == Seq(Leaves)

LEMMA IntersectChanged ==
    ASSUME NEW T, NEW it \in [kind : {"intersect"}, subs : T, cur : Nat], NEW v \in T, NEW c \in Nat
    PROVE  LET new == [it EXCEPT !.subs = v, !.cur = c]
           IN  new \in [kind : {"intersect"}, subs : T, cur : Nat] /\ new.subs = v /\ new.cur = c
  OBVIOUS

LEMMA RoundMoved ==
    ASSUME NEW T, NEW a \in [it : [kind : {"intersect"}, subs : T, cur : Nat], level : Nat, ok : BOOLEAN],
           NEW k, NEW v, [a.it.subs EXCEPT ![k] = v] \in T
    PROVE  LET new == [a EXCEPT !.it.subs[k] = v]
           IN  /\ new \in [it : [kind : {"intersect"}, subs : T, cur : Nat], level : Nat, ok : BOOLEAN]
               /\ new.it.subs = [a.it.subs EXCEPT ![k] = v] /\ new.it.cur = a.it.cur
               /\ new.level = a.level /\ new.ok = a.ok
  OBVIOUS

LEMMA RoundFails ==
    ASSUME NEW a \in Rounds
    PROVE  LET new == [a EXCEPT !.ok = FALSE]
           IN  new \in Rounds /\ new.it = a.it /\ new.ok = FALSE
  BY DEF Rounds

LEMMA RoundBeginsAgain ==
    ASSUME NEW a \in Rounds, NEW c \in Nat
    PROVE  LET new == [a EXCEPT !.it.cur = c, !.level = 0]
           IN  /\ new \in Rounds /\ new.it.subs = a.it.subs /\ new.it.cur = c
               /\ new.ok = a.ok /\ new.level = 0
  BY DEF Rounds, Intersections

LEMMA RoundGoesOn ==
    ASSUME NEW a \in Rounds, NEW k \in Nat
    PROVE  LET new == [a EXCEPT !.level = k]
           IN  new \in Rounds /\ new.it = a.it /\ new.ok = a.ok /\ new.level = k
  BY DEF Rounds

LEMMA IntersectType ==
    ASSUME NEW it \in Intersections
    PROVE  /\ it.kind = "intersect" /\ it.subs \in SeqOfLeaves /\ it.cur \in Nat
           /\ Len(it.subs) \in Nat /\ DOMAIN it.subs = 1 .. Len(it.subs)
           /\ \A k \in 1 .. Len(it.subs) : it.subs[k] \in Leaves
  <1>1. it.kind = "intersect" /\ it.subs \in SeqOfLeaves /\ it.cur \in Nat
    BY DEF Intersections, SeqOfLeaves
  <1> QED
    BY <1>1, LenProperties, ElementOfSeq DEF SeqOfLeaves

\* The inputs of a round: those of an intersection that have given values.
RoundFits(a, n) ==
    /\ a.it.cur <= n /\ a.level <= Len(a.it.subs)
    /\ \A k \in DOMAIN a.it.subs :
         /\ a.it.subs[k] # EmptyPostings /\ LeafFits(a.it.subs[k], n) /\ LeafBegun(a.it.subs[k])
         /\ a.it.subs[k].cur <= a.it.cur
         /\ k <= a.level => a.it.subs[k].cur = a.it.cur

\* The ids that all inputs still have, and how far the round may still get.
RoundIds(a) == {y \in Nat : a.it.cur <= y /\ \A k \in DOMAIN a.it.subs : y \in LeafHere(a.it.subs[k])}
RoundLeft(a, n) ==
    IF a.ok THEN {c \in (0 .. n) \X (1 .. Len(a.it.subs)) :
                     a.it.cur < c[1] \/ (a.it.cur = c[1] /\ a.level < c[2])}
    ELSE {}

LEMMA RoundFacts ==
    ASSUME NEW n \in Nat, NEW a \in Rounds, RoundFits(a, n), Uneven[a]
    PROVE  LET new == SeekOfNext[a]
           IN  /\ new \in Rounds /\ Len(new.it.subs) = Len(a.it.subs)
               /\ new.ok => /\ RoundFits(new, n) /\ RoundIds(new) = RoundIds(a)
                            /\ LeafLeft(new.it.subs[1], n) \subseteq LeafLeft(a.it.subs[1], n)
               /\ ~new.ok => RoundIds(a) = {}
               /\ RoundLeft(new, n) \subseteq RoundLeft(a, n) /\ RoundLeft(new, n) # RoundLeft(a, n)
  <1> DEFINE k == a.level + 1
             r == LeafSeek(a.it.subs[k], a.it.cur)
             moved == [a EXCEPT !.it.subs[k] = r.it]
             new == SeekOfNext[a]
             l == Len(a.it.subs)
             cur == a.it.cur
  <1>1. a.ok /\ a.level < l /\ a.it \in Intersections /\ a.level \in Nat
    BY DEF Uneven, Rounds
  <1>2. /\ a.it.subs \in SeqOfLeaves /\ cur \in Nat /\ l \in Nat /\ DOMAIN a.it.subs = 1 .. l
        /\ \A j \in 1 .. l : a.it.subs[j] \in Leaves
    BY <1>1, IntersectType
  <1>3. k \in 1 .. l /\ k \in Nat
    BY <1>1, <1>2
  <1>4. a.it.subs[k] \in Leaves /\ LeafFits(a.it.subs[k], n) /\ LeafBegun(a.it.subs[k])
        /\ a.it.subs[k] # EmptyPostings /\ a.it.subs[k].cur <= cur
    BY <1>2, <1>3 DEF RoundFits
  <1>5. /\ r.it \in Leaves /\ r.ok \in BOOLEAN
        /\ r.ok => /\ LeafFits(r.it, n) /\ LeafBegun(r.it) /\ r.it # EmptyPostings
                   /\ LeafHere(r.it) = {y \in LeafHere(a.it.subs[k]) : cur <= y}
                   /\ cur <= r.it.cur
                   /\ LeafLeft(r.it, n) \subseteq LeafLeft(a.it.subs[k], n)
        /\ ~r.ok => {y \in LeafHere(a.it.subs[k]) : cur <= y} = {}
    BY <1>2, <1>4, LeafSeekFacts
  <1>6. new = IF ~r.ok THEN [moved EXCEPT !.ok = FALSE]
              ELSE IF r.it.cur > cur THEN [moved EXCEPT !.it.cur = r.it.cur, !.level = 0]
              ELSE [moved EXCEPT !.level = k]
    BY DEF SeekOfNext
  <1> HIDE DEF r
  <1>7. [a.it.subs EXCEPT ![k] = r.it] \in SeqOfLeaves
    BY <1>2, <1>3, <1>5, ExceptSeq DEF SeqOfLeaves
  <1>8. Rounds = [it : [kind : {"intersect"}, subs : SeqOfLeaves, cur : Nat], level : Nat, ok : BOOLEAN]
    BY DEF Rounds, Intersections, SeqOfLeaves
  <1>9. /\ moved \in Rounds /\ moved.it.subs = [a.it.subs EXCEPT ![k] = r.it]
        /\ moved.it.cur = cur /\ moved.level = a.level /\ moved.ok
    BY <1>1, <1>7, <1>8, RoundMoved
  <1> HIDE DEF moved, new
  <1>10. /\ DOMAIN moved.it.subs = 1 .. l /\ Len(moved.it.subs) = l
         /\ \A j \in 1 .. l : moved.it.subs[j] = IF j = k THEN r.it ELSE a.it.subs[j]
    <2>1. Len(moved.it.subs) = l
      BY <1>2, <1>3, <1>5, <1>9, ExceptSeq DEF SeqOfLeaves
    <2> QED
      BY <1>2, <1>3, <1>9, <2>1
  <1>11. <<cur, k>> \in RoundLeft(a, n)
    <2>1. cur \in 0 .. n
      BY <1>2 DEF RoundFits
    <2> QED
      BY <1>1, <1>2, <1>3, <2>1 DEF RoundLeft
  <1>12. CASE ~r.ok
    <2>1. new \in Rounds /\ new.it = moved.it /\ new.ok = FALSE
      BY <1>6, <1>9, <1>12, RoundFails
    <2>2. RoundIds(a) = {}
      BY <1>2, <1>3, <1>5, <1>12 DEF RoundIds
    <2>3. RoundLeft(new, n) = {}
      BY <2>1 DEF RoundLeft
    <2> QED
      BY <1>10, <1>11, <2>1, <2>2, <2>3 DEF new
  <1>13. CASE r.ok /\ r.it.cur > cur
    <2>1. r.it.cur \in Nat /\ r.it.cur <= n /\ \A y \in LeafRest(r.it) : y \in Nat /\ r.it.cur <= y
      BY <1>5, <1>13, LeafType
    <2>2. /\ new \in Rounds /\ new.it.subs = moved.it.subs /\ new.it.cur = r.it.cur
          /\ new.ok = moved.ok /\ new.level = 0
      BY <1>6, <1>9, <1>13, <2>1, RoundBeginsAgain
    <2>3. RoundFits(new, n)
      <3>1. ASSUME NEW j \in 1 .. l
            PROVE  /\ new.it.subs[j] # EmptyPostings /\ LeafFits(new.it.subs[j], n)
                   /\ LeafBegun(new.it.subs[j]) /\ new.it.subs[j].cur <= new.it.cur
        <4>1. CASE j = k
          BY <1>5, <1>10, <1>13, <2>1, <2>2, <4>1
        <4>2. CASE j # k
          <5>1. new.it.subs[j] = a.it.subs[j] /\ a.it.subs[j] \in Leaves
            BY <1>2, <1>10, <2>2, <4>2
          <5>2. a.it.subs[j] # EmptyPostings /\ LeafFits(a.it.subs[j], n)
                /\ LeafBegun(a.it.subs[j]) /\ a.it.subs[j].cur <= cur
            BY <1>2 DEF RoundFits
          <5>3. a.it.subs[j].cur \in Nat
            BY <5>1, <5>2, LeafType
          <5> QED
            BY <1>2, <1>13, <2>1, <2>2, <5>1, <5>2, <5>3
        <4> QED
          BY <4>1, <4>2
      <3> QED
        BY <1>2, <1>10, <2>1, <2>2, <3>1 DEF RoundFits
    <2>4. ASSUME NEW y \in Nat PROVE y \in RoundIds(new) <=> y \in RoundIds(a)
      <3>1. ASSUME y \in RoundIds(new) PROVE y \in RoundIds(a)
        <4>1. cur <= y
          BY <1>2, <1>13, <2>1, <2>2, <3>1 DEF RoundIds
        <4>2. \A j \in 1 .. l : y \in LeafHere(a.it.subs[j])
          BY <1>2, <1>3, <1>5, <1>10, <1>13, <2>2, <3>1 DEF RoundIds
        <4> QED
          BY <1>2, <4>1, <4>2 DEF RoundIds
      <3>2. ASSUME y \in RoundIds(a) PROVE y \in RoundIds(new)
        <4>1. cur <= y /\ \A j \in 1 .. l : y \in LeafHere(a.it.subs[j])
          BY <1>2, <3>2 DEF RoundIds
        <4>2. y \in LeafHere(r.it)
          BY <1>3, <1>5, <1>13, <4>1
        <4>3. r.it.cur <= y
          BY <2>1, <4>2 DEF LeafHere
        <4> QED
          BY <1>10, <2>2, <4>1, <4>2, <4>3 DEF RoundIds
      <3> QED
        BY <3>1, <3>2
    <2>5. RoundIds(new) = RoundIds(a)
      BY <2>4 DEF RoundIds
    <2>6. RoundLeft(new, n) \subseteq RoundLeft(a, n)
      BY <1>1, <1>2, <1>9, <1>10, <1>13, <2>1, <2>2 DEF RoundLeft
    <2>7. <<cur, k>> \notin RoundLeft(new, n)
      BY <1>2, <1>13, <2>1, <2>2 DEF RoundLeft
    <2>8. LeafLeft(new.it.subs[1], n) \subseteq LeafLeft(a.it.subs[1], n)
      BY <1>2, <1>3, <1>5, <1>10, <1>13, <2>2
    <2> QED
      BY <1>9, <1>10, <1>11, <2>2, <2>3, <2>5, <2>6, <2>7, <2>8 DEF new
  <1>14. CASE r.ok /\ ~(r.it.cur > cur)
    <2>1. r.it.cur = cur
      <3>1. r.it.cur \in Nat
        BY <1>5, <1>14, LeafType
      <3> QED
        BY <1>2, <1>5, <1>14, <3>1
    <2>2. new \in Rounds /\ new.it = moved.it /\ new.ok = moved.ok /\ new.level = k
      BY <1>3, <1>6, <1>9, <1>14, RoundGoesOn
    <2>3. RoundFits(new, n)
      <3>1. ASSUME NEW j \in 1 .. l
            PROVE  /\ new.it.subs[j] # EmptyPostings /\ LeafFits(new.it.subs[j], n)
                   /\ LeafBegun(new.it.subs[j]) /\ new.it.subs[j].cur <= new.it.cur
                   /\ j <= k => new.it.subs[j].cur = new.it.cur
        <4>1. CASE j = k
          BY <1>2, <1>5, <1>9, <1>10, <1>14, <2>1, <2>2, <4>1
        <4>2. CASE j # k
          <5>1. new.it.subs[j] = a.it.subs[j]
            BY <1>10, <2>2, <4>2
          <5>2. j <= k => j <= a.level
            BY <1>1, <4>2
          <5> QED
            BY <1>2, <1>9, <2>2, <5>1, <5>2 DEF RoundFits
        <4> QED
          BY <4>1, <4>2
      <3> QED
        BY <1>3, <1>9, <1>10, <2>2, <3>1 DEF RoundFits
    <2>4. RoundIds(new) = RoundIds(a)
      <3>1. ASSUME NEW y \in Nat, cur <= y, NEW j \in 1 .. l
            PROVE  y \in LeafHere(new.it.subs[j]) <=> y \in LeafHere(a.it.subs[j])
        BY <1>5, <1>10, <1>14, <2>2, <3>1
      <3>2. new.it.cur = cur /\ DOMAIN new.it.subs = DOMAIN a.it.subs
        BY <1>2, <1>9, <1>10, <2>2
      <3> QED
        BY <1>2, <3>1, <3>2 DEF RoundIds
    <2>6. RoundLeft(new, n) \subseteq RoundLeft(a, n)
      BY <1>1, <1>2, <1>9, <1>10, <2>2 DEF RoundLeft
    <2>7. <<cur, k>> \notin RoundLeft(new, n)
      BY <1>1, <1>2, <1>9, <2>2 DEF RoundLeft
    <2>8. LeafLeft(new.it.subs[1], n) \subseteq LeafLeft(a.it.subs[1], n)
      BY <1>2, <1>3, <1>5, <1>10, <1>14, <2>2
    <2> QED
      BY <1>9, <1>10, <1>11, <2>2, <2>3, <2>4, <2>6, <2>7, <2>8 DEF new
  <1> QED
    BY <1>5, <1>12, <1>13, <1>14

\* The loop of doNext ends on the first id that all inputs still have.
LEMMA RoundsLoop ==
    ASSUME NEW n \in Nat, NEW a \in Rounds, RoundFits(a, n), a.ok, Len(a.it.subs) # 0
    PROVE  LET end == While(Rounds, Uneven, SeekOfNext)[a]
           IN  /\ end \in Rounds /\ Len(end.it.subs) = Len(a.it.subs)
               /\ end.ok => /\ RoundFits(end, n) /\ RoundIds(end) = RoundIds(a)
                            /\ end.level = Len(end.it.subs)
                            /\ LeafLeft(end.it.subs[1], n) \subseteq LeafLeft(a.it.subs[1], n)
               /\ ~end.ok => RoundIds(a) = {}
  <1> DEFINE C == RoundIds(a)
             L == LeafLeft(a.it.subs[1], n)
             l == Len(a.it.subs)
             Inv == {x \in Rounds : /\ Len(x.it.subs) = l
                                    /\ x.ok => /\ RoundFits(x, n) /\ RoundIds(x) = C
                                               /\ LeafLeft(x.it.subs[1], n) \subseteq L
                                    /\ ~x.ok => C = {}}
             m == [x \in Rounds |-> RoundLeft(x, n)]
             end == While(Rounds, Uneven, SeekOfNext)[a]
  <1>1. a \in Inv
    OBVIOUS
  <1>2. ASSUME NEW x \in Inv PROVE IsFiniteSet(m[x])
    <2>1. Len(x.it.subs) \in Nat
      BY IntersectType DEF Rounds
    <2>2. IsFiniteSet(0 .. n) /\ IsFiniteSet(1 .. Len(x.it.subs))
      <3>1. 0 \in Int /\ 1 \in Int /\ n \in Int /\ Len(x.it.subs) \in Int
        BY <2>1
      <3> QED
        BY <3>1, FS_Interval
    <2>3. IsFiniteSet((0 .. n) \X (1 .. Len(x.it.subs)))
      BY <2>2, FS_Product
    <2>4. RoundLeft(x, n) \in SUBSET ((0 .. n) \X (1 .. Len(x.it.subs)))
      BY DEF RoundLeft
    <2> QED
      BY <2>3, <2>4, FS_Subset
  <1>3. ASSUME NEW x \in Inv, Uneven[x]
        PROVE  /\ SeekOfNext[x] \in Inv
               /\ m[SeekOfNext[x]] \subseteq m[x] /\ m[SeekOfNext[x]] # m[x]
    <2>1. x \in Rounds /\ x.ok /\ RoundFits(x, n)
      BY <1>3 DEF Uneven
    <2> DEFINE new == SeekOfNext[x]
    <2>2. /\ new \in Rounds /\ Len(new.it.subs) = Len(x.it.subs)
          /\ new.ok => /\ RoundFits(new, n) /\ RoundIds(new) = RoundIds(x)
                       /\ LeafLeft(new.it.subs[1], n) \subseteq LeafLeft(x.it.subs[1], n)
          /\ ~new.ok => RoundIds(x) = {}
          /\ RoundLeft(new, n) \subseteq RoundLeft(x, n) /\ RoundLeft(new, n) # RoundLeft(x, n)
      BY <1>3, <2>1, RoundFacts
    <2> HIDE DEF new, C, L, l
    <2>3. new \in Inv /\ m[new] = RoundLeft(new, n) /\ m[x] = RoundLeft(x, n)
      BY <2>1, <2>2
    <2> QED
      BY <2>2, <2>3 DEF new
  <1>4. Inv \in SUBSET Rounds
    OBVIOUS
  <1> HIDE DEF Inv, m
  <1>5. end \in Inv /\ ~Uneven[end]
    BY <1>1, <1>2, <1>3, <1>4, LoopRule
  <1>6. /\ end \in Rounds /\ Len(end.it.subs) = l
        /\ end.ok => /\ RoundFits(end, n) /\ RoundIds(end) = C
                     /\ LeafLeft(end.it.subs[1], n) \subseteq L
        /\ ~end.ok => C = {}
    BY <1>5 DEF Inv
  <1> HIDE DEF end
  <1>7. end.ok => end.level = Len(end.it.subs)
    <2>1. end.level \in Nat /\ Len(end.it.subs) \in Nat
      BY <1>6, IntersectType DEF Rounds
    <2>2. end.ok => end.level <= Len(end.it.subs)
      BY <1>6 DEF RoundFits
    <2>3. end.ok => ~(end.level < Len(end.it.subs))
      BY <1>5, <1>6 DEF Uneven
    <2> QED
      BY <2>1, <2>2, <2>3
  <1> QED
    BY <1>6, <1>7 DEF end

\* An intersection: all inputs are at its current id, or at none when it begins.
IntersectFits(it, n) ==
    /\ it \in Intersections /\ it.subs # <<>> /\ it.cur <= n
    /\ \A k \in DOMAIN it.subs :
         it.subs[k] # EmptyPostings /\ LeafFits(it.subs[k], n) /\ it.subs[k].cur = it.cur
IntersectRest(it) == {y \in Nat : \A k \in DOMAIN it.subs : y \in LeafRest(it.subs[k])}

LEMMA IntersectNextFacts ==
    ASSUME NEW n \in Nat, NEW it, IntersectFits(it, n)
    PROVE  LET r == IntersectNext(it)
           IN  /\ r.it \in Intersections /\ r.ok \in BOOLEAN
               /\ r.ok => /\ IntersectFits(r.it, n)
                          /\ {r.it.cur} \cup IntersectRest(r.it) = IntersectRest(it)
                          /\ LeafLeft(r.it.subs[1], n) \subseteq LeafLeft(it.subs[1], n)
                          /\ LeafLeft(r.it.subs[1], n) # LeafLeft(it.subs[1], n)
               /\ ~r.ok => IntersectRest(it) = {}
  <1> DEFINE l == Len(it.subs)
             r == [k \in DOMAIN it.subs |-> LeafNext(it.subs[k])]
             subs == [k \in DOMAIN it.subs |-> r[k].it]
             ats == {it.cur} \cup {r[k].it.cur : k \in DOMAIN it.subs}
             moved == [it EXCEPT !.subs = subs, !.cur = Max(ats)]
             begun == [it |-> moved, level |-> 0, ok |-> TRUE]
             even == While(Rounds, Uneven, SeekOfNext)[begun]
             all == \A k \in DOMAIN it.subs : r[k].ok
             new == IntersectNext(it)
  <1>1. /\ it \in Intersections /\ it.subs \in SeqOfLeaves /\ it.cur \in Nat
        /\ l \in Nat /\ DOMAIN it.subs = 1 .. l
        /\ \A k \in 1 .. l : it.subs[k] \in Leaves
    BY IntersectType DEF IntersectFits
  <1>2. l # 0 /\ 1 \in 1 .. l
    <2>1. l # 0
      BY <1>1, EmptySeq DEF IntersectFits, SeqOfLeaves
    <2> QED
      BY <1>1, <2>1
  <1>3. ASSUME NEW k \in 1 .. l
        PROVE  /\ r[k].it \in Leaves /\ r[k].it.cur <= n /\ r[k].ok \in BOOLEAN
               /\ r[k].ok => /\ LeafFits(r[k].it, n) /\ LeafBegun(r[k].it) /\ r[k].it # EmptyPostings
                             /\ LeafHere(r[k].it) = LeafRest(it.subs[k])
                             /\ LeafLeft(r[k].it, n) \subseteq LeafLeft(it.subs[k], n)
                             /\ LeafLeft(r[k].it, n) # LeafLeft(it.subs[k], n)
               /\ ~r[k].ok => LeafRest(it.subs[k]) = {}
    <2>1. it.subs[k] \in Leaves /\ LeafFits(it.subs[k], n)
      BY <1>1, <1>3 DEF IntersectFits
    <2>2. r[k] = LeafNext(it.subs[k])
      BY <1>1
    <2> HIDE DEF r
    <2> QED
      BY <2>1, <2>2, LeafNextFacts
  <1>4. new = IF all THEN [it |-> even.it, ok |-> even.ok] ELSE [it |-> moved, ok |-> FALSE]
    BY DEF IntersectNext, No
  <1> HIDE DEF r, all, even, new
  <1>5. /\ subs \in SeqOfLeaves /\ Len(subs) = l /\ DOMAIN subs = 1 .. l
        /\ \A k \in 1 .. l : subs[k] = r[k].it
    <2>1. subs \in [1 .. l -> Leaves]
      BY <1>1, <1>3
    <2> QED
      BY <1>1, <2>1, FunctionIsSeq DEF SeqOfLeaves
  <1> HIDE DEF subs
  <1>6. ASSUME NEW k \in 1 .. l, r[k].ok
        PROVE  r[k].it.cur \in Nat /\ it.cur <= r[k].it.cur /\ r[k].it.cur <= n
    <2>1. r[k].it.cur \in LeafRest(it.subs[k])
      BY <1>3, <1>6 DEF LeafHere
    <2>2. it.subs[k] \in Leaves /\ LeafFits(it.subs[k], n) /\ it.subs[k].cur = it.cur
      BY <1>1 DEF IntersectFits
    <2> QED
      BY <2>1, <2>2, LeafType
  <1>7. IntersectFits(it, n) /\ it.cur <= n
    BY DEF IntersectFits
  <1>8. ASSUME NEW k \in 1 .. l PROVE r[k].it.cur \in Nat
    <2>1. r[k].it \in Leaves
      BY <1>3
    <2>2. r[k].it.cur \in Nat
      BY <2>1, LeafKinds DEF Leaves, Lists, MergedIts
    <2> QED
      BY <2>2
  <1>9. Max(ats) \in Nat /\ it.cur <= Max(ats) /\ Max(ats) <= n
        /\ Max(ats) \in ats /\ \A k \in 1 .. l : r[k].it.cur <= Max(ats)
    <2>1. ats \in SUBSET Nat /\ ats # {} /\ \A x \in ats : x <= n
      BY <1>1, <1>3, <1>7, <1>8
    <2>2. Max(ats) \in ats /\ \A x \in ats : x <= Max(ats)
      BY <2>1, MaxIs
    <2>3. it.cur \in ats /\ \A k \in 1 .. l : r[k].it.cur \in ats
      BY <1>1
    <2> HIDE DEF ats
    <2> QED
      BY <2>1, <2>2, <2>3
  <1> HIDE DEF ats
  <1>10. moved \in Intersections /\ moved.subs = subs /\ moved.cur = Max(ats)
    <2>1. Intersections = [kind : {"intersect"}, subs : SeqOfLeaves, cur : Nat]
      BY DEF Intersections, SeqOfLeaves
    <2> QED
      BY <1>1, <1>5, <1>9, <2>1, IntersectChanged
  <1> HIDE DEF moved
  <1>11. CASE ~all
    <2>1. new.it = moved /\ new.ok = FALSE
      BY <1>4, <1>11
    <2>2. PICK k \in 1 .. l : ~r[k].ok
      BY <1>1, <1>11 DEF all
    <2>3. LeafRest(it.subs[k]) = {}
      BY <1>3, <2>2
    <2>4. IntersectRest(it) = {}
      BY <1>1, <2>3 DEF IntersectRest
    <2> HIDE DEF new
    <2> QED
      BY <1>10, <2>1, <2>4 DEF new
  <1>12. CASE all
    <2>1. new.it = even.it /\ new.ok = even.ok
      BY <1>4, <1>12
    <2>2. begun \in Rounds /\ begun.it = moved /\ begun.level = 0 /\ begun.ok
      BY <1>10 DEF Rounds
    <2> HIDE DEF begun
    <2>3. \A k \in 1 .. l : r[k].ok
      BY <1>1, <1>12 DEF all
    <2>4. RoundFits(begun, n)
      <3>1. DOMAIN begun.it.subs = 1 .. l /\ Len(begun.it.subs) = l
            /\ begun.it.cur = Max(ats) /\ \A k \in 1 .. l : begun.it.subs[k] = r[k].it
        BY <1>5, <1>10, <2>2
      <3>2. ASSUME NEW k \in 1 .. l
            PROVE  /\ begun.it.subs[k] # EmptyPostings /\ LeafFits(begun.it.subs[k], n)
                   /\ LeafBegun(begun.it.subs[k]) /\ begun.it.subs[k].cur <= begun.it.cur
                   /\ ~(k <= begun.level)
        BY <1>3, <1>9, <2>2, <2>3, <3>1
      <3> QED
        BY <1>1, <1>9, <2>2, <3>1, <3>2 DEF RoundFits
    <2>5. RoundIds(begun) = IntersectRest(it)
      <3>1. \A k \in 1 .. l : LeafHere(subs[k]) = LeafRest(it.subs[k])
        BY <1>3, <1>5, <2>3
      <3>2. ASSUME NEW y \in Nat, \A k \in 1 .. l : y \in LeafHere(subs[k]) PROVE Max(ats) <= y
        <4>1. ASSUME NEW k \in 1 .. l PROVE r[k].it.cur <= y
          <5>1. CASE y = r[k].it.cur
            BY <1>8, <5>1
          <5>2. CASE y \in LeafRest(r[k].it)
            BY <1>3, <2>3, <5>2, LeafType
          <5> QED
            BY <1>5, <3>2, <5>1, <5>2 DEF LeafHere
        <4>2. it.cur <= y
          <5>1. it.cur <= r[1].it.cur /\ r[1].it.cur \in Nat
            BY <1>2, <1>6, <2>3
          <5>2. r[1].it.cur <= y
            BY <1>2, <4>1
          <5> QED
            BY <1>1, <5>1, <5>2
        <4>3. Max(ats) \in ats
          BY <1>9
        <4> QED
          BY <1>1, <4>1, <4>2, <4>3 DEF ats
      <3>3. ASSUME NEW y \in Nat
            PROVE  y \in RoundIds(begun) <=> y \in IntersectRest(it)
        BY <1>1, <1>5, <1>10, <2>2, <3>1, <3>2 DEF RoundIds, IntersectRest
      <3> QED
        BY <3>3 DEF RoundIds, IntersectRest
    <2>6. Len(begun.it.subs) = l /\ begun.it.subs[1] = r[1].it
      BY <1>2, <1>5, <1>10, <2>2
    <2>7. /\ even \in Rounds /\ Len(even.it.subs) = l
          /\ even.ok => /\ RoundFits(even, n) /\ RoundIds(even) = IntersectRest(it)
                        /\ even.level = l
                        /\ LeafLeft(even.it.subs[1], n) \subseteq LeafLeft(r[1].it, n)
          /\ ~even.ok => IntersectRest(it) = {}
      BY <1>2, <2>2, <2>4, <2>5, <2>6, RoundsLoop DEF even
    <2>8. even.it \in Intersections /\ even.ok \in BOOLEAN /\ DOMAIN even.it.subs = 1 .. l
          /\ even.it.cur \in Nat /\ \A k \in 1 .. l : even.it.subs[k] \in Leaves
      BY <2>7, IntersectType DEF Rounds
    <2>9. ASSUME even.ok
          PROVE  /\ IntersectFits(even.it, n)
                 /\ {even.it.cur} \cup IntersectRest(even.it) = IntersectRest(it)
      <3>1. \A k \in 1 .. l : /\ even.it.subs[k] # EmptyPostings /\ LeafFits(even.it.subs[k], n)
                              /\ even.it.subs[k].cur = even.it.cur
        BY <2>7, <2>8, <2>9 DEF RoundFits
      <3>2. even.it.subs # <<>>
        BY <1>2, <2>7
      <3>3. IntersectFits(even.it, n)
        BY <2>7, <2>8, <2>9, <3>1, <3>2 DEF IntersectFits, RoundFits
      <3>4. ASSUME NEW y
            PROVE  y \in {even.it.cur} \cup IntersectRest(even.it) <=> y \in RoundIds(even)
        <4>1. ASSUME NEW k \in 1 .. l, y \in LeafRest(even.it.subs[k])
              PROVE  y \in Nat /\ even.it.cur <= y
          BY <2>8, <3>1, <4>1, LeafType
        <4> QED
          BY <1>2, <2>8, <3>1, <4>1 DEF RoundIds, IntersectRest, LeafHere
      <3> QED
        BY <2>7, <2>9, <3>3, <3>4
    <2>10. even.ok => /\ LeafLeft(even.it.subs[1], n) \subseteq LeafLeft(it.subs[1], n)
                      /\ LeafLeft(even.it.subs[1], n) # LeafLeft(it.subs[1], n)
      BY <1>2, <1>3, <2>3, <2>7
    <2> QED
      BY <2>1, <2>7, <2>8, <2>9, <2>10 DEF new
  <1> QED
    BY <1>11, <1>12

-----------------------------------------------------------------------------
(* Differences.                                                            *)

LEMMA RemovedType ==
    ASSUME NEW it \in Removals
    PROVE  /\ it.kind = "removed" /\ it.full \in Lists /\ it.remove \in Leaves /\ it.cur \in Nat
           /\ it.started \in BOOLEAN /\ it.fok \in BOOLEAN /\ it.rok \in BOOLEAN
  BY DEF Removals

\* The ids that are left of either input, and what is left of their difference.
FullIds(it) ==
    IF ~it.started THEN ListRest(it.full) ELSE IF it.fok THEN ListHere(it.full) ELSE {}
DropIds(it) ==
    IF ~it.started THEN LeafRest(it.remove) ELSE IF it.rok THEN LeafHere(it.remove) ELSE {}
RemovedRest(it) == FullIds(it) \ DropIds(it)

RemovedFits(it, n) ==
    /\ it \in Removals /\ it.cur <= n
    /\ it.started /\ it.fok => ListFits(it.full, n)
    /\ it.started /\ it.rok => /\ it.remove # EmptyPostings
                               /\ LeafFits(it.remove, n) /\ LeafBegun(it.remove)
    /\ ~it.started => ListFits(it.full, n) /\ LeafFits(it.remove, n)
    /\ \A y \in FullIds(it) : it.cur <= y

RemovedLeft(it) == IF it.started /\ ~it.fok THEN {} ELSE {0} \cup ListLeft(it.full)

LEMMA PullFullFacts ==
    ASSUME NEW n \in Nat, NEW it \in Removals, ListFits(it.full, n)
    PROVE  LET new == PullFull(it)
           IN  /\ new \in Removals /\ new.remove = it.remove /\ new.rok = it.rok
               /\ new.started = it.started /\ new.cur = it.cur
               /\ new.fok => /\ ListFits(new.full, n) /\ ListHere(new.full) = ListRest(it.full)
                             /\ ListLeft(it.full) = ListLeft(new.full) \cup {new.full.pos}
                             /\ new.full.pos \notin ListLeft(new.full) /\ new.full.pos # 0
               /\ ~new.fok => ListRest(it.full) = {}
  <1> DEFINE r == ListNext(it.full)
             new == PullFull(it)
  <1>1. /\ r.it \in Lists /\ r.ok \in BOOLEAN
        /\ r.ok => /\ ListFits(r.it, n) /\ ListHere(r.it) = ListRest(it.full)
                   /\ r.it.pos = it.full.pos + 1
                   /\ ListLeft(it.full) = ListLeft(r.it) \cup {r.it.pos}
                   /\ r.it.pos \notin ListLeft(r.it)
        /\ ~r.ok => ListRest(it.full) = {}
    BY ListNextFacts
  <1>2. new = [it EXCEPT !.full = r.it, !.fok = r.ok]
    BY DEF PullFull
  <1> HIDE DEF r
  <1>3. /\ new \in Removals /\ new.full = r.it /\ new.fok = r.ok /\ new.remove = it.remove
        /\ new.rok = it.rok /\ new.started = it.started /\ new.cur = it.cur
    BY <1>1, <1>2 DEF Removals
  <1> HIDE DEF new
  <1>4. it.full.pos \in Nat
    BY RemovedType, ListType
  <1> QED
    BY <1>1, <1>3, <1>4 DEF new

\* What the loop of Next may still do.
ForwardLeft(it, n) ==
    (IF it.fok THEN {1} \X ({0} \cup ListLeft(it.full)) ELSE {})
    \cup (IF it.rok THEN {2} \X {v \in 0 .. (n + 1) : it.remove.cur < v} ELSE {})

LEMMA ForwardLeftIsFinite ==
    ASSUME NEW n \in Nat, NEW it \in Removals
    PROVE  IsFiniteSet(ForwardLeft(it, n))
  <1>1. IsFiniteSet(ListLeft(it.full))
    <2>1. it.full.pos + 1 \in Int /\ Len(it.full.list) \in Int
      BY RemovedType, ListType
    <2> QED
      BY <2>1, FS_Interval DEF ListLeft
  <1>2. IsFiniteSet({0}) /\ IsFiniteSet({1}) /\ IsFiniteSet({2})
    BY FS_Singleton
  <1>3. IsFiniteSet({1} \X ({0} \cup ListLeft(it.full)))
    <2>1. IsFiniteSet({0} \cup ListLeft(it.full))
      BY <1>1, <1>2, FS_Union
    <2> QED
      BY <1>2, <2>1, FS_Product
  <1> DEFINE V == {v \in 0 .. (n + 1) : it.remove.cur < v}
  <1>4. IsFiniteSet({2} \X V)
    <2>1. V \in SUBSET (0 .. (n + 1)) /\ n + 1 \in Int /\ 0 \in Int
      OBVIOUS
    <2>2. IsFiniteSet(0 .. (n + 1))
      BY <2>1, FS_Interval
    <2>3. IsFiniteSet(V)
      BY <2>1, <2>2, FS_Subset
    <2> HIDE DEF V
    <2> QED
      BY <1>2, <2>3, FS_Product
  <1> DEFINE A == IF it.fok THEN {1} \X ({0} \cup ListLeft(it.full)) ELSE {}
             B == IF it.rok THEN {2} \X V ELSE {}
  <1>5. IsFiniteSet(A) /\ IsFiniteSet(B)
    BY <1>3, <1>4, FS_EmptySet
  <1>6. ForwardLeft(it, n) = A \cup B
    BY DEF ForwardLeft
  <1> HIDE DEF A, B
  <1> QED
    BY <1>5, <1>6, FS_Union

LEMMA ForwardFacts ==
    ASSUME NEW n \in Nat, NEW it, RemovedFits(it, n), it.started, Removable[it]
    PROVE  LET new == Forward[it]
           IN  /\ RemovedFits(new, n) /\ new.started /\ new.cur = it.cur
               /\ RemovedRest(new) = RemovedRest(it)
               /\ RemovedLeft(new) \subseteq RemovedLeft(it)
               /\ ForwardLeft(new, n) \subseteq ForwardLeft(it, n)
               /\ ForwardLeft(new, n) # ForwardLeft(it, n)
  <1> DEFINE fcur == it.full.cur
             rcur == it.remove.cur
             new == Forward[it]
  <1>1. it \in Removals
    BY DEF RemovedFits
  <1>2. it.fok /\ it.rok /\ rcur <= fcur
    BY <1>1 DEF Removable
  <1>3. /\ it.full \in Lists /\ it.remove \in Leaves /\ it.cur \in Nat
        /\ ListFits(it.full, n) /\ it.remove # EmptyPostings
        /\ LeafFits(it.remove, n) /\ LeafBegun(it.remove)
    BY <1>1, <1>2, RemovedType DEF RemovedFits
  <1>4. fcur \in Nat /\ fcur <= n /\ rcur \in Nat /\ rcur <= n
    BY <1>3, ListType, LeafType DEF ListFits
  <1>5. \A y \in ListRest(it.full) : fcur <= y
    BY <1>3 DEF ListFits
  <1>6. FullIds(it) = ListHere(it.full) /\ DropIds(it) = LeafHere(it.remove)
    BY <1>2 DEF FullIds, DropIds
  <1>7. CASE rcur < fcur
    <2> DEFINE r == LeafSeek(it.remove, fcur)
    <2>1. /\ r.it \in Leaves /\ r.ok \in BOOLEAN
          /\ r.ok => /\ LeafFits(r.it, n) /\ LeafBegun(r.it) /\ r.it # EmptyPostings
                     /\ LeafHere(r.it) = {y \in LeafHere(it.remove) : fcur <= y}
                     /\ fcur <= r.it.cur
          /\ ~r.ok => {y \in LeafHere(it.remove) : fcur <= y} = {}
      BY <1>3, <1>4, LeafSeekFacts
    <2>2. new = [it EXCEPT !.remove = r.it, !.rok = r.ok]
      BY <1>1, <1>7 DEF Forward, PullRemove
    <2> HIDE DEF r
    <2>3. /\ new \in Removals /\ new.remove = r.it /\ new.rok = r.ok /\ new.full = it.full
          /\ new.fok = it.fok /\ new.started = it.started /\ new.cur = it.cur
      BY <1>1, <2>1, <2>2 DEF Removals
    <2> HIDE DEF new
    <2>4. FullIds(new) = FullIds(it) /\ RemovedLeft(new) = RemovedLeft(it)
      BY <2>3 DEF FullIds, RemovedLeft
    <2>5. RemovedFits(new, n)
      BY <1>2, <1>3, <2>1, <2>3, <2>4 DEF RemovedFits
    <2>6. DropIds(new) = {y \in LeafHere(it.remove) : fcur <= y}
      BY <2>1, <2>3 DEF DropIds
    <2>7. \A y \in FullIds(it) : fcur <= y
      BY <1>4, <1>5, <1>6 DEF ListHere
    <2>8. RemovedRest(new) = RemovedRest(it)
      BY <1>6, <2>4, <2>6, <2>7 DEF RemovedRest
    <2>9. r.ok => r.it.cur \in Nat /\ r.it.cur <= n
      BY <2>1, LeafType
    <2>10. ForwardLeft(new, n) \subseteq ForwardLeft(it, n)
      BY <1>2, <1>4, <1>7, <2>1, <2>3, <2>9 DEF ForwardLeft
    <2>11. ForwardLeft(new, n) # ForwardLeft(it, n)
      <3>1. CASE r.ok
        <4>1. <<2, r.it.cur>> \in ForwardLeft(it, n)
          BY <1>2, <1>4, <1>7, <2>1, <2>9, <3>1 DEF ForwardLeft
        <4>2. <<2, r.it.cur>> \notin ForwardLeft(new, n)
          BY <2>3, <2>9, <3>1 DEF ForwardLeft
        <4> QED
          BY <4>1, <4>2
      <3>2. CASE ~r.ok
        <4>1. <<2, n + 1>> \in ForwardLeft(it, n)
          BY <1>2, <1>4 DEF ForwardLeft
        <4>2. <<2, n + 1>> \notin ForwardLeft(new, n)
          BY <2>3, <3>2 DEF ForwardLeft
        <4> QED
          BY <4>1, <4>2
      <3> QED
        BY <2>1, <3>1, <3>2
    <2> QED
      BY <2>3, <2>4, <2>5, <2>8, <2>10, <2>11 DEF new
  <1>8. CASE ~(rcur < fcur)
    <2>1. rcur = fcur
      BY <1>2, <1>4, <1>8
    <2>2. new = PullFull(it)
      BY <1>1, <1>8 DEF Forward
    <2> HIDE DEF new
    <2>3. /\ new \in Removals /\ new.remove = it.remove /\ new.rok = it.rok
          /\ new.started = it.started /\ new.cur = it.cur
          /\ new.fok => /\ ListFits(new.full, n) /\ ListHere(new.full) = ListRest(it.full)
                        /\ ListLeft(it.full) = ListLeft(new.full) \cup {new.full.pos}
                        /\ new.full.pos \notin ListLeft(new.full) /\ new.full.pos # 0
          /\ ~new.fok => ListRest(it.full) = {}
      BY <1>1, <1>3, <2>2, PullFullFacts
    <2>4. FullIds(new) = ListRest(it.full) /\ DropIds(new) = DropIds(it)
      BY <2>3 DEF FullIds, DropIds
    <2>5. RemovedRest(new) = RemovedRest(it)
      BY <1>6, <2>1, <2>4 DEF RemovedRest, ListHere, LeafHere
    <2>6. \A y \in FullIds(new) : it.cur <= y
      BY <1>6, <2>4 DEF RemovedFits, ListHere
    <2>7. RemovedFits(new, n)
      BY <1>2, <1>3, <2>3, <2>6 DEF RemovedFits
    <2>8. RemovedLeft(new) \subseteq RemovedLeft(it)
      BY <1>2, <2>3 DEF RemovedLeft
    <2>9. ForwardLeft(new, n) \subseteq ForwardLeft(it, n)
      BY <1>2, <2>3 DEF ForwardLeft
    <2>10. ForwardLeft(new, n) # ForwardLeft(it, n)
      <3>1. CASE new.fok
        <4>1. <<1, new.full.pos>> \in ForwardLeft(it, n)
          BY <1>2, <2>3, <3>1 DEF ForwardLeft
        <4>2. <<1, new.full.pos>> \notin ForwardLeft(new, n)
          BY <2>3, <3>1 DEF ForwardLeft
        <4> QED
          BY <4>1, <4>2
      <3>2. CASE ~new.fok
        <4>1. <<1, 0>> \in ForwardLeft(it, n)
          BY <1>2 DEF ForwardLeft
        <4>2. <<1, 0>> \notin ForwardLeft(new, n)
          BY <3>2 DEF ForwardLeft
        <4> QED
          BY <4>1, <4>2
      <3> QED
        BY <3>1, <3>2
    <2> QED
      BY <2>3, <2>5, <2>7, <2>8, <2>9, <2>10 DEF new
  <1> QED
    BY <1>7, <1>8

\* The first Next of a difference begins with a Next of both inputs.
LEMMA RemovedBegins ==
    ASSUME NEW n \in Nat, NEW it, RemovedFits(it, n), ~it.started
    PROVE  LET r == LeafNext(it.remove)
               begun == [PullRemove(PullFull(it), r) EXCEPT !.started = TRUE]
           IN  /\ RemovedFits(begun, n) /\ begun.started /\ begun.cur = it.cur
               /\ RemovedRest(begun) = RemovedRest(it)
               /\ RemovedLeft(begun) \subseteq RemovedLeft(it)
  <1> DEFINE r == LeafNext(it.remove)
             full == PullFull(it)
             both == PullRemove(full, r)
             begun == [both EXCEPT !.started = TRUE]
  <1>1. it \in Removals /\ ListFits(it.full, n) /\ LeafFits(it.remove, n)
    BY DEF RemovedFits
  <1>2. it.remove \in Leaves
    BY <1>1, RemovedType
  <1>3. /\ full \in Removals /\ full.remove = it.remove /\ full.started = it.started /\ full.cur = it.cur
        /\ full.fok => /\ ListFits(full.full, n) /\ ListHere(full.full) = ListRest(it.full)
                       /\ ListLeft(it.full) = ListLeft(full.full) \cup {full.full.pos}
        /\ ~full.fok => ListRest(it.full) = {}
    BY <1>1, PullFullFacts
  <1>4. /\ r.it \in Leaves /\ r.ok \in BOOLEAN
        /\ r.ok => /\ LeafFits(r.it, n) /\ LeafBegun(r.it) /\ r.it # EmptyPostings
                   /\ LeafHere(r.it) = LeafRest(it.remove)
        /\ ~r.ok => LeafRest(it.remove) = {}
    BY <1>1, <1>2, LeafNextFacts
  <1> HIDE DEF r, full
  <1>5. both = [full EXCEPT !.remove = r.it, !.rok = r.ok]
    BY DEF PullRemove
  <1>6. /\ both \in Removals /\ both.remove = r.it /\ both.rok = r.ok /\ both.full = full.full
        /\ both.fok = full.fok /\ both.cur = full.cur
    BY <1>3, <1>4, <1>5 DEF Removals
  <1> HIDE DEF both
  <1>7. /\ begun \in Removals /\ begun.started /\ begun.full = both.full /\ begun.fok = both.fok
        /\ begun.remove = both.remove /\ begun.rok = both.rok /\ begun.cur = both.cur
    BY <1>6 DEF Removals
  <1> HIDE DEF begun
  <1>8. FullIds(begun) = ListRest(it.full) /\ DropIds(begun) = LeafRest(it.remove)
    BY <1>3, <1>4, <1>6, <1>7 DEF FullIds, DropIds
  <1>9. FullIds(it) = FullIds(begun) /\ DropIds(it) = DropIds(begun)
    BY <1>8 DEF FullIds, DropIds
  <1>10. RemovedFits(begun, n)
    BY <1>3, <1>4, <1>6, <1>7, <1>9 DEF RemovedFits
  <1>11. RemovedLeft(begun) \subseteq RemovedLeft(it)
    BY <1>3, <1>6, <1>7 DEF RemovedLeft
  <1> QED
    BY <1>3, <1>6, <1>7, <1>9, <1>10, <1>11 DEF begun, both, full, r, RemovedRest

LEMMA ForwardLoop ==
    ASSUME NEW n \in Nat, NEW it, RemovedFits(it, n), it.started
    PROVE  LET end == While(Removals, Removable, Forward)[it]
           IN  /\ RemovedFits(end, n) /\ end.started /\ end.cur = it.cur /\ ~Removable[end]
               /\ RemovedRest(end) = RemovedRest(it)
               /\ RemovedLeft(end) \subseteq RemovedLeft(it)
  <1> DEFINE C == RemovedRest(it)
             L == RemovedLeft(it)
             Inv == {x \in Removals : /\ RemovedFits(x, n) /\ x.started /\ x.cur = it.cur
                                      /\ RemovedRest(x) = C /\ RemovedLeft(x) \subseteq L}
             m == [x \in Removals |-> ForwardLeft(x, n)]
             end == While(Removals, Removable, Forward)[it]
  <1>1. it \in Inv
    BY DEF RemovedFits
  <1>2. \A x \in Inv : IsFiniteSet(m[x])
    BY ForwardLeftIsFinite
  <1>3. ASSUME NEW x \in Inv, Removable[x]
        PROVE  /\ Forward[x] \in Inv
               /\ m[Forward[x]] \subseteq m[x] /\ m[Forward[x]] # m[x]
    <2>1. x \in Removals /\ RemovedFits(x, n) /\ x.started
      OBVIOUS
    <2> DEFINE new == Forward[x]
    <2>2. /\ RemovedFits(new, n) /\ new.started /\ new.cur = x.cur
          /\ RemovedRest(new) = RemovedRest(x) /\ RemovedLeft(new) \subseteq RemovedLeft(x)
          /\ ForwardLeft(new, n) \subseteq ForwardLeft(x, n)
          /\ ForwardLeft(new, n) # ForwardLeft(x, n)
      BY <1>3, <2>1, ForwardFacts
    <2> HIDE DEF new, C, L
    <2>3. new \in Removals
      BY <2>2 DEF RemovedFits
    <2>4. new \in Inv /\ m[new] = ForwardLeft(new, n) /\ m[x] = ForwardLeft(x, n)
      BY <2>1, <2>2, <2>3
    <2> QED
      BY <2>2, <2>4 DEF new
  <1>4. Inv \in SUBSET Removals
    OBVIOUS
  <1> HIDE DEF Inv, m
  <1>5. end \in Inv /\ ~Removable[end]
    BY <1>1, <1>2, <1>3, <1>4, LoopRule
  <1> QED
    BY <1>5 DEF Inv

LEMMA RemovedNextFacts ==
    ASSUME NEW n \in Nat, NEW it, RemovedFits(it, n)
    PROVE  LET r == RemovedNext(it)
           IN  /\ r.it \in Removals /\ r.ok \in BOOLEAN
               /\ r.ok => /\ RemovedFits(r.it, n)
                          /\ {r.it.cur} \cup RemovedRest(r.it) = RemovedRest(it)
                          /\ RemovedLeft(r.it) \subseteq RemovedLeft(it)
                          /\ RemovedLeft(r.it) # RemovedLeft(it)
               /\ ~r.ok => RemovedRest(it) = {}
  <1> DEFINE begun == IF it.started THEN it
                      ELSE [PullRemove(PullFull(it), LeafNext(it.remove)) EXCEPT !.started = TRUE]
             moved == While(Removals, Removable, Forward)[begun]
             full == PullFull(moved)
             new == [full EXCEPT !.cur = moved.full.cur]
             r == RemovedNext(it)
  <1>1. /\ RemovedFits(begun, n) /\ begun.started /\ RemovedRest(begun) = RemovedRest(it)
        /\ RemovedLeft(begun) \subseteq RemovedLeft(it)
    BY RemovedBegins
  <1>2. r = IF moved.fok THEN [it |-> new, ok |-> TRUE] ELSE [it |-> moved, ok |-> FALSE]
    BY DEF RemovedNext, Yes, No
  <1> HIDE DEF begun
  <1>3. /\ RemovedFits(moved, n) /\ moved.started /\ ~Removable[moved]
        /\ RemovedRest(moved) = RemovedRest(it) /\ RemovedLeft(moved) \subseteq RemovedLeft(it)
    BY <1>1, ForwardLoop
  <1> HIDE DEF moved
  <1>4. /\ moved \in Removals /\ moved.full \in Lists /\ moved.remove \in Leaves
        /\ moved.fok \in BOOLEAN /\ moved.rok \in BOOLEAN
    BY <1>3, RemovedType DEF RemovedFits
  <1>5. CASE ~moved.fok
    <2>1. RemovedRest(moved) = {}
      BY <1>3, <1>5 DEF RemovedRest, FullIds
    <2> QED
      BY <1>2, <1>3, <1>4, <1>5, <2>1
  <1>6. CASE moved.fok
    <2> DEFINE c == moved.full.cur
    <2>1. ListFits(moved.full, n) /\ c \in Nat /\ c <= n
      BY <1>3, <1>4, <1>6, ListType DEF RemovedFits, ListFits
    <2>2. /\ full \in Removals /\ full.remove = moved.remove /\ full.rok = moved.rok
          /\ full.started = moved.started
          /\ full.fok => /\ ListFits(full.full, n) /\ ListHere(full.full) = ListRest(moved.full)
                         /\ ListLeft(moved.full) = ListLeft(full.full) \cup {full.full.pos}
                         /\ full.full.pos \notin ListLeft(full.full)
          /\ ~full.fok => ListRest(moved.full) = {}
      BY <1>4, <2>1, PullFullFacts
    <2> HIDE DEF full
    <2>3. /\ new \in Removals /\ new.cur = c /\ new.full = full.full /\ new.fok = full.fok
          /\ new.remove = full.remove /\ new.rok = full.rok /\ new.started = full.started
      BY <2>1, <2>2 DEF Removals
    <2> HIDE DEF new
    <2>4. FullIds(new) = ListRest(moved.full) /\ FullIds(moved) = {c} \cup ListRest(moved.full)
      BY <1>3, <1>6, <2>2, <2>3 DEF FullIds, ListHere
    <2>5. DropIds(new) = DropIds(moved)
      BY <2>2, <2>3 DEF DropIds
    <2>6. c \notin DropIds(moved)
      <3>1. CASE ~moved.rok
        BY <1>3, <3>1 DEF DropIds
      <3>2. CASE moved.rok
        <4>1. ~(moved.remove.cur <= c)
          BY <1>3, <1>4, <1>6, <3>2 DEF Removable
        <4>2. LeafFits(moved.remove, n)
          BY <1>3, <3>2 DEF RemovedFits
        <4>3. moved.remove.cur \in Nat /\ \A y \in LeafRest(moved.remove) : moved.remove.cur <= y
          BY <1>4, <4>2, LeafType
        <4>4. c \notin LeafHere(moved.remove)
          BY <2>1, <4>1, <4>3 DEF LeafHere
        <4> QED
          BY <1>3, <3>2, <4>4 DEF DropIds
      <3> QED
        BY <3>1, <3>2
    <2>7. {c} \cup RemovedRest(new) = RemovedRest(it)
      BY <1>3, <2>4, <2>5, <2>6 DEF RemovedRest
    <2>8. RemovedFits(new, n)
      <3>1. \A y \in FullIds(new) : new.cur <= y
        BY <2>1, <2>3, <2>4 DEF ListFits
      <3> QED
        BY <1>3, <2>1, <2>2, <2>3, <3>1 DEF RemovedFits
    <2>9. RemovedLeft(new) \subseteq RemovedLeft(moved) /\ RemovedLeft(new) # RemovedLeft(moved)
      <3>1. RemovedLeft(moved) = {0} \cup ListLeft(moved.full)
        BY <1>6 DEF RemovedLeft
      <3>2. CASE new.fok
        <4>1. RemovedLeft(new) = {0} \cup ListLeft(new.full)
          BY <3>2 DEF RemovedLeft
        <4>2. new.full.pos # 0
          <5>1. moved.full.pos \in Nat /\ Len(moved.full.list) \in Nat
            BY <1>4, ListType
          <5>2. new.full.pos \in ListLeft(moved.full)
            BY <2>2, <2>3, <3>2
          <5> QED
            BY <5>1, <5>2 DEF ListLeft
        <4> QED
          BY <2>2, <2>3, <3>1, <3>2, <4>1, <4>2
      <3>3. CASE ~new.fok
        <4>1. RemovedLeft(new) = {}
          BY <1>3, <2>2, <2>3, <3>3 DEF RemovedLeft
        <4> QED
          BY <3>1, <4>1
      <3> QED
        BY <3>2, <3>3
    <2>10. r.it = new /\ r.ok = TRUE
      BY <1>2, <1>6
    <2> HIDE DEF r
    <2> QED
      BY <1>3, <2>3, <2>7, <2>8, <2>9, <2>10 DEF r
  <1> QED
    BY <1>4, <1>5, <1>6

-----------------------------------------------------------------------------
(* All iterators.                                                          *)

Fits(it, n) ==
    CASE it.kind = "intersect" -> IntersectFits(it, n)
      [] it.kind = "removed" -> RemovedFits(it, n)
      [] OTHER -> LeafFits(it, n)
Rest(it) ==
    CASE it.kind = "intersect" -> IntersectRest(it)
      [] it.kind = "removed" -> RemovedRest(it)
      [] OTHER -> LeafRest(it)
LeftOf(it, n) ==
    CASE it.kind = "intersect" -> LeafLeft(it.subs[1], n)
      [] it.kind = "removed" -> RemovedLeft(it)
      [] OTHER -> LeafLeft(it, n)

LEMMA PostingsKinds ==
    /\ \A it \in Leaves : it.kind # "intersect" /\ it.kind # "removed"
    /\ \A it \in Intersections : it.kind = "intersect" /\ it # EmptyPostings
    /\ \A it \in Removals : it.kind = "removed" /\ it # EmptyPostings
  <1>1. \A it \in Leaves : it.kind # "intersect" /\ it.kind # "removed"
    BY LeafKinds DEF Leaves
  <1>2. \A it \in Intersections : it.kind = "intersect"
    BY DEF Intersections
  <1>3. \A it \in Removals : it.kind = "removed"
    BY DEF Removals
  <1> QED
    BY <1>1, <1>2, <1>3, LeafKinds

LEMMA FitsType ==
    ASSUME NEW n \in Nat, NEW it \in Postings, Fits(it, n)
    PROVE  /\ it.cur \in Nat /\ it.cur <= n
           /\ \A y \in Rest(it) : y \in Nat /\ it.cur <= y /\ y <= n
           /\ IsFiniteSet(LeftOf(it, n))
  <1>1. CASE it \in Leaves
    <2>1. it.kind # "intersect" /\ it.kind # "removed"
      BY <1>1, PostingsKinds
    <2> QED
      BY <1>1, <2>1, LeafType DEF Fits, Rest, LeftOf
  <1>2. CASE it \in Intersections
    <2>1. it.kind = "intersect" /\ IntersectFits(it, n)
      BY <1>2, PostingsKinds DEF Fits
    <2>2. it.cur \in Nat /\ it.cur <= n /\ it.subs \in SeqOfLeaves /\ DOMAIN it.subs = 1 .. Len(it.subs)
          /\ \A k \in 1 .. Len(it.subs) : it.subs[k] \in Leaves
      BY <1>2, <2>1, IntersectType DEF IntersectFits
    <2>3. 1 \in 1 .. Len(it.subs)
      <3>1. Len(it.subs) \in Nat \ {0}
        BY <2>1, <2>2, EmptySeq DEF IntersectFits, SeqOfLeaves
      <3> QED
        BY <3>1
    <2>4. it.subs[1] \in Leaves /\ LeafFits(it.subs[1], n) /\ it.subs[1].cur = it.cur
      BY <2>1, <2>2, <2>3 DEF IntersectFits
    <2>5. IntersectRest(it) \subseteq LeafRest(it.subs[1])
      BY <2>2, <2>3 DEF IntersectRest
    <2> QED
      BY <2>1, <2>2, <2>4, <2>5, LeafType DEF Rest, LeftOf
  <1>3. CASE it \in Removals
    <2>1. it.kind = "removed" /\ RemovedFits(it, n)
      BY <1>3, PostingsKinds DEF Fits
    <2>2. it.cur \in Nat /\ it.cur <= n /\ it.full \in Lists /\ it.started \in BOOLEAN
      BY <1>3, <2>1, RemovedType DEF RemovedFits
    <2>3. \A y \in FullIds(it) : y \in Nat /\ it.cur <= y /\ y <= n
      <3>1. CASE it.started /\ ~it.fok
        BY <3>1 DEF FullIds
      <3>2. CASE ~(it.started /\ ~it.fok)
        <4>1. ListFits(it.full, n)
          BY <2>1, <3>2 DEF RemovedFits
        <4>2. it.full \in Leaves /\ LeafFits(it.full, n) /\ LeafHere(it.full) = ListHere(it.full)
          BY <2>2, <4>1, LeafKinds DEF Leaves, LeafFits, LeafHere, LeafRest, ListHere
        <4>3. \A y \in ListHere(it.full) : y \in Nat /\ y <= n
          BY <4>2, LeafType DEF LeafHere
        <4>4. FullIds(it) \subseteq ListHere(it.full)
          BY DEF FullIds, ListHere
        <4> QED
          BY <2>1, <4>3, <4>4 DEF RemovedFits
      <3> QED
        BY <3>1, <3>2
    <2>4. IsFiniteSet(RemovedLeft(it))
      <3>1. it.full.pos + 1 \in Int /\ Len(it.full.list) \in Int
        BY <2>2, ListType
      <3>2. IsFiniteSet(ListLeft(it.full)) /\ IsFiniteSet({0})
        BY <3>1, FS_Interval, FS_Singleton DEF ListLeft
      <3>3. IsFiniteSet({0} \cup ListLeft(it.full))
        BY <3>2, FS_Union
      <3> QED
        BY <3>3, FS_EmptySet DEF RemovedLeft
    <2> QED
      BY <2>1, <2>2, <2>3, <2>4 DEF Rest, LeftOf, RemovedRest
  <1> QED
    BY <1>1, <1>2, <1>3 DEF Postings

\* Next, of any iterator, gives the least of the ids that are left.
LEMMA AdvanceFacts ==
    ASSUME NEW n \in Nat, NEW it \in Postings, Fits(it, n)
    PROVE  LET r == Advance(it)
           IN  /\ r.it \in Postings /\ r.ok \in BOOLEAN
               /\ r.ok => /\ Fits(r.it, n)
                          /\ {r.it.cur} \cup Rest(r.it) = Rest(it)
                          /\ LeftOf(r.it, n) \subseteq LeftOf(it, n) /\ LeftOf(r.it, n) # LeftOf(it, n)
               /\ ~r.ok => Rest(it) = {}
  <1> DEFINE r == Advance(it)
  <1>1. CASE it \in Leaves
    <2>1. it.kind # "intersect" /\ it.kind # "removed"
      BY <1>1, PostingsKinds
    <2>2. r = LeafNext(it) /\ LeafFits(it, n)
      BY <2>1 DEF Advance, Fits
    <2>3. /\ r.it \in Leaves /\ r.ok \in BOOLEAN
          /\ r.ok => /\ LeafFits(r.it, n) /\ LeafHere(r.it) = LeafRest(it)
                     /\ LeafLeft(r.it, n) \subseteq LeafLeft(it, n)
                     /\ LeafLeft(r.it, n) # LeafLeft(it, n)
          /\ ~r.ok => LeafRest(it) = {}
      BY <1>1, <2>2, LeafNextFacts
    <2> HIDE DEF r
    <2>4. r.it.kind # "intersect" /\ r.it.kind # "removed"
      BY <2>3, PostingsKinds
    <2> QED
      BY <2>1, <2>3, <2>4 DEF r, Fits, Rest, LeftOf, Postings, LeafHere
  <1>2. CASE it \in Intersections
    <2>1. it.kind = "intersect" /\ IntersectFits(it, n)
      BY <1>2, PostingsKinds DEF Fits
    <2>2. r = IntersectNext(it)
      BY <2>1 DEF Advance
    <2>3. /\ r.it \in Intersections /\ r.ok \in BOOLEAN
          /\ r.ok => /\ IntersectFits(r.it, n)
                     /\ {r.it.cur} \cup IntersectRest(r.it) = IntersectRest(it)
                     /\ LeafLeft(r.it.subs[1], n) \subseteq LeafLeft(it.subs[1], n)
                     /\ LeafLeft(r.it.subs[1], n) # LeafLeft(it.subs[1], n)
          /\ ~r.ok => IntersectRest(it) = {}
      BY <2>1, <2>2, IntersectNextFacts
    <2> HIDE DEF r
    <2>4. r.it.kind = "intersect"
      BY <2>3, PostingsKinds
    <2> QED
      BY <2>1, <2>3, <2>4 DEF r, Fits, Rest, LeftOf, Postings
  <1>3. CASE it \in Removals
    <2>1. it.kind = "removed" /\ RemovedFits(it, n)
      BY <1>3, PostingsKinds DEF Fits
    <2>2. r = RemovedNext(it)
      BY <2>1 DEF Advance
    <2>3. /\ r.it \in Removals /\ r.ok \in BOOLEAN
          /\ r.ok => /\ RemovedFits(r.it, n)
                     /\ {r.it.cur} \cup RemovedRest(r.it) = RemovedRest(it)
                     /\ RemovedLeft(r.it) \subseteq RemovedLeft(it)
                     /\ RemovedLeft(r.it) # RemovedLeft(it)
          /\ ~r.ok => RemovedRest(it) = {}
      BY <2>1, <2>2, RemovedNextFacts
    <2> HIDE DEF r
    <2>4. r.it.kind = "removed"
      BY <2>3, PostingsKinds
    <2> QED
      BY <2>1, <2>3, <2>4 DEF r, Fits, Rest, LeftOf, Postings
  <1> QED
    BY <1>1, <1>2, <1>3 DEF Postings

-----------------------------------------------------------------------------
(* What an iterator gives, from its first value to its last.               *)

\* A list of ids up to n, in order.
ListOf(l, n) == l \in Seq(Nat) /\ InOrder(l) /\ \A i \in DOMAIN l : l[i] <= n

LEMMA ListOfType ==
    ASSUME NEW n, NEW l, ListOf(l, n)
    PROVE  /\ l \in Seq(Nat) /\ Len(l) \in Nat /\ DOMAIN l = 1 .. Len(l)
           /\ \A i \in 1 .. Len(l) : l[i] \in Nat /\ l[i] <= n
           /\ \A i, j \in 1 .. Len(l) : i <= j => l[i] <= l[j]
  <1>1. l \in Seq(Nat)
    BY DEF ListOf
  <1>2. Len(l) \in Nat /\ DOMAIN l = 1 .. Len(l) /\ \A i \in 1 .. Len(l) : l[i] \in Nat
    BY <1>1, LenProperties, ElementOfSeq
  <1> QED
    BY <1>1, <1>2 DEF ListOf, InOrder

LEMMA AppendInOrder ==
    ASSUME NEW n \in Nat, NEW l, ListOf(l, n), NEW v \in Nat, v <= n, \A i \in DOMAIN l : l[i] <= v
    PROVE  ListOf(Append(l, v), n) /\ IdsOfList(Append(l, v)) = IdsOfList(l) \cup {v}
  <1> DEFINE new == Append(l, v)
  <1>1. /\ l \in Seq(Nat) /\ Len(l) \in Nat /\ DOMAIN l = 1 .. Len(l)
        /\ \A i \in 1 .. Len(l) : l[i] \in Nat /\ l[i] <= n
        /\ \A i, j \in 1 .. Len(l) : i <= j => l[i] <= l[j]
    BY ListOfType
  <1>2. /\ new \in Seq(Nat) /\ DOMAIN new = 1 .. (Len(l) + 1)
        /\ \A i \in 1 .. Len(l) : new[i] = l[i]
        /\ new[Len(l) + 1] = v
    BY <1>1, AppendProperties, LenProperties
  <1> HIDE DEF new
  <1>3. ASSUME NEW i \in DOMAIN new
        PROVE  (i \in 1 .. Len(l) /\ new[i] = l[i] /\ new[i] \in Nat) \/ (i = Len(l) + 1 /\ new[i] = v)
    <2>1. i \in 1 .. Len(l) \/ i = Len(l) + 1
      BY <1>1, <1>2
    <2> QED
      BY <1>1, <1>2, <2>1
  <1>4. InOrder(new)
    <2>1. ASSUME NEW i \in DOMAIN new, NEW j \in DOMAIN new, i <= j
          PROVE  new[i] <= new[j]
      <3>1. CASE j \in 1 .. Len(l)
        <4>1. i \in 1 .. Len(l)
          BY <1>1, <1>2, <2>1, <3>1
        <4> QED
          BY <1>1, <1>2, <2>1, <3>1, <4>1
      <3>2. CASE j = Len(l) + 1
        <4>1. new[j] = v
          BY <1>2, <3>2
        <4>2. new[i] <= v
          BY <1>1, <1>3
        <4> QED
          BY <4>1, <4>2
      <3> QED
        BY <1>3, <3>1, <3>2
    <2> QED
      BY <2>1 DEF InOrder
  <1>5. \A i \in DOMAIN new : new[i] <= n
    BY <1>1, <1>3
  <1>6. IdsOfList(new) = IdsOfList(l) \cup {v}
    <2>1. \A y \in IdsOfList(new) : y \in IdsOfList(l) \cup {v}
      BY <1>1, <1>3 DEF IdsOfList
    <2>2. \A i \in 1 .. Len(l) : i \in DOMAIN new /\ new[i] = l[i]
      BY <1>1, <1>2
    <2>3. Len(l) + 1 \in DOMAIN new
      BY <1>1, <1>2
    <2>4. \A y \in IdsOfList(l) \cup {v} : y \in IdsOfList(new)
      BY <1>1, <1>2, <2>2, <2>3 DEF IdsOfList
    <2> QED
      BY <2>1, <2>4
  <1> QED
    BY <1>2, <1>4, <1>5, <1>6 DEF new, ListOf

IsAnswer(r) == \E x, b : r = [it |-> x, ok |-> b]

LEMMA AdvanceIsAnAnswer ==
    ASSUME NEW it
    PROVE  IsAnswer(Advance(it))
  <1>1. \A x : IsAnswer(Yes(x)) /\ IsAnswer(No(x))
    BY DEF IsAnswer, Yes, No
  <1>2. \A x, b : IsAnswer([it |-> x, ok |-> b])
    BY DEF IsAnswer
  <1>3. IsAnswer(ListNext(it))
    BY <1>1 DEF ListNext
  <1>4. IsAnswer(MergedNext(it))
    BY <1>1 DEF MergedNext
  <1>5. IsAnswer(LeafNext(it))
    BY <1>1, <1>3, <1>4 DEF LeafNext
  <1>6. IsAnswer(IntersectNext(it))
    BY <1>1, <1>2 DEF IntersectNext
  <1>7. IsAnswer(RemovedNext(it))
    BY <1>1 DEF RemovedNext
  <1> QED
    BY <1>5, <1>6, <1>7 DEF Advance

LEMMA DrainMoved ==
    ASSUME NEW T, NEW U, NEW r \in T, NEW o \in U
    PROVE  LET new == [r |-> r, out |-> o]
           IN  new \in [r : T, out : U] /\ new.r = r /\ new.out = o
  OBVIOUS

AnswersOfPostings == [it : Postings, ok : BOOLEAN]

\* What has been given, with what is left, is what there was.
DrainFits(d, n, ids) ==
    /\ ListOf(d.out, n)
    /\ d.r.ok => /\ Fits(d.r.it, n)
                 /\ IdsOfList(d.out) \cup ({d.r.it.cur} \cup Rest(d.r.it)) = ids
                 /\ \A i \in DOMAIN d.out : d.out[i] <= d.r.it.cur
    /\ ~d.r.ok => IdsOfList(d.out) = ids
DrainLeft(d, n) == IF d.r.ok THEN {<<1>>} \cup ({2} \X LeftOf(d.r.it, n)) ELSE {}

LEMMA TakeFacts ==
    ASSUME NEW n \in Nat, NEW ids, NEW d \in Drains, DrainFits(d, n, ids), HasNext[d]
    PROVE  LET new == TakeNext[d]
           IN  /\ new \in Drains /\ DrainFits(new, n, ids)
               /\ DrainLeft(new, n) \subseteq DrainLeft(d, n) /\ DrainLeft(new, n) # DrainLeft(d, n)
  <1> DEFINE it == d.r.it
             a == Advance(it)
             out == Append(d.out, it.cur)
             new == [r |-> a, out |-> out]
  <1>1. d.r.ok
    BY DEF HasNext
  <1>2. it \in Postings /\ Fits(it, n) /\ ListOf(d.out, n)
        /\ IdsOfList(d.out) \cup ({it.cur} \cup Rest(it)) = ids
        /\ \A i \in DOMAIN d.out : d.out[i] <= it.cur
    BY <1>1 DEF DrainFits, Drains
  <1>3. TakeNext[d] = new
    BY DEF TakeNext
  <1>4. it.cur \in Nat /\ it.cur <= n /\ \A y \in Rest(it) : y \in Nat /\ it.cur <= y /\ y <= n
    BY <1>2, FitsType
  <1>5. /\ a.it \in Postings /\ a.ok \in BOOLEAN
        /\ a.ok => /\ Fits(a.it, n) /\ {a.it.cur} \cup Rest(a.it) = Rest(it)
                   /\ LeftOf(a.it, n) \subseteq LeftOf(it, n) /\ LeftOf(a.it, n) # LeftOf(it, n)
        /\ ~a.ok => Rest(it) = {}
    BY <1>2, AdvanceFacts
  <1>6. ListOf(out, n) /\ IdsOfList(out) = IdsOfList(d.out) \cup {it.cur}
    BY <1>2, <1>4, AppendInOrder
  <1>7. a \in AnswersOfPostings
    <2>1. PICK x, b : a = [it |-> x, ok |-> b]
      BY AdvanceIsAnAnswer DEF IsAnswer
    <2> HIDE DEF a
    <2> QED
      BY <1>5, <2>1 DEF AnswersOfPostings
  <1> HIDE DEF a, out
  <1>8. out \in Seq(Nat)
    BY <1>6 DEF ListOf
  <1>9. new \in Drains /\ new.r = a /\ new.out = out
    BY <1>7, <1>8, DrainMoved DEF Drains, AnswersOfPostings
  <1> HIDE DEF new
  <1>10. CASE a.ok
    <2>1. \A i \in DOMAIN out : out[i] <= a.it.cur
      <3>1. it.cur <= a.it.cur /\ a.it.cur \in Nat
        BY <1>4, <1>5, <1>10, FitsType
      <3>2. \A y \in IdsOfList(out) : y \in Nat /\ y <= it.cur
        <4>1. \A i \in DOMAIN d.out : d.out[i] \in Nat /\ d.out[i] <= it.cur
          BY <1>2, ListOfType
        <4> QED
          BY <1>4, <1>6, <4>1 DEF IdsOfList
      <3>3. \A i \in DOMAIN out : out[i] \in IdsOfList(out)
        BY DEF IdsOfList
      <3> QED
        BY <1>4, <3>1, <3>2, <3>3
    <2>2. DrainFits(new, n, ids)
      BY <1>2, <1>5, <1>6, <1>9, <1>10, <2>1 DEF DrainFits
    <2>3. DrainLeft(new, n) = {<<1>>} \cup ({2} \X LeftOf(a.it, n))
          /\ DrainLeft(d, n) = {<<1>>} \cup ({2} \X LeftOf(it, n))
      BY <1>1, <1>9, <1>10 DEF DrainLeft
    <2>4. PICK x \in LeftOf(it, n) : x \notin LeftOf(a.it, n)
      BY <1>5, <1>10
    <2>5. <<2, x>> \in DrainLeft(d, n) /\ <<2, x>> \notin DrainLeft(new, n)
      BY <2>3, <2>4
    <2>6. DrainLeft(new, n) \subseteq DrainLeft(d, n)
      BY <1>5, <1>10, <2>3
    <2> QED
      BY <1>3, <1>9, <2>2, <2>5, <2>6
  <1>11. CASE ~a.ok
    <2>1. DrainFits(new, n, ids)
      BY <1>2, <1>5, <1>6, <1>9, <1>11 DEF DrainFits
    <2>2. DrainLeft(new, n) = {} /\ <<1>> \in DrainLeft(d, n)
      BY <1>1, <1>9, <1>11 DEF DrainLeft
    <2> QED
      BY <1>3, <1>9, <2>1, <2>2
  <1> QED
    BY <1>5, <1>10, <1>11


\* ExpandPostings gives all the ids an iterator has, in order, whether it is of a list, a
\* union, an intersection or a difference.
THEOREM GivenFacts ==
    ASSUME NEW n \in Nat, NEW it \in Postings, Fits(it, n)
    PROVE  ListOf(Given(it), n) /\ IdsOfList(Given(it)) = Rest(it) /\ Expand(it) = Rest(it)
  <1> DEFINE ids == Rest(it)
             a == Advance(it)
             begun == [r |-> a, out |-> <<>>]
             Inv == {d \in Drains : DrainFits(d, n, ids)}
             m == [d \in Drains |-> DrainLeft(d, n)]
             end == While(Drains, HasNext, TakeNext)[begun]
  <1>1. begun \in Inv
    <2>1. /\ a.it \in Postings /\ a.ok \in BOOLEAN
          /\ a.ok => Fits(a.it, n) /\ {a.it.cur} \cup Rest(a.it) = Rest(it)
          /\ ~a.ok => Rest(it) = {}
      BY AdvanceFacts
    <2>2. a \in AnswersOfPostings
      <3>1. PICK x, b : a = [it |-> x, ok |-> b]
        BY AdvanceIsAnAnswer DEF IsAnswer
      <3> HIDE DEF a
      <3> QED
        BY <2>1, <3>1 DEF AnswersOfPostings
    <2> HIDE DEF a
    <2>3. <<>> \in Seq(Nat) /\ DOMAIN <<>> = {}
      BY EmptySeq
    <2>4. ListOf(<<>>, n) /\ IdsOfList(<<>>) = {}
      BY <2>3 DEF ListOf, InOrder, IdsOfList
    <2>5. begun \in Drains /\ begun.r = a /\ begun.out = <<>>
      BY <2>2, <2>3, DrainMoved DEF Drains, AnswersOfPostings
    <2> HIDE DEF begun
    <2> QED
      BY <2>1, <2>3, <2>4, <2>5 DEF DrainFits
  <1>2. ASSUME NEW d \in Inv PROVE IsFiniteSet(m[d])
    <2>1. d \in Drains /\ DrainFits(d, n, ids) /\ m[d] = DrainLeft(d, n)
      OBVIOUS
    <2>2. CASE d.r.ok
      <3>1. d.r.it \in Postings /\ Fits(d.r.it, n)
        BY <2>1, <2>2 DEF Drains, DrainFits
      <3>2. IsFiniteSet(LeftOf(d.r.it, n)) /\ IsFiniteSet({2}) /\ IsFiniteSet({<<1>>})
        BY <3>1, FitsType, FS_Singleton
      <3>3. IsFiniteSet({2} \X LeftOf(d.r.it, n))
        BY <3>2, FS_Product
      <3> QED
        BY <2>1, <2>2, <3>2, <3>3, FS_Union DEF DrainLeft
    <2>3. CASE ~d.r.ok
      BY <2>1, <2>3, FS_EmptySet DEF DrainLeft
    <2> QED
      BY <2>2, <2>3
  <1>3. ASSUME NEW d \in Inv, HasNext[d]
        PROVE  /\ TakeNext[d] \in Inv
               /\ m[TakeNext[d]] \subseteq m[d] /\ m[TakeNext[d]] # m[d]
    <2>1. d \in Drains /\ DrainFits(d, n, ids)
      OBVIOUS
    <2> DEFINE new == TakeNext[d]
    <2> HIDE DEF ids
    <2>2. /\ new \in Drains /\ DrainFits(new, n, ids)
          /\ DrainLeft(new, n) \subseteq DrainLeft(d, n) /\ DrainLeft(new, n) # DrainLeft(d, n)
      BY <1>3, <2>1, TakeFacts
    <2> HIDE DEF new
    <2>3. m[new] = DrainLeft(new, n) /\ m[d] = DrainLeft(d, n)
      BY <2>1, <2>2
    <2> QED
      BY <2>2, <2>3 DEF new
  <1>4. Inv \in SUBSET Drains
    OBVIOUS
  <1> HIDE DEF Inv, m, begun
  <1>5. end \in Inv /\ ~HasNext[end]
    BY <1>1, <1>2, <1>3, <1>4, LoopRule
  <1>6. Given(it) = end.out
    BY DEF Given, begun
  <1> HIDE DEF end
  <1>7. ListOf(Given(it), n) /\ IdsOfList(Given(it)) = ids
    BY <1>5, <1>6 DEF Inv, HasNext, DrainFits
  <1>8. Expand(it) = IdsOfList(Given(it))
    BY DEF Expand, ToSet, IdsOfList
  <1> QED
    BY <1>7, <1>8

-----------------------------------------------------------------------------
(* What a matcher finds.                                                   *)

\* The lists of the values of a matcher, and the ids that are in any of them.
SeqOfLists == Seq(Seq(Nat))
ListsOf(ls, n) == ls \in SeqOfLists /\ \A k \in DOMAIN ls : ListOf(ls[k], n)
IdsOfLists(ls) == UNION {IdsOfList(ls[k]) : k \in DOMAIN ls}

LEMMA ListPostingsFacts ==
    ASSUME NEW n \in Nat, NEW l, ListOf(l, n)
    PROVE  LET it == ListPostings(l)
           IN  it \in Lists /\ ListFits(it, n) /\ ListRest(it) = IdsOfList(l) /\ it.cur = 0
  <1> DEFINE it == ListPostings(l)
  <1>1. /\ l \in Seq(Nat) /\ Len(l) \in Nat /\ DOMAIN l = 1 .. Len(l)
        /\ \A i \in 1 .. Len(l) : l[i] \in Nat /\ l[i] <= n
    BY ListOfType
  <1>2. it \in Lists /\ it.list = l /\ it.pos = 0 /\ it.cur = 0
    BY <1>1 DEF ListPostings, Lists
  <1> HIDE DEF it
  <1>3. ListLeft(it) = 1 .. Len(l)
    BY <1>1, <1>2 DEF ListLeft
  <1>4. ListRest(it) = IdsOfList(l)
    BY <1>1, <1>2, <1>3 DEF ListRest, IdsOfList
  <1>5. \A y \in ListRest(it) : y \in Nat
    BY <1>1, <1>4 DEF IdsOfList
  <1>6. ListFits(it, n)
    BY <1>1, <1>2, <1>5 DEF ListOf, ListFits
  <1> QED
    BY <1>2, <1>4, <1>6 DEF it

\* A list that has values is not empty, and the iterator of it has a next one.
LEMMA FirstFacts ==
    ASSUME NEW n \in Nat, NEW l, ListOf(l, n), l # <<>>
    PROVE  LET r == ListNext(ListPostings(l))
           IN  r.ok = TRUE /\ r.it \in Lists /\ ListFits(r.it, n) /\ ListHere(r.it) = IdsOfList(l)
  <1> DEFINE it == ListPostings(l)
             r == ListNext(it)
  <1>1. it \in Lists /\ ListFits(it, n) /\ ListRest(it) = IdsOfList(l)
    BY ListPostingsFacts
  <1> HIDE DEF it
  <1>2. /\ r.it \in Lists /\ r.ok \in BOOLEAN
        /\ r.ok => ListFits(r.it, n) /\ ListHere(r.it) = ListRest(it)
        /\ ~r.ok => ListRest(it) = {}
    BY <1>1, ListNextFacts
  <1>3. IdsOfList(l) # {}
    <2>1. l \in Seq(Nat) /\ DOMAIN l = 1 .. Len(l) /\ Len(l) \in Nat
      BY ListOfType
    <2>2. Len(l) # 0
      BY <2>1, EmptySeq
    <2>3. 1 \in DOMAIN l
      BY <2>1, <2>2
    <2> QED
      BY <2>3 DEF IdsOfList
  <1> HIDE DEF r
  <1> QED
    BY <1>1, <1>2, <1>3 DEF r, it

LEMMA FoundFacts ==
    ASSUME NEW n \in Nat, NEW ls, ListsOf(ls, n)
    PROVE  LET it == Found(ls)
           IN  it \in Leaves /\ LeafFits(it, n) /\ LeafRest(it) = IdsOfLists(ls) /\ it.cur = 0
  <1> DEFINE L == Len(ls)
             its == [k \in DOMAIN ls |-> IF ls[k] = <<>> THEN EmptyPostings ELSE ListPostings(ls[k])]
             first == [k \in DOMAIN its |-> IF its[k].kind = "list" THEN ListNext(its[k]) ELSE No(its[k])]
             subs == [k \in DOMAIN first |-> IF first[k].ok THEN first[k].it ELSE EmptyPostings]
             new == [kind |-> "merged", started |-> FALSE, cur |-> 0, subs |-> subs]
  <1>1. L \in Nat /\ DOMAIN ls = 1 .. L /\ \A k \in 1 .. L : ListOf(ls[k], n)
    BY LenProperties DEF ListsOf, SeqOfLists
  <1>2. DOMAIN its = 1 .. L /\ DOMAIN first = 1 .. L /\ DOMAIN subs = 1 .. L /\ Len(its) = L
    BY <1>1
  <1>3. \A k \in 1 .. L : /\ its[k] = IF ls[k] = <<>> THEN EmptyPostings ELSE ListPostings(ls[k])
                          /\ first[k] = IF its[k].kind = "list" THEN ListNext(its[k]) ELSE No(its[k])
                          /\ subs[k] = IF first[k].ok THEN first[k].it ELSE EmptyPostings
    BY <1>2
  <1>4. IdsOfList(<<>>) = {}
    BY EmptySeq DEF IdsOfList
  <1>5. Found(ls) = CASE L = 1 -> its[1]
                      [] L # 1 /\ (\A k \in DOMAIN first : ~first[k].ok) -> EmptyPostings
                      [] OTHER -> new
    BY <1>2 DEF Found, Merge
  <1> HIDE DEF its, first, subs
  <1>6. ASSUME NEW k \in 1 .. L, ls[k] = <<>>
        PROVE  its[k] = EmptyPostings /\ ~first[k].ok /\ subs[k] = EmptyPostings
    <2>1. its[k] = EmptyPostings /\ its[k].kind # "list"
      BY <1>3, <1>6, LeafKinds
    <2>2. first[k] = No(its[k])
      BY <1>3, <2>1
    <2>3. first[k].ok = FALSE
      BY <2>2 DEF No
    <2> QED
      BY <1>3, <2>1, <2>3
  <1>7. ASSUME NEW k \in 1 .. L, ls[k] # <<>>
        PROVE  /\ its[k] = ListPostings(ls[k]) /\ first[k].ok = TRUE
               /\ subs[k] \in Lists /\ ListFits(subs[k], n) /\ ListHere(subs[k]) = IdsOfList(ls[k])
    <2>1. its[k] = ListPostings(ls[k])
      BY <1>3, <1>7
    <2>2. its[k] \in Lists
      BY <1>1, <2>1, ListPostingsFacts
    <2>3. first[k] = ListNext(its[k])
      BY <1>3, <2>2, LeafKinds
    <2>4. /\ first[k].ok = TRUE /\ first[k].it \in Lists /\ ListFits(first[k].it, n)
          /\ ListHere(first[k].it) = IdsOfList(ls[k])
      BY <1>1, <1>7, <2>1, <2>3, FirstFacts
    <2> QED
      BY <1>3, <2>1, <2>4
  <1>8. CASE L = 1
    <2>1. Found(ls) = its[1] /\ 1 \in 1 .. L /\ IdsOfLists(ls) = IdsOfList(ls[1])
      BY <1>1, <1>5, <1>8 DEF IdsOfLists
    <2>2. CASE ls[1] = <<>>
      BY <1>4, <1>6, <2>1, <2>2, LeafKinds DEF Leaves, LeafFits, LeafRest
    <2>3. CASE ls[1] # <<>>
      <3>1. Found(ls) = ListPostings(ls[1])
        BY <1>7, <2>1, <2>3
      <3> DEFINE it == ListPostings(ls[1])
      <3>2. it \in Lists /\ ListFits(it, n) /\ ListRest(it) = IdsOfList(ls[1]) /\ it.cur = 0
        BY <1>1, <2>1, ListPostingsFacts
      <3> HIDE DEF it
      <3>3. it \in Leaves /\ LeafFits(it, n) /\ LeafRest(it) = IdsOfList(ls[1]) /\ it.cur = 0
        BY <3>2, LeafKinds DEF Leaves, LeafFits, LeafRest
      <3> QED
        BY <2>1, <3>1, <3>3 DEF it
    <2> QED
      BY <2>2, <2>3
  <1>9. CASE L # 1 /\ \A k \in DOMAIN first : ~first[k].ok
    <2>1. Found(ls) = EmptyPostings
      BY <1>5, <1>9
    <2>2. \A k \in 1 .. L : ls[k] = <<>>
      BY <1>2, <1>7, <1>9
    <2>3. IdsOfLists(ls) = {}
      BY <1>1, <1>4, <2>2 DEF IdsOfLists
    <2> QED
      BY <2>1, <2>3, LeafKinds DEF Leaves, LeafFits, LeafRest
  <1>10. CASE L # 1 /\ ~\A k \in DOMAIN first : ~first[k].ok
    <2>1. Found(ls) = new
      BY <1>5, <1>10
    <2>2. subs \in HeapSubs
      <3>1. \A k \in 1 .. L : subs[k] \in Lists \cup {EmptyPostings}
        BY <1>6, <1>7
      <3>2. subs = [k \in 1 .. L |-> subs[k]]
        BY <1>2 DEF subs
      <3>3. subs \in [1 .. L -> Lists \cup {EmptyPostings}]
        BY <3>1, <3>2
      <3> QED
        BY <1>1, <3>3, FunctionIsSeq DEF HeapSubs
    <2>3. /\ new \in MergedIts /\ new.kind = "merged" /\ new.subs = subs /\ new.cur = 0
          /\ new.started = FALSE
      BY <2>2 DEF MergedIts, HeapSubs
    <2> HIDE DEF new
    <2>4. InHeap(new) = {k \in 1 .. L : ls[k] # <<>>}
      <3>1. \A k \in 1 .. L : ls[k] = <<>> => subs[k].kind # "list"
        BY <1>6, LeafKinds
      <3>2. \A k \in 1 .. L : ls[k] # <<>> => subs[k].kind = "list"
        BY <1>7, LeafKinds
      <3> QED
        BY <1>2, <2>3, <3>1, <3>2 DEF InHeap
    <2>5. \A k \in InHeap(new) : /\ k \in 1 .. L /\ new.subs[k] \in Lists /\ ListFits(new.subs[k], n)
                                 /\ ListHere(new.subs[k]) = IdsOfList(ls[k])
                                 /\ new.subs[k].cur \in Nat
      BY <1>7, <2>3, <2>4, ListType
    <2>6. HeapHere(new) = IdsOfLists(ls)
      <3>1. \A k \in 1 .. L : k \notin InHeap(new) => IdsOfList(ls[k]) = {}
        BY <1>4, <2>4
      <3>2. \A y \in HeapHere(new) : y \in IdsOfLists(ls)
        BY <1>1, <2>5 DEF HeapHere, IdsOfLists
      <3>3. ASSUME NEW y \in IdsOfLists(ls) PROVE y \in HeapHere(new)
        <4>1. PICK k \in 1 .. L : y \in IdsOfList(ls[k])
          BY <1>1 DEF IdsOfLists
        <4>2. k \in InHeap(new)
          BY <3>1, <4>1
        <4> QED
          BY <2>5, <4>1, <4>2 DEF HeapHere
      <3> QED
        BY <3>2, <3>3
    <2>7. MergedFits(new, n) /\ MergedRest(new) = IdsOfLists(ls)
      BY <2>3, <2>5, <2>6 DEF MergedFits, MergedRest, HeapFits
    <2> QED
      BY <2>1, <2>3, <2>7 DEF Leaves, LeafFits, LeafRest
  <1> QED
    BY <1>8, <1>9, <1>10

-----------------------------------------------------------------------------
(* The end of a query.                                                     *)

\* What has been found for some matchers.
AllFound(its, n) == /\ its \in SeqOfLeaves
                    /\ \A k \in DOMAIN its : LeafFits(its[k], n) /\ its[k].cur = 0

LEMMA SeqOfLeavesType ==
    ASSUME NEW its \in SeqOfLeaves
    PROVE  /\ Len(its) \in Nat /\ DOMAIN its = 1 .. Len(its)
           /\ \A k \in 1 .. Len(its) : its[k] \in Leaves
           /\ its = <<>> <=> Len(its) = 0
  BY LenProperties, ElementOfSeq, EmptySeq DEF SeqOfLeaves

\* The ids that were found for each of them.
Common(its) == IF its = <<>> THEN {} ELSE {y \in Nat : \A k \in DOMAIN its : y \in LeafRest(its[k])}

LEMMA IntersectFacts ==
    ASSUME NEW n \in Nat, NEW its, AllFound(its, n)
    PROVE  LET it == Intersect(its)
           IN  it \in Postings /\ Fits(it, n) /\ Rest(it) = Common(its)
  <1> DEFINE new == [kind |-> "intersect", subs |-> its, cur |-> 0]
             cond == its = <<>> \/ (Len(its) > 1 /\ EmptyPostings \in ToSet(its))
  <1>1. /\ its \in SeqOfLeaves /\ Len(its) \in Nat /\ DOMAIN its = 1 .. Len(its)
        /\ \A k \in 1 .. Len(its) : its[k] \in Leaves /\ LeafFits(its[k], n) /\ its[k].cur = 0
        /\ its = <<>> <=> Len(its) = 0
    BY SeqOfLeavesType DEF AllFound
  <1>2. Intersect(its) = CASE cond -> EmptyPostings [] Len(its) = 1 -> its[1] [] OTHER -> new
    BY DEF Intersect
  <1>3. EmptyPostings \in Postings /\ Fits(EmptyPostings, n) /\ Rest(EmptyPostings) = {}
    BY LeafKinds DEF Postings, Leaves, Fits, LeafFits, Rest, LeafRest
  <1>4. CASE cond
    <2>1. Common(its) = {}
      <3>1. CASE its = <<>>
        BY <3>1 DEF Common
      <3>2. CASE EmptyPostings \in ToSet(its)
        <4>1. PICK k \in DOMAIN its : its[k] = EmptyPostings
          BY <3>2 DEF ToSet
        <4>2. LeafRest(its[k]) = {}
          BY <4>1, LeafKinds DEF LeafRest
        <4> QED
          BY <4>2 DEF Common
      <3> QED
        BY <1>4, <3>1, <3>2
    <2>2. Intersect(its) = EmptyPostings
      <3> HIDE DEF cond, new
      <3> QED
        BY <1>1, <1>2, <1>4 DEF cond
    <2> QED
      BY <1>3, <2>1, <2>2
  <1>5. CASE ~cond /\ Len(its) = 1
    <2>1. Intersect(its) = its[1] /\ 1 \in 1 .. Len(its)
      <3> HIDE DEF cond, new
      <3> QED
        BY <1>2, <1>5
    <2>2. its[1] \in Leaves /\ LeafFits(its[1], n) /\ its[1].kind # "intersect" /\ its[1].kind # "removed"
      BY <1>1, <2>1, PostingsKinds
    <2>3. Fits(its[1], n) /\ Rest(its[1]) = LeafRest(its[1])
      BY <2>2 DEF Fits, Rest
    <2>4. \A y \in LeafRest(its[1]) : y \in Nat
      BY <2>2, LeafType
    <2>5. its # <<>> /\ DOMAIN its = {1}
      BY <1>1, <1>5
    <2>6. Common(its) = LeafRest(its[1])
      BY <2>4, <2>5 DEF Common
    <2> QED
      BY <2>1, <2>2, <2>3, <2>6 DEF Postings
  <1>6. CASE ~cond /\ Len(its) # 1
    <2>1. Intersect(its) = new
      <3> HIDE DEF cond, new
      <3> QED
        BY <1>2, <1>6
    <2>2. new \in Intersections /\ new.subs = its /\ new.cur = 0 /\ new.kind = "intersect"
      BY <1>1 DEF Intersections, SeqOfLeaves
    <2> HIDE DEF new
    <2>3. its # <<>> /\ Len(its) > 1 /\ EmptyPostings \notin ToSet(its)
      BY <1>1, <1>6
    <2>4. \A k \in DOMAIN its : its[k] # EmptyPostings
      BY <2>3 DEF ToSet
    <2>5. IntersectFits(new, n)
      BY <1>1, <2>2, <2>3, <2>4 DEF IntersectFits
    <2>6. IntersectRest(new) = Common(its)
      BY <2>2, <2>3 DEF IntersectRest, Common
    <2> QED
      BY <2>1, <2>2, <2>5, <2>6 DEF Postings, Fits, Rest
  <1> QED
    BY <1>4, <1>5, <1>6

LEMMA WithoutFacts ==
    ASSUME NEW n \in Nat, NEW full \in Postings, Fits(full, n),
           NEW drop \in Leaves, LeafFits(drop, n)
    PROVE  LET it == Without(full, drop)
           IN  it \in Postings /\ Fits(it, n) /\ Rest(it) = Rest(full) \ LeafRest(drop)
  <1> DEFINE g == Given(full)
             l == ListPostings(g)
             new == Removed(g, drop)
  <1>1. CASE EmptyPostings \in {full, drop}
    <2>1. Without(full, drop) = full
      BY <1>1 DEF Without
    <2>2. Rest(EmptyPostings) = {} /\ LeafRest(EmptyPostings) = {}
      BY LeafKinds DEF Rest, LeafRest
    <2>3. Rest(full) = Rest(full) \ LeafRest(drop)
      BY <1>1, <2>2
    <2> QED
      BY <2>1, <2>3
  <1>2. CASE EmptyPostings \notin {full, drop}
    <2>1. Without(full, drop) = new
      BY <1>2 DEF Without
    <2>2. ListOf(g, n) /\ IdsOfList(g) = Rest(full)
      BY GivenFacts
    <2> HIDE DEF g
    <2>3. l \in Lists /\ ListFits(l, n) /\ ListRest(l) = Rest(full)
      BY <2>2, ListPostingsFacts
    <2>4. new = [kind |-> "removed", full |-> l, remove |-> drop, cur |-> 0,
                 started |-> FALSE, fok |-> FALSE, rok |-> FALSE]
      BY DEF Removed
    <2> HIDE DEF l, new
    <2>5. /\ new \in Removals /\ new.full = l /\ new.remove = drop /\ new.cur = 0
          /\ ~new.started /\ new.kind = "removed"
      BY <2>3, <2>4 DEF Removals
    <2>6. FullIds(new) = Rest(full) /\ DropIds(new) = LeafRest(drop)
      BY <2>3, <2>5 DEF FullIds, DropIds
    <2>7. \A y \in Rest(full) : y \in Nat
      BY FitsType
    <2>8. RemovedFits(new, n)
      BY <2>3, <2>5, <2>6, <2>7 DEF RemovedFits
    <2> QED
      BY <2>1, <2>5, <2>6, <2>8 DEF Postings, Fits, Rest, RemovedRest
  <1> QED
    BY <1>1, <1>2

\* The ids that were found for any of them.
Dropped(drops) == UNION {LeafRest(drops[k]) : k \in DOMAIN drops}

LEMMA DropMoved ==
    ASSUME NEW T, NEW U, NEW i \in T, NEW ds \in U
    PROVE  LET new == [it |-> i, drops |-> ds]
           IN  new \in [it : T, drops : U] /\ new.it = i /\ new.drops = ds
  OBVIOUS

LEMMA TailFacts ==
    ASSUME NEW n \in Nat, NEW drops, AllFound(drops, n), drops # <<>>
    PROVE  /\ Head(drops) \in Leaves /\ LeafFits(Head(drops), n) /\ AllFound(Tail(drops), n)
           /\ Dropped(drops) = LeafRest(Head(drops)) \cup Dropped(Tail(drops))
           /\ Len(Tail(drops)) = Len(drops) - 1 /\ Len(drops) \in Nat \ {0}
  <1> DEFINE L == Len(drops)
             tail == Tail(drops)
  <1>1. /\ drops \in SeqOfLeaves /\ L \in Nat /\ DOMAIN drops = 1 .. L /\ L # 0
        /\ \A k \in 1 .. L : drops[k] \in Leaves /\ LeafFits(drops[k], n) /\ drops[k].cur = 0
    BY SeqOfLeavesType DEF AllFound
  <1>2. Head(drops) = drops[1] /\ 1 \in 1 .. L
    BY <1>1, HeadTailProperties DEF SeqOfLeaves
  <1>3. tail \in SeqOfLeaves /\ Len(tail) = L - 1 /\ \A k \in 1 .. (L - 1) : tail[k] = drops[k + 1]
    BY <1>1, HeadTailProperties DEF SeqOfLeaves
  <1> HIDE DEF tail
  <1>4. DOMAIN tail = 1 .. (L - 1)
    BY <1>3, SeqOfLeavesType
  <1>5. \A k \in 1 .. (L - 1) : k + 1 \in 1 .. L
    BY <1>1
  <1>6. AllFound(tail, n)
    BY <1>1, <1>3, <1>4, <1>5 DEF AllFound
  <1>7. \A y \in Dropped(drops) : y \in LeafRest(drops[1]) \cup Dropped(tail)
    <2>1. ASSUME NEW k \in 1 .. L, NEW y \in LeafRest(drops[k])
          PROVE  y \in LeafRest(drops[1]) \cup Dropped(tail)
      <3>1. CASE k = 1
        BY <2>1, <3>1
      <3>2. CASE k # 1
        <4>1. k - 1 \in 1 .. (L - 1) /\ (k - 1) + 1 = k
          BY <1>1, <3>2
        <4>2. tail[k - 1] = drops[k]
          BY <1>3, <4>1
        <4> QED
          BY <1>4, <2>1, <4>1, <4>2 DEF Dropped
      <3> QED
        BY <3>1, <3>2
    <2> QED
      BY <1>1, <2>1 DEF Dropped
  <1>8. \A y \in LeafRest(drops[1]) \cup Dropped(tail) : y \in Dropped(drops)
    BY <1>1, <1>2, <1>3, <1>4, <1>5 DEF Dropped
  <1>9. Dropped(drops) = LeafRest(drops[1]) \cup Dropped(tail)
    BY <1>7, <1>8
  <1> QED
    BY <1>1, <1>2, <1>3, <1>6, <1>9 DEF tail

LEMMA SubtractionFacts ==
    ASSUME NEW n \in Nat, NEW full \in Postings, Fits(full, n), NEW drops, AllFound(drops, n)
    PROVE  LET it == While(Subtractions, DropsLeft, DropNext)[[it |-> full, drops |-> drops]].it
           IN  it \in Postings /\ Fits(it, n) /\ Rest(it) = Rest(full) \ Dropped(drops)
  <1> DEFINE ids == Rest(full) \ Dropped(drops)
             begun == [it |-> full, drops |-> drops]
             Inv == {s \in Subtractions : /\ Fits(s.it, n) /\ AllFound(s.drops, n)
                                          /\ Rest(s.it) \ Dropped(s.drops) = ids}
             m == [s \in Subtractions |-> 1 .. Len(s.drops)]
             end == While(Subtractions, DropsLeft, DropNext)[begun]
  <1>1. begun \in Inv
    <2>1. drops \in SeqOfLeaves
      BY DEF AllFound
    <2>2. begun \in Subtractions /\ begun.it = full /\ begun.drops = drops
      BY <2>1, DropMoved DEF Subtractions, SeqOfLeaves
    <2> QED
      BY <2>2
  <1>2. ASSUME NEW s \in Inv PROVE IsFiniteSet(m[s])
    <2>1. s.drops \in SeqOfLeaves
      BY DEF AllFound
    <2>2. 1 \in Int /\ Len(s.drops) \in Int
      BY <2>1, SeqOfLeavesType
    <2>3. IsFiniteSet(1 .. Len(s.drops))
      BY <2>2, FS_Interval
    <2> QED
      BY <2>3
  <1>3. ASSUME NEW s \in Inv, DropsLeft[s]
        PROVE  /\ DropNext[s] \in Inv
               /\ m[DropNext[s]] \subseteq m[s] /\ m[DropNext[s]] # m[s]
    <2>1. s \in Subtractions /\ Fits(s.it, n) /\ AllFound(s.drops, n) /\ s.it \in Postings
          /\ Rest(s.it) \ Dropped(s.drops) = ids
      BY DEF Subtractions
    <2>2. s.drops # <<>>
      BY <1>3, <2>1 DEF DropsLeft
    <2> DEFINE i == Without(s.it, Head(s.drops))
               tail == Tail(s.drops)
               new == [it |-> i, drops |-> tail]
    <2>3. DropNext[s] = new
      BY <2>1 DEF DropNext
    <2>4. /\ Head(s.drops) \in Leaves /\ LeafFits(Head(s.drops), n) /\ AllFound(tail, n)
          /\ Dropped(s.drops) = LeafRest(Head(s.drops)) \cup Dropped(tail)
          /\ Len(tail) = Len(s.drops) - 1 /\ Len(s.drops) \in Nat \ {0}
      BY <2>1, <2>2, TailFacts
    <2>5. i \in Postings /\ Fits(i, n) /\ Rest(i) = Rest(s.it) \ LeafRest(Head(s.drops))
      BY <2>1, <2>4, WithoutFacts
    <2> HIDE DEF i, tail
    <2>6. new \in Subtractions /\ new.it = i /\ new.drops = tail
      BY <2>4, <2>5, DropMoved DEF Subtractions, AllFound, SeqOfLeaves
    <2> HIDE DEF new, ids
    <2>7. Rest(i) \ Dropped(tail) = ids
      BY <2>1, <2>4, <2>5
    <2>8. new \in Inv
      BY <2>4, <2>5, <2>6, <2>7
    <2>9. m[new] = 1 .. Len(tail) /\ m[s] = 1 .. Len(s.drops)
      BY <2>1, <2>6
    <2>10. Len(s.drops) \in m[s] /\ Len(s.drops) \notin m[new] /\ m[new] \subseteq m[s]
      BY <2>4, <2>9
    <2> QED
      BY <2>3, <2>8, <2>10
  <1>4. Inv \in SUBSET Subtractions
    OBVIOUS
  <1> HIDE DEF Inv, m, begun
  <1>5. end \in Inv /\ ~DropsLeft[end]
    BY <1>1, <1>2, <1>3, <1>4, LoopRule
  <1> HIDE DEF end
  <1>6. end.drops = <<>>
    BY <1>5 DEF DropsLeft, Inv
  <1>7. Dropped(<<>>) = {}
    BY EmptySeq DEF Dropped
  <1>8. end.it \in Postings /\ Fits(end.it, n) /\ Rest(end.it) = ids
    BY <1>5, <1>6, <1>7 DEF Inv, Subtractions
  <1> QED
    BY <1>8 DEF end, begun

\* What has been found for each of some matchers, and the ids of all and of any of them.
ListsOfAll(its, n) == its \in Seq(SeqOfLists) /\ \A k \in DOMAIN its : ListsOf(its[k], n)
InAll(its) == IF its = <<>> THEN {} ELSE {y \in Nat : \A k \in DOMAIN its : y \in IdsOfLists(its[k])}
InAny(its) == UNION {IdsOfLists(its[k]) : k \in DOMAIN its}

LEMMA FoundForAll ==
    ASSUME NEW n \in Nat, NEW its, ListsOfAll(its, n)
    PROVE  LET found == [k \in DOMAIN its |-> Found(its[k])]
           IN  /\ AllFound(found, n) /\ Dropped(found) = InAny(its)
               /\ its # <<>> => Common(found) = InAll(its)
  <1> DEFINE L == Len(its)
             found == [k \in DOMAIN its |-> Found(its[k])]
  <1>1. /\ L \in Nat /\ DOMAIN its = 1 .. L /\ \A k \in 1 .. L : ListsOf(its[k], n)
        /\ its = <<>> <=> L = 0
    BY LenProperties, EmptySeq DEF ListsOfAll
  <1>2. \A k \in 1 .. L : /\ Found(its[k]) \in Leaves /\ LeafFits(Found(its[k]), n)
                          /\ LeafRest(Found(its[k])) = IdsOfLists(its[k]) /\ Found(its[k]).cur = 0
    BY <1>1, FoundFacts
  <1>3. found \in [1 .. L -> Leaves] /\ DOMAIN found = 1 .. L /\ \A k \in 1 .. L : found[k] = Found(its[k])
    BY <1>1, <1>2
  <1> HIDE DEF found
  <1>4. found \in SeqOfLeaves /\ Len(found) = L
    BY <1>1, <1>3, FunctionIsSeq DEF SeqOfLeaves
  <1>5. AllFound(found, n)
    BY <1>2, <1>3, <1>4 DEF AllFound
  <1>6. Dropped(found) = InAny(its)
    BY <1>1, <1>2, <1>3 DEF Dropped, InAny
  <1>7. ASSUME its # <<>> PROVE Common(found) = InAll(its)
    <2>1. L # 0
      BY <1>1, <1>7
    <2>2. found # <<>>
      BY <1>1, <1>4, <2>1, SeqOfLeavesType
    <2> QED
      BY <1>1, <1>2, <1>3, <1>7, <2>2 DEF Common, InAll
  <1> QED
    BY <1>5, <1>6, <1>7 DEF found

\* What the iterators that PostingsForMatchers assembles and ExpandPostings drains give,
\* from the lists a query has found: the ids that are in a list of each of the matchers
\* that select, of all ids when there are only others, without those that are in a list of
\* one of the others.
THEOREM EvaluateIs ==
    ASSUME NEW n \in Nat, NEW its, ListsOfAll(its, n), NEW notIts, ListsOfAll(notIts, n),
           NEW all, ListOf(all, n)
    PROVE  Evaluate(its, notIts, all) =
               (IF its = <<>> /\ notIts # <<>> THEN IdsOfList(all) ELSE InAll(its)) \ InAny(notIts)
  <1> DEFINE only == its = <<>> /\ notIts # <<>>
             found == [k \in DOMAIN its |-> Found(its[k])]
             whole == Found(<<all>>)
             base == IF only THEN <<whole>> ELSE found
             drops == [k \in DOMAIN notIts |-> Found(notIts[k])]
             it == While(Subtractions, DropsLeft, DropNext)[[it |-> Intersect(base), drops |-> drops]].it
  <1>1. AllFound(drops, n) /\ Dropped(drops) = InAny(notIts)
    BY FoundForAll
  <1>2. Evaluate(its, notIts, all) = Expand(it)
    BY DEF Evaluate
  <1>3. AllFound(base, n) /\ Common(base) = IF only THEN IdsOfList(all) ELSE InAll(its)
    <2>1. CASE only
      <3>1. <<all>> \in SeqOfLists /\ Len(<<all>>) = 1 /\ DOMAIN <<all>> = {1} /\ <<all>>[1] = all
        <4>1. all \in Seq(Nat)
          BY DEF ListOf
        <4> QED
          BY <4>1 DEF SeqOfLists
      <3>2. ListsOf(<<all>>, n) /\ IdsOfLists(<<all>>) = IdsOfList(all)
        BY <3>1 DEF ListsOf, IdsOfLists
      <3>3. whole \in Leaves /\ LeafFits(whole, n) /\ LeafRest(whole) = IdsOfList(all) /\ whole.cur = 0
        BY <3>2, FoundFacts
      <3> HIDE DEF whole
      <3>4. <<whole>> \in SeqOfLeaves /\ DOMAIN <<whole>> = {1} /\ <<whole>>[1] = whole /\ <<whole>> # <<>>
        BY <3>3 DEF SeqOfLeaves
      <3>5. \A y \in IdsOfList(all) : y \in Nat
        BY ListOfType DEF IdsOfList
      <3>6. AllFound(<<whole>>, n)
        BY <3>3, <3>4 DEF AllFound
      <3>7. Common(<<whole>>) = IdsOfList(all)
        BY <3>3, <3>4, <3>5 DEF Common
      <3> QED
        BY <2>1, <3>6, <3>7
    <2>2. CASE ~only
      <3>1. AllFound(found, n) /\ (its # <<>> => Common(found) = InAll(its))
        BY FoundForAll
      <3>2. CASE its # <<>>
        BY <2>2, <3>1, <3>2
      <3>3. CASE its = <<>>
        <4>1. DOMAIN its = {}
          BY <3>3, EmptySeq
        <4>2. found = <<>>
          <5>1. found \in SeqOfLeaves
            BY <3>1 DEF AllFound
          <5>2. DOMAIN found = {}
            BY <4>1
          <5> HIDE DEF found
          <5> QED
            BY <5>1, <5>2, SeqOfLeavesType
        <4> QED
          BY <2>2, <3>1, <3>3, <4>2 DEF Common, InAll
      <3> QED
        BY <3>2, <3>3
    <2> QED
      BY <2>1, <2>2
  <1> HIDE DEF base, drops
  <1> DEFINE i == Intersect(base)
  <1>4. i \in Postings /\ Fits(i, n) /\ Rest(i) = Common(base)
    BY <1>3, IntersectFacts
  <1> HIDE DEF i
  <1>5. it = While(Subtractions, DropsLeft, DropNext)[[it |-> i, drops |-> drops]].it
    BY DEF i
  <1>6. it \in Postings /\ Fits(it, n) /\ Rest(it) = Rest(i) \ Dropped(drops)
    BY <1>1, <1>4, <1>5, SubtractionFacts
  <1> HIDE DEF it
  <1>7. Expand(it) = Rest(it)
    BY <1>6, GivenFacts
  <1> QED
    BY <1>1, <1>2, <1>3, <1>4, <1>6, <1>7

-----------------------------------------------------------------------------
(* The index.                                                              *)

\* addFor adds the id to the list of a label and leaves the list in order.
THEOREM AddForFacts ==
    ASSUME NEW n \in Nat, NEW l, ListOf(l, n), NEW id \in Nat, id <= n
    PROVE  ListOf(AddFor(l, id), n) /\ IdsOfList(AddFor(l, id)) = IdsOfList(l) \cup {id}
  <1> DEFINE L == Len(l)
             S == {0} \cup {i \in DOMAIN l : l[i] <= id}
             P == Max(S)
             new == AddFor(l, id)
  <1>1. /\ l \in Seq(Nat) /\ L \in Nat /\ DOMAIN l = 1 .. L
        /\ \A i \in 1 .. L : l[i] \in Nat /\ l[i] <= n
        /\ \A i, j \in 1 .. L : i <= j => l[i] <= l[j]
    BY ListOfType
  <1>2. P \in S /\ \A x \in S : x <= P
    <2>1. S \in SUBSET Nat /\ S # {} /\ \A x \in S : x <= L
      BY <1>1
    <2> HIDE DEF S
    <2> QED
      BY <1>1, <2>1, MaxIs
  <1>3. new = [i \in 1 .. (L + 1) |-> IF i <= P THEN l[i] ELSE IF i = P + 1 THEN id ELSE l[i - 1]]
    BY DEF AddFor
  <1> HIDE DEF P
  <1>4. P \in 0 .. L /\ \A i \in 1 .. L : IF i <= P THEN l[i] <= id ELSE id < l[i]
    <2>1. P \in 0 .. L
      BY <1>1, <1>2
    <2>2. ASSUME NEW i \in 1 .. L PROVE IF i <= P THEN l[i] <= id ELSE id < l[i]
      <3>1. CASE i <= P
        <4>1. P \in 1 .. L /\ l[P] <= id
          BY <1>1, <1>2, <2>1, <3>1
        <4>2. l[i] <= l[P]
          BY <1>1, <3>1, <4>1
        <4>3. l[i] \in Nat /\ l[P] \in Nat
          BY <1>1, <4>1
        <4> QED
          BY <3>1, <4>1, <4>2, <4>3
      <3>2. CASE ~(i <= P)
        <4>1. i \notin S
          BY <1>2, <3>2
        <4>2. ~(l[i] <= id)
          BY <1>1, <4>1
        <4> QED
          BY <1>1, <3>2, <4>2
      <3> QED
        BY <3>1, <3>2
    <2> QED
      BY <2>1, <2>2
  <1> HIDE DEF S, new
  <1>5. DOMAIN new = 1 .. (L + 1)
    BY <1>3
  <1>6. ASSUME NEW i \in 1 .. (L + 1)
        PROVE  \/ i <= P /\ i \in 1 .. L /\ new[i] = l[i]
               \/ i = P + 1 /\ new[i] = id
               \/ i > P + 1 /\ i - 1 \in 1 .. L /\ new[i] = l[i - 1]
    <2>1. CASE i <= P
      BY <1>1, <1>3, <1>4, <2>1
    <2>2. CASE i = P + 1
      BY <1>1, <1>3, <1>4, <2>2
    <2>3. CASE i > P + 1
      <3>1. i - 1 \in 1 .. L /\ ~(i <= P) /\ i # P + 1
        BY <1>1, <1>4, <2>3
      <3> QED
        BY <1>3, <2>3, <3>1
    <2> QED
      BY <1>1, <1>4, <2>1, <2>2, <2>3
  <1>7. \A i \in 1 .. (L + 1) : new[i] \in Nat /\ new[i] <= n
    BY <1>1, <1>6
  <1>8. new \in Seq(Nat)
    <2>1. new = [i \in 1 .. (L + 1) |-> new[i]]
      BY <1>3
    <2>2. new \in [1 .. (L + 1) -> Nat] /\ L + 1 \in Nat
      BY <1>1, <1>7, <2>1
    <2> QED
      BY <2>2, FunctionIsSeq
  <1>9. InOrder(new)
    <2>1. ASSUME NEW i \in 1 .. (L + 1), NEW j \in 1 .. (L + 1), i <= j PROVE new[i] <= new[j]
      <3>1. CASE j <= P
        <4>1. i <= P /\ i \in 1 .. L /\ j \in 1 .. L
          BY <1>1, <1>4, <2>1, <3>1
        <4>2. new[i] = l[i] /\ new[j] = l[j]
          BY <1>3, <3>1, <4>1
        <4> QED
          BY <1>1, <2>1, <4>1, <4>2
      <3>2. CASE i > P + 1
        <4>1. /\ i - 1 \in 1 .. L /\ j - 1 \in 1 .. L /\ i - 1 <= j - 1
              /\ ~(i <= P) /\ i # P + 1 /\ ~(j <= P) /\ j # P + 1
          BY <1>1, <1>4, <2>1, <3>2
        <4>2. new[i] = l[i - 1] /\ new[j] = l[j - 1]
          BY <1>3, <4>1
        <4> QED
          BY <1>1, <4>1, <4>2
      <3>3. CASE ~(j <= P) /\ ~(i > P + 1)
        <4>1. new[i] <= id
          <5>1. i <= P \/ i = P + 1
            BY <1>1, <1>4, <3>3
          <5>2. CASE i <= P
            <6>1. i \in 1 .. L /\ new[i] = l[i]
              BY <1>1, <1>3, <1>4, <5>2
            <6> QED
              BY <1>4, <5>2, <6>1
          <5>3. CASE i = P + 1
            <6>1. new[i] = id
              BY <1>1, <1>3, <1>4, <5>3
            <6> QED
              BY <6>1
          <5> QED
            BY <5>1, <5>2, <5>3
        <4>2. id <= new[j]
          <5>1. CASE j = P + 1
            <6>1. new[j] = id
              BY <1>1, <1>3, <1>4, <5>1
            <6> QED
              BY <6>1
          <5>2. CASE j # P + 1
            <6>1. j - 1 \in 1 .. L /\ ~(j - 1 <= P)
              BY <1>1, <1>4, <3>3, <5>2
            <6>2. new[j] = l[j - 1]
              BY <1>3, <3>3, <5>2
            <6>3. id < l[j - 1] /\ l[j - 1] \in Nat
              BY <1>1, <1>4, <6>1
            <6> HIDE DEF L
            <6> QED
              BY <6>2, <6>3
          <5> QED
            BY <5>1, <5>2
        <4> QED
          BY <1>7, <4>1, <4>2
      <3> QED
        BY <3>1, <3>2, <3>3
    <2> QED
      BY <1>5, <2>1 DEF InOrder
  <1>10. \A y \in IdsOfList(new) : y \in IdsOfList(l) \cup {id}
    BY <1>1, <1>5, <1>6 DEF IdsOfList
  <1>11. ASSUME NEW y \in IdsOfList(l) \cup {id} PROVE y \in IdsOfList(new)
    <2>1. CASE y = id
      <3>1. P + 1 \in 1 .. (L + 1)
        BY <1>1, <1>4
      <3>2. new[P + 1] = id
        BY <1>3, <1>4, <3>1
      <3> QED
        BY <1>5, <2>1, <3>1, <3>2 DEF IdsOfList
    <2>2. CASE y \in IdsOfList(l)
      <3>1. PICK i \in 1 .. L : y = l[i]
        BY <1>1, <2>2 DEF IdsOfList
      <3>2. CASE i <= P
        <4>1. i \in 1 .. (L + 1) /\ new[i] = l[i]
          BY <1>1, <1>3, <3>2
        <4> QED
          BY <1>5, <3>1, <4>1 DEF IdsOfList
      <3>3. CASE ~(i <= P)
        <4>1. i + 1 \in 1 .. (L + 1) /\ ~(i + 1 <= P) /\ i + 1 # P + 1 /\ (i + 1) - 1 = i
          BY <1>1, <1>4, <3>3
        <4>2. new[i + 1] = l[i]
          BY <1>3, <4>1
        <4> QED
          BY <1>5, <3>1, <4>1, <4>2 DEF IdsOfList
      <3> QED
        BY <3>2, <3>3
    <2> QED
      BY <2>1, <2>2
  <1> QED
    BY <1>5, <1>7, <1>8, <1>9, <1>10, <1>11 DEF ListOf, new
=============================================================================
