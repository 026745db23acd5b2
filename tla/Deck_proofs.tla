---------------------------- MODULE Deck_proofs ----------------------------
(* What is proved of Deck, for any file, any number of edits and all        *)
(* operations.                                                              *)
(*                                                                          *)
(* Readers agree.  What is said of a document is monotone: the items known  *)
(* and those gone only grow, and what one deletion entails (the entries     *)
(* hidden, the places that go with a list) depends on the items known only. *)
(* So whoever has read the log has all its items and deletions and what     *)
(* they entail, and nobody has anything more.  What has to be shown is that *)
(* the library never changes what a deletion entails: a new item is new,    *)
(* the order of the entries there are stays, and a list is never a place.   *)
(*                                                                          *)
(* Decks stay whole.  As long as nothing is replaced an object has one      *)
(* entry and one place, made in one transaction, so that whoever knows one  *)
(* knows the other; and whoever knows the entry to be gone knows the place  *)
(* to be gone, since both go in one transaction, or the place goes with the *)
(* list it is in.  Both facts survive the merge of any two documents, and   *)
(* an undo that brings nothing back.                                        *)
(*                                                                          *)
(* No slide vanishes.  A history holds what its owner put in and what is    *)
(* still gone and was not brought back (UndoInv).  Some places of a slide,  *)
(* those that were never taken away with its content, are handed on: where  *)
(* one is gone a later one was made to replace it, by a move or by taking   *)
(* one back.  There is no last that is gone.                                *)
EXTENDS Deck, FiniteSetTheorems, SequenceTheorems, WellFoundedInduction, TLAPS

MadeBy(c, m) == {i \in DOMAIN m : i[1] = c}

\* The ids: the items of a client are numbered from one on.
IdsAreNumbered(m) ==
  /\ IsFiniteSet(DOMAIN m)
  /\ DOMAIN m \subseteq ({0} \cup Clients) \X Nat
  /\ Nothing \notin DOMAIN m /\ Slides \notin DOMAIN m
  /\ \A c \in Clients : \A i \in MadeBy(c, m) : i[2] <= Cardinality(MadeBy(c, m))

\* The library: an object has a chain of entries, which has the first; a place is
\* in a list; what redoes an item redoes one there is.
WellMade(m, ch) ==
  /\ DOMAIN ch \subseteq DOMAIN m
  /\ \A x \in DOMAIN ch : /\ ch[x] \in Seq(DOMAIN m) /\ x \in ToSet(ch[x])
                          /\ \A i \in ToSet(ch[x]) : m[i].kind = "entry" /\ m[i].of = x
  /\ \A i \in DOMAIN m :
       /\ m[i].kind \in {"entry", "place"} /\ m[i].of \in DOMAIN ch
       /\ m[i].redoes \in DOMAIN m \cup {Nothing}
       /\ m[i].kind = "place" =>
            m[i].within = Slides \/ (m[i].within \in DOMAIN m /\ m[m[i].within].kind = "entry")

\* Following what c has brought back comes to an end, at an item of the same kind.
RedoneIn(c, i, m) == {j \in DOMAIN m : j[1] = c /\ m[j].redoes = i}
FollowOf(c, f, m) ==
  f = [i \in DOMAIN m |->
         IF RedoneIn(c, i, m) = {} THEN i ELSE f[CHOOSE j \in RedoneIn(c, i, m) : TRUE]]
Good(c, f, m) ==
  \A i \in DOMAIN m : /\ f[i] \in DOMAIN m /\ m[f[i]].kind = m[i].kind
                      /\ f[i] = i \/ f[i][1] = c
Follows(c, m) == /\ \E f : FollowOf(c, f, m)
                 /\ \A f : FollowOf(c, f, m) => Good(c, f, m)

LibraryInv(m, ch) == IdsAreNumbered(m) /\ WellMade(m, ch) /\ \A c \in Clients : Follows(c, m)

\* A library that grows: what was made stays, and so does the order of the entries.
Before(s, i, j) == \E n, o \in DOMAIN s : n < o /\ s[n] = i /\ s[o] = j
Grows(m, ch, m2, ch2) ==
  /\ DOMAIN m \subseteq DOMAIN m2 /\ \A i \in DOMAIN m : m2[i] = m[i]
  /\ \A x \in DOMAIN ch : /\ x \in DOMAIN ch2
                          /\ \A i, j \in DOMAIN m : Before(ch2[x], i, j) <=> Before(ch[x], i, j)

\* Documents that know of every item what it is of.
Decks(m) == {d \in [items : SUBSET DOMAIN m, gone : SUBSET DOMAIN m] :
               /\ d.gone \subseteq d.items
               /\ \A i \in d.items : m[i].of \in d.items}
Changes(items) == [ins : SUBSET items, del : SUBSET items]

----------------------------------------------------------------------------
(* Numbers and sequences.                                                   *)

NatIsLess == {ss \in Nat \X Nat : ss[1] < ss[2]}
LEMMA NatIsLessWellFounded == IsWellFoundedOn(NatIsLess, Nat)
<1>1. NatIsLess = OpToRel(<, Nat)
  BY DEF NatIsLess, OpToRel
<1> QED BY <1>1, NatLessThanWellFounded

\* A set of numbers has a greatest one, when it has a bound.
LEMMA Greatest ==
  ASSUME NEW n \in Nat, NEW T \in SUBSET (1..n), T # {}
  PROVE  \E x \in T : \A y \in T : y <= x
<1> DEFINE U == {n - x : x \in T}
<1>1. \A x \in T : x \in Nat /\ n - x \in Nat
  OBVIOUS
<1>2. U \subseteq Nat /\ U # {}
  BY <1>1
<1> HIDE DEF U
<1>3. PICK u \in U : \A y \in U : ~(<<y, u>> \in NatIsLess)
  BY <1>2, NatIsLessWellFounded, WFMin
<1>4. ASSUME NEW y \in U PROVE u <= y
  <2>1. u \in Nat /\ y \in Nat
    BY <1>2
  <2>2. ~(y < u)
    BY <2>1, <1>3 DEF NatIsLess
  <2> QED BY <2>1, <2>2
<1>5. PICK x \in T : u = n - x
  BY DEF U
<1>6. ASSUME NEW y \in T PROVE y <= x
  <2>1. n - x <= n - y
    BY <1>4, <1>5 DEF U
  <2> QED BY <2>1, <1>1
<1> QED BY <1>6

\* What a function gives for a finite set is a finite set.
LEMMA ImageIsFinite ==
  ASSUME NEW S, IsFiniteSet(S), NEW f, DOMAIN f = S
  PROVE  IsFiniteSet({f[x] : x \in S})
<1> DEFINE T == {f[x] : x \in S}
           g == [x \in S |-> f[x]]
<1>1. g \in [S -> T]
  OBVIOUS
<1>2. \A t \in T : \E x \in S : g[x] = t
  OBVIOUS
<1>3. g \in Surjection(S, T)
  BY <1>1, <1>2 DEF Surjection
<1> QED BY <1>3, FS_Surjection

\* And of as many elements, when it gives different ones.
LEMMA ImageIsAsLarge ==
  ASSUME NEW S, IsFiniteSet(S), NEW f, DOMAIN f = S,
         \A x, y \in S : f[x] = f[y] => x = y
  PROVE  IsFiniteSet({f[x] : x \in S}) /\ Cardinality({f[x] : x \in S}) = Cardinality(S)
<1> DEFINE T == {f[x] : x \in S}
           g == [x \in S |-> f[x]]
<1>1. g \in [S -> T] /\ \A t \in T : \E x \in S : g[x] = t
  OBVIOUS
<1>2. g \in Surjection(S, T) /\ g \in Injection(S, T)
  BY <1>1 DEF Surjection, Injection, IsInjective
<1> QED BY <1>2, FS_Surjection

\* An element put into a sequence.
LEMMA Inserted ==
  ASSUME NEW S, NEW s \in Seq(S), NEW p \in 1..(Len(s) + 1), NEW e
  PROVE  InsertAt(s, p, e) = [k \in 1..(Len(s) + 1) |->
                                IF k < p THEN s[k] ELSE IF k = p THEN e ELSE s[k - 1]]
<1> DEFINE left  == SubSeq(s, 1, p - 1)
           right == SubSeq(s, p, Len(s))
           a == (left \o <<e>>) \o right
<1>1. left \in Seq(S) /\ Len(left) = p - 1 /\ \A k \in 1..(p - 1) : left[k] = s[k]
  OBVIOUS
<1>2. right \in Seq(S) /\ Len(right) = Len(s) - p + 1
      /\ \A k \in 1..(Len(s) - p + 1) : right[k] = s[p + k - 1]
  OBVIOUS
<1> DEFINE l == left \o <<e>>
<1> HIDE DEF left, right
<1>3. Len(s) \in Nat /\ p \in Int /\ 1 <= p /\ p <= Len(s) + 1
  OBVIOUS
<1>4. l \in Seq(S \cup {e}) /\ Len(l) = p /\ \A k \in 1..p : l[k] = IF k < p THEN s[k] ELSE e
  BY <1>1
<1>5. right \in Seq(S \cup {e})
  BY <1>2
<1> HIDE DEF l
<1>6. Len(l \o right) = Len(s) + 1 /\ DOMAIN (l \o right) = 1..(Len(s) + 1)
      /\ l \o right \in Seq(S \cup {e})
  <2>1. Len(l \o right) = Len(l) + Len(right)
    BY <1>4, <1>5
  <2>2. Len(l \o right) = Len(s) + 1
    BY <2>1, <1>2, <1>3, <1>4
  <2>3. l \o right \in Seq(S \cup {e})
    BY <1>4, <1>5
  <2> QED BY <2>2, <2>3
<1>7. ASSUME NEW k \in 1..(Len(s) + 1)
      PROVE  (l \o right)[k] = IF k < p THEN s[k] ELSE IF k = p THEN e ELSE s[k - 1]
  <2>1. k \in Int
    BY <1>3
  <2>2. CASE k <= p
    BY <2>2, <1>2, <1>4, <1>5
  <2>3. CASE k > p
    <3>1. (l \o right)[k] = right[k - p]
      BY <2>3, <1>2, <1>4, <1>5
    <3>2. right[k - p] = s[p + (k - p) - 1]
      BY <2>3, <1>2
    <3>3. p + (k - p) - 1 = k - 1
      BY <2>1, <1>3
    <3> QED BY <3>1, <3>2, <3>3, <2>1, <2>3, <1>3
  <2> DEFINE q == l \o right
  <2>4. k <= p => q[k] = IF k < p THEN s[k] ELSE IF k = p THEN e ELSE s[k - 1]
    BY <2>2
  <2>5. k > p => q[k] = IF k < p THEN s[k] ELSE IF k = p THEN e ELSE s[k - 1]
    BY <2>3
  <2> HIDE DEF q
  <2>6. q[k] = IF k < p THEN s[k] ELSE IF k = p THEN e ELSE s[k - 1]
    BY <2>1, <2>4, <2>5, <1>3
  <2> QED BY <2>6 DEF q
<1>8. l \o right = [k \in 1..(Len(s) + 1) |->
                      IF k < p THEN s[k] ELSE IF k = p THEN e ELSE s[k - 1]]
  <2>1. l \o right = [k \in 1..(Len(s) + 1) |-> (l \o right)[k]]
    <3> DEFINE q == l \o right
    <3>1. q \in Seq(S \cup {e}) /\ Len(q) = Len(s) + 1
      BY <1>6
    <3> HIDE DEF q
    <3>2. q = [k \in 1..(Len(s) + 1) |-> q[k]]
      BY <3>1
    <3> QED BY <3>2 DEF q
  <2> QED BY <2>1, <1>7
<1> QED BY <1>8 DEF InsertAt, l, left, right

\* It leaves the others in their order.
LEMMA InsertedKeepsOrder ==
  ASSUME NEW S, NEW s \in Seq(S), NEW p \in 1..(Len(s) + 1), NEW e, e \notin S
  PROVE  /\ InsertAt(s, p, e) \in Seq(S \cup {e})
         /\ ToSet(InsertAt(s, p, e)) = ToSet(s) \cup {e}
         /\ \A i, j \in S : Before(InsertAt(s, p, e), i, j) <=> Before(s, i, j)
<1> DEFINE N == Len(s)
           a == InsertAt(s, p, e)
<1>1. N \in Nat /\ DOMAIN s = 1..N /\ \A k \in 1..N : s[k] \in S
  OBVIOUS
<1>2. /\ DOMAIN a = 1..(N + 1)
      /\ \A k \in 1..(N + 1) : a[k] = IF k < p THEN s[k] ELSE IF k = p THEN e ELSE s[k - 1]
      /\ a = [k \in 1..(N + 1) |-> a[k]]
  BY Inserted
<1> HIDE DEF a, N
<1>3. p \in 1..(N + 1)
  BY DEF N
<1>4. \A k \in 1..N : \E q \in 1..(N + 1) : q = (IF k < p THEN k ELSE k + 1) /\ a[q] = s[k]
  BY <1>1, <1>2, <1>3
<1>5. \A q \in 1..(N + 1) : q # p => \E k \in 1..N : k = (IF q < p THEN q ELSE q - 1) /\ a[q] = s[k]
  BY <1>1, <1>2, <1>3
<1>6. a[p] = e
  BY <1>2, <1>3
<1>7. a \in Seq(S \cup {e})
  <2>1. \A q \in 1..(N + 1) : a[q] \in S \cup {e}
    BY <1>1, <1>3, <1>5, <1>6
  <2>2. a \in [1..(N + 1) -> S \cup {e}]
    BY <2>1, <1>2
  <2> QED BY <2>2, <1>1
<1>8. ToSet(a) = ToSet(s) \cup {e}
  BY <1>1, <1>2, <1>3, <1>4, <1>5, <1>6 DEF ToSet
<1>9. ASSUME NEW i \in S, NEW j \in S
      PROVE  Before(a, i, j) <=> Before(s, i, j)
  <2>1. ASSUME Before(s, i, j) PROVE Before(a, i, j)
    <3>1. PICK n \in 1..N, o \in 1..N : n < o /\ s[n] = i /\ s[o] = j
      BY <2>1, <1>1 DEF Before
    <3>2. PICK n2 \in 1..(N + 1) : n2 = (IF n < p THEN n ELSE n + 1) /\ a[n2] = i
      BY <3>1, <1>4
    <3>3. PICK o2 \in 1..(N + 1) : o2 = (IF o < p THEN o ELSE o + 1) /\ a[o2] = j
      BY <3>1, <1>4
    <3>4. n2 < o2
      BY <3>1, <3>2, <3>3, <1>1, <1>3
    <3> QED BY <3>2, <3>3, <3>4, <1>2 DEF Before
  <2>2. ASSUME Before(a, i, j) PROVE Before(s, i, j)
    <3>1. PICK n2 \in 1..(N + 1), o2 \in 1..(N + 1) : n2 < o2 /\ a[n2] = i /\ a[o2] = j
      BY <2>2, <1>2 DEF Before
    <3>2. PICK n \in 1..N : n = (IF n2 < p THEN n2 ELSE n2 - 1) /\ s[n] = i
      BY <3>1, <1>5, <1>6
    <3>3. PICK o \in 1..N : o = (IF o2 < p THEN o2 ELSE o2 - 1) /\ s[o] = j
      BY <3>1, <1>5, <1>6
    <3>4. n < o
      <4>1. n2 # p /\ o2 # p
        BY <3>1, <1>6
      <4> QED BY <4>1, <3>1, <3>2, <3>3, <1>1, <1>3
    <3> QED BY <3>2, <3>3, <3>4, <1>1 DEF Before
  <2> QED BY <2>1, <2>2
<1> QED BY <1>7, <1>8, <1>9 DEF a

----------------------------------------------------------------------------
(* New ids.                                                                 *)

\* The ids a client is about to give.
Fresh(c, new) ==
  /\ IsFiniteSet(new)
  /\ \A j \in new : /\ j \in {c} \X Nat
                    /\ Cardinality(MadeBy(c, made)) < j[2]
                    /\ j[2] <= Cardinality(MadeBy(c, made)) + Cardinality(new)

LEMMA NewIdIs ==
  ASSUME IdsAreNumbered(made), NEW c \in Clients
  PROVE  /\ IsFiniteSet(MadeBy(c, made)) /\ Cardinality(MadeBy(c, made)) \in Nat
         /\ \A k : NewId(c, k) = <<c, Cardinality(MadeBy(c, made)) + k>>
  BY FS_Subset, FS_CardinalityType DEF IdsAreNumbered, MadeBy, NewId, Items

\* They are new.
LEMMA FreshIsNew ==
  ASSUME IdsAreNumbered(made), NEW c \in Clients, NEW new, Fresh(c, new)
  PROVE  /\ new \cap Items = {} /\ Nothing \notin new /\ Slides \notin new
         /\ \A j \in new : j[1] = c
<1>1. ASSUME NEW j \in new PROVE j \notin Items
  <2>1. j[1] = c /\ j[2] \in Nat
    BY DEF Fresh
  <2>2. j \in Items => j \in MadeBy(c, made)
    BY <2>1 DEF MadeBy, Items
  <2>3. j \in Items => j[2] <= Cardinality(MadeBy(c, made))
    BY <2>2 DEF IdsAreNumbered
  <2> QED BY <2>1, <2>3, NewIdIs DEF Fresh
<1>2. \A j \in new : j[1] = c /\ j # Nothing /\ j # Slides
  BY ClientsAssumption DEF Fresh, Nothing, Slides
<1> QED BY <1>1, <1>2

\* And the ids stay numbered.
LEMMA IdsStayNumbered ==
  ASSUME IdsAreNumbered(made), NEW c \in Clients, NEW new, Fresh(c, new),
         NEW m, DOMAIN m = Items \cup new
  PROVE  IdsAreNumbered(m)
<1> DEFINE S == MadeBy(c, made)
           n == Cardinality(S)
           N == Cardinality(new)
<1>1. IsFiniteSet(S) /\ n \in Nat
  BY NewIdIs
<1>2. IsFiniteSet(new) /\ N \in Nat
  BY FS_CardinalityType DEF Fresh
<1>3. new \cap Items = {} /\ Nothing \notin new /\ Slides \notin new /\ \A j \in new : j[1] = c
  BY FreshIsNew
<1>4. IsFiniteSet(DOMAIN m)
  BY <1>2, FS_Union DEF IdsAreNumbered, Items
<1>5. DOMAIN m \subseteq ({0} \cup Clients) \X Nat
  BY DEF IdsAreNumbered, Fresh, Items
<1>6. Nothing \notin DOMAIN m /\ Slides \notin DOMAIN m
  BY <1>3 DEF IdsAreNumbered, Items
<1>7. MadeBy(c, m) = S \cup new
  BY <1>3 DEF MadeBy, Items
<1>8. Cardinality(MadeBy(c, m)) = n + N
  <2>1. S \cap new = {}
    BY <1>3 DEF MadeBy, Items
  <2>2. Cardinality(S \cup new) = n + N - Cardinality({})
    BY <1>1, <1>2, <2>1, FS_Union
  <2> QED BY <2>2, <1>1, <1>2, <1>7, FS_EmptySet
<1>9. ASSUME NEW d \in Clients, NEW i \in MadeBy(d, m)
      PROVE  i[2] <= Cardinality(MadeBy(d, m))
  <2>1. CASE d = c
    <3>1. CASE i \in S
      <4>1. i[2] <= n /\ i[2] \in Nat
        BY <3>1 DEF IdsAreNumbered, MadeBy
      <4> QED BY <4>1, <1>1, <1>2, <1>8, <2>1
    <3>2. CASE i \in new
      BY <3>2, <1>8, <2>1 DEF Fresh
    <3> QED BY <3>1, <3>2, <1>7, <1>9, <2>1
  <2>2. CASE d # c
    <3>1. \A j : j \in MadeBy(d, m) <=> j \in MadeBy(d, made)
      BY <1>3, <2>2 DEF MadeBy, Items
    <3>2. MadeBy(d, m) = MadeBy(d, made)
      BY <3>1
    <3> QED BY <3>2, <1>9 DEF IdsAreNumbered
  <2> QED BY <2>1, <2>2
<1> QED BY <1>4, <1>5, <1>6, <1>9 DEF IdsAreNumbered

\* One new item, or two.
LEMMA SomeNewIds ==
  ASSUME IdsAreNumbered(made), NEW c \in Clients
  PROVE  /\ Fresh(c, {NewId(c, 1)})
         /\ Fresh(c, {NewId(c, 1), NewId(c, 2)})
         /\ NewId(c, 1) # NewId(c, 2)
<1> DEFINE n == Cardinality(MadeBy(c, made))
           e == NewId(c, 1)
           p == NewId(c, 2)
<1>1. n \in Nat /\ e = <<c, n + 1>> /\ p = <<c, n + 2>>
  BY NewIdIs
<1> HIDE DEF n, e, p
<1>2. e # p
  BY <1>1
<1>3. IsFiniteSet({e}) /\ Cardinality({e}) = 1
  BY FS_Singleton
<1>4. IsFiniteSet({e} \cup {p}) /\ Cardinality({e} \cup {p}) = 2
  BY <1>2, <1>3, FS_AddElement
<1>5. {e} \cup {p} = {e, p}
  OBVIOUS
<1>6. Fresh(c, {e})
  BY <1>1, <1>3 DEF Fresh, n
<1>7. Fresh(c, {e, p})
  BY <1>1, <1>4, <1>5 DEF Fresh, n
<1> QED BY <1>2, <1>6, <1>7 DEF e, p

\* Items are told apart by the order of their ids, and numbered by it.
LEMMA RanksAreNumbers ==
  ASSUME NEW back, IsFiniteSet(back), back \subseteq Nat \X Nat,
         NEW rank, rank = [i \in back |-> Cardinality({j \in back : Precedes(j, i)}) + 1]
  PROVE  /\ \A i \in back : rank[i] \in 1..Cardinality(back)
         /\ \A i, j \in back : rank[i] = rank[j] => i = j
<1> DEFINE Below(i) == {j \in back : Precedes(j, i)}
<1>1. ASSUME NEW i \in back
      PROVE  /\ IsFiniteSet(Below(i)) /\ Cardinality(Below(i)) \in Nat
             /\ Cardinality(Below(i)) < Cardinality(back)
  <2>1. i \notin Below(i)
    BY DEF Precedes
  <2>2. IsFiniteSet(Below(i)) /\ Cardinality(Below(i)) <= Cardinality(back)
        /\ (Cardinality(back) = Cardinality(Below(i)) => back = Below(i))
    BY FS_Subset
  <2>3. Cardinality(Below(i)) \in Nat /\ Cardinality(back) \in Nat
    BY <2>2, FS_CardinalityType
  <2> QED BY <2>1, <2>2, <2>3
<1>2. ASSUME NEW i \in back, NEW j \in back, Precedes(i, j)
      PROVE  Cardinality(Below(i)) < Cardinality(Below(j))
  <2>1. Below(i) \subseteq Below(j) /\ i \in Below(j) /\ i \notin Below(i)
    BY <1>2 DEF Precedes
  <2>2. Cardinality(Below(i)) <= Cardinality(Below(j))
        /\ (Cardinality(Below(j)) = Cardinality(Below(i)) => Below(j) = Below(i))
    BY <2>1, <1>1, FS_Subset
  <2>3. Below(i) # Below(j)
    BY <2>1
  <2>4. Cardinality(Below(i)) \in Nat /\ Cardinality(Below(j)) \in Nat
    BY <1>1
  <2> HIDE DEF Below
  <2> QED BY <2>2, <2>3, <2>4
<1>3. \A i, j \in back : i = j \/ Precedes(i, j) \/ Precedes(j, i)
  BY DEF Precedes
<1>4. \A i \in back : rank[i] = Cardinality(Below(i)) + 1
  OBVIOUS
<1>5. IsFiniteSet(back) /\ Cardinality(back) \in Nat
  BY FS_CardinalityType
<1> HIDE DEF Below
<1>6. ASSUME NEW i \in back PROVE rank[i] \in 1..Cardinality(back)
  BY <1>1, <1>4, <1>5
<1>7. ASSUME NEW i \in back, NEW j \in back, rank[i] = rank[j] PROVE i = j
  <2>1. Cardinality(Below(i)) = Cardinality(Below(j))
    BY <1>1, <1>4, <1>7
  <2> QED BY <2>1, <1>1, <1>2, <1>3
<1> QED BY <1>6, <1>7

\* What comes back gets new ids, each its own.
LEMMA NewIdsAreFresh ==
  ASSUME IdsAreNumbered(made), NEW c \in Clients, NEW back \in SUBSET Items,
         NEW new, new = NewIds(c, back)
  PROVE  /\ DOMAIN new = back
         /\ \A i, j \in back : new[i] = new[j] => i = j
         /\ \A i \in back : new[i] \in ToRange(new) /\ Original(new[i], new) = i
         /\ \A j \in ToRange(new) : Original(j, new) \in back /\ new[Original(j, new)] = j
         /\ Fresh(c, ToRange(new))
<1> DEFINE n    == Cardinality(MadeBy(c, made))
           rank == [i \in back |-> Cardinality({j \in back : Precedes(j, i)}) + 1]
<1>1. n \in Nat /\ \A k : NewId(c, k) = <<c, n + k>>
  BY NewIdIs
<1>2. IsFiniteSet(back)
  BY FS_Subset DEF IdsAreNumbered, Items
<1>3. back \subseteq Nat \X Nat
  <2>1. {0} \cup Clients \subseteq Nat
    BY ClientsAssumption
  <2>2. back \subseteq ({0} \cup Clients) \X Nat
    BY DEF IdsAreNumbered, Items
  <2> QED BY <2>1, <2>2
<1>4. /\ \A i \in back : rank[i] \in 1..Cardinality(back)
      /\ \A i, j \in back : rank[i] = rank[j] => i = j
  BY <1>2, <1>3, RanksAreNumbers
<1>5. DOMAIN new = back /\ \A i \in back : new[i] = <<c, n + rank[i]>>
  BY <1>1 DEF NewIds
<1>6. Cardinality(back) \in Nat
  BY <1>2, FS_CardinalityType
<1> HIDE DEF n, rank
<1>7. \A i, j \in back : new[i] = new[j] => i = j
  <2> SUFFICES ASSUME NEW i \in back, NEW j \in back, new[i] = new[j]
               PROVE  i = j
    OBVIOUS
  <2>1. n + rank[i] = n + rank[j]
    BY <1>5
  <2>2. rank[i] \in Int /\ rank[j] \in Int
    BY <1>4
  <2> QED BY <2>1, <2>2, <1>1, <1>4
<1>8. IsFiniteSet({new[i] : i \in back}) /\ Cardinality({new[i] : i \in back}) = Cardinality(back)
  BY <1>2, <1>5, <1>7, ImageIsAsLarge
<1>9. ToRange(new) = {new[i] : i \in back}
  BY <1>5 DEF ToRange
<1>10. Fresh(c, ToRange(new))
  <2> SUFFICES ASSUME NEW i \in back
               PROVE  /\ new[i] \in {c} \X Nat
                      /\ n < new[i][2] /\ new[i][2] <= n + Cardinality(back)
    BY <1>8, <1>9 DEF Fresh, n
  <2>1. rank[i] \in Nat /\ 1 <= rank[i] /\ rank[i] <= Cardinality(back)
    BY <1>4
  <2>2. new[i] = <<c, n + rank[i]>>
    BY <1>5
  <2> QED BY <2>1, <2>2, <1>1, <1>6
<1>11. \A i \in back : new[i] \in ToRange(new) /\ Original(new[i], new) = i
  BY <1>5, <1>7, <1>9 DEF Original
<1>12. \A j \in ToRange(new) : Original(j, new) \in back /\ new[Original(j, new)] = j
  BY <1>5, <1>9 DEF Original
<1> QED BY <1>5, <1>7, <1>10, <1>11, <1>12

----------------------------------------------------------------------------
(* Following what came back.                                                *)

\* LastRedone follows.
LEMMA LastRedoneFollows ==
  ASSUME NEW c, Follows(c, made)
  PROVE  FollowOf(c, LastRedone(c), made)
<1> DEFINE F(f) == [i \in Items |-> IF Redone(c, i) = {} THEN i
                                    ELSE f[CHOOSE j \in Redone(c, i) : TRUE]]
<1>1. \A f : FollowOf(c, f, made) <=> f = F(f)
  BY DEF FollowOf, RedoneIn, Redone, Items
<1>2. \E f : f = F(f)
  BY <1>1 DEF Follows
<1>3. LastRedone(c) = F(LastRedone(c))
  BY <1>2 DEF LastRedone
<1> QED BY <1>1, <1>3

\* Following, item by item.
LEMMA FollowOfIs ==
  ASSUME NEW c, NEW f, NEW m
  PROVE  FollowOf(c, f, m) <=>
           /\ f = [i \in DOMAIN m |-> f[i]]
           /\ \A i \in DOMAIN m : f[i] = IF RedoneIn(c, i, m) = {} THEN i
                                        ELSE f[CHOOSE j \in RedoneIn(c, i, m) : TRUE]
<1> DEFINE E(i) == IF RedoneIn(c, i, m) = {} THEN i
                   ELSE f[CHOOSE j \in RedoneIn(c, i, m) : TRUE]
<1>1. FollowOf(c, f, m) <=> f = [i \in DOMAIN m |-> E(i)]
  BY DEF FollowOf
<1>2. \A i \in DOMAIN m : E(i) = IF RedoneIn(c, i, m) = {} THEN i
                               ELSE f[CHOOSE j \in RedoneIn(c, i, m) : TRUE]
  OBVIOUS
<1> HIDE DEF E
<1>3. f = [i \in DOMAIN m |-> E(i)] <=>
        f = [i \in DOMAIN m |-> f[i]] /\ \A i \in DOMAIN m : f[i] = E(i)
  OBVIOUS
<1> QED BY <1>1, <1>2, <1>3

\* c makes the items added, of which those in new bring back, each its own, items
\* that c had not brought back.
MakesSome(c, m, m2, added, new) ==
  /\ DOMAIN m2 = DOMAIN m \cup added /\ added \cap DOMAIN m = {}
  /\ \A i \in DOMAIN m : m2[i] = m[i]
  /\ \A j \in added : j[1] = c
  /\ DOMAIN new \subseteq DOMAIN m
  /\ \A i \in DOMAIN new : /\ RedoneIn(c, i, m) = {}
                           /\ new[i] \in added
                           /\ m2[new[i]].redoes = i /\ m2[new[i]].kind = m[i].kind
  /\ \A j \in added : m2[j].redoes = Nothing \/ \E i \in DOMAIN new : j = new[i]

\* Following still comes to an end then.
LEMMA FollowsStill ==
  ASSUME NEW m, NEW m2, NEW c, NEW d, NEW added, NEW new,
         Follows(d, m), MakesSome(c, m, m2, added, new),
         Nothing \notin DOMAIN m, Nothing \notin added,
         \A i \in DOMAIN m : m[i].redoes \in DOMAIN m \cup {Nothing}
  PROVE  Follows(d, m2)
<1> USE DEF MakesSome
<1> DEFINE back == IF d = c THEN DOMAIN new ELSE {}
<1>1. back \subseteq DOMAIN m /\ back \subseteq DOMAIN new /\ (back # {} => d = c)
  OBVIOUS
<1>2. ASSUME NEW i \in back
      PROVE  /\ RedoneIn(d, i, m) = {} /\ RedoneIn(d, i, m2) = {new[i]}
             /\ new[i] \in added /\ new[i][1] = d
  <2>1. d = c /\ i \in DOMAIN new /\ i \in DOMAIN m /\ i # Nothing
    OBVIOUS
  <2>2. RedoneIn(c, i, m) = {} /\ new[i] \in added /\ m2[new[i]].redoes = i
    BY <2>1
  <2>3. \A j \in RedoneIn(c, i, m2) : j = new[i]
    <3> SUFFICES ASSUME NEW j \in DOMAIN m2, j[1] = c, m2[j].redoes = i
                 PROVE  j = new[i]
      BY DEF RedoneIn
    <3>1. j \notin DOMAIN m
      BY <2>2 DEF RedoneIn
    <3>2. PICK k \in DOMAIN new : j = new[k]
      BY <3>1, <2>1
    <3> QED BY <3>2
  <2>4. new[i] \in RedoneIn(c, i, m2)
    BY <2>2 DEF RedoneIn
  <2> QED BY <2>1, <2>2, <2>3, <2>4
<1>3. ASSUME NEW i \in DOMAIN m, i \notin back
      PROVE  RedoneIn(d, i, m2) = RedoneIn(d, i, m)
  <2>1. ASSUME NEW j \in added, j[1] = d, m2[j].redoes = i
        PROVE  FALSE
    <3>1. d = c /\ i # Nothing
      BY <2>1
    <3>2. PICK k \in DOMAIN new : j = new[k]
      BY <3>1, <2>1
    <3>3. k = i
      BY <3>2, <2>1
    <3> QED BY <3>1, <3>2, <3>3, <1>3
  <2>2. \A j : j \in RedoneIn(d, i, m2) <=> j \in RedoneIn(d, i, m)
    BY <2>1 DEF RedoneIn
  <2>3. RedoneIn(d, i, m2) \subseteq RedoneIn(d, i, m)
    BY <2>2
  <2>4. RedoneIn(d, i, m) \subseteq RedoneIn(d, i, m2)
    BY <2>2
  <2> QED BY <2>3, <2>4
<1>4. ASSUME NEW i \in added
      PROVE  RedoneIn(d, i, m2) = {}
  <2> SUFFICES ASSUME NEW j \in DOMAIN m2, m2[j].redoes = i
               PROVE  FALSE
    BY DEF RedoneIn
  <2>1. CASE j \in DOMAIN m
    BY <2>1
  <2>2. CASE j \in added
    BY <2>2
  <2> QED BY <2>1, <2>2
<1>5. \A i \in back : m2[new[i]].kind = m[i].kind
  BY <1>1
<1>6. \A i, j \in back : new[i] = new[j] => i = j
  BY <1>1
<1> HIDE DEF back
<1>7. \E g : FollowOf(d, g, m2)
  <2>1. PICK f : FollowOf(d, f, m)
    BY DEF Follows
  <2> DEFINE End(i) == IF i \in back THEN new[i] ELSE i
             g == [i \in DOMAIN m2 |-> IF i \in added THEN i ELSE End(f[i])]
  <2>2. ASSUME NEW i \in DOMAIN m2
        PROVE  g[i] = IF RedoneIn(d, i, m2) = {} THEN i
                      ELSE g[CHOOSE j \in RedoneIn(d, i, m2) : TRUE]
    <3>1. CASE i \in added
      BY <3>1, <1>4
    <3>2. CASE i \in back
      <4>1. f[i] = i
        BY <3>2, <1>1, <1>2, <2>1 DEF FollowOf
      <4>2. i \notin added
        BY <3>2, <1>1
      <4>3. g[i] = new[i] /\ g[new[i]] = new[i]
        BY <3>2, <4>1, <4>2, <1>2
      <4>4. RedoneIn(d, i, m2) = {new[i]}
        BY <3>2, <1>2
      <4> HIDE DEF g
      <4> QED BY <4>3, <4>4
    <3>3. CASE i \in DOMAIN m /\ i \notin back
      <4>1. RedoneIn(d, i, m2) = RedoneIn(d, i, m)
        BY <3>3, <1>3
      <4>2. CASE RedoneIn(d, i, m) = {}
        <5>1. f[i] = i
          BY <3>3, <4>2, <2>1 DEF FollowOf
        <5> QED BY <5>1, <3>3, <4>1, <4>2
      <4>3. CASE RedoneIn(d, i, m) # {}
        <5> DEFINE k == CHOOSE j \in RedoneIn(d, i, m) : TRUE
        <5>1. k \in DOMAIN m
          BY <4>3 DEF RedoneIn
        <5>2. f[i] = f[k]
          BY <3>3, <4>3, <2>1 DEF FollowOf
        <5>3. g[i] = End(f[i]) /\ g[k] = End(f[k])
          BY <5>1, <3>3
        <5> HIDE DEF g, End
        <5> QED BY <5>2, <5>3, <4>1, <4>3
      <4> QED BY <4>2, <4>3
    <3> QED BY <3>1, <3>2, <3>3
  <2>3. g = [i \in DOMAIN m2 |-> g[i]]
    OBVIOUS
  <2> HIDE DEF g
  <2>4. FollowOf(d, g, m2)
    BY <2>2, <2>3, FollowOfIs
  <2> QED BY <2>4
<1>8. ASSUME NEW g, FollowOf(d, g, m2)
      PROVE  Good(d, g, m2)
  <2> DEFINE news == {new[i] : i \in back}
             Start(j) == IF j \in news THEN CHOOSE i \in back : new[i] = j ELSE j
             f == [i \in DOMAIN m |-> Start(g[i])]
  <2>1. \A i \in back : new[i] \in news /\ Start(new[i]) = i
    BY <1>6
  <2>2. \A j : j \notin news => Start(j) = j
    OBVIOUS
  <2>3. \A j \in news : \E i \in back : j = new[i] /\ Start(j) = i
    BY <2>1
  <2>4. \A j \in news : j \in added /\ j \notin DOMAIN m
    BY <1>2
  <2> HIDE DEF Start, news
  <2>5. \A i \in DOMAIN m2 : g[i] = IF RedoneIn(d, i, m2) = {} THEN i
                                    ELSE g[CHOOSE j \in RedoneIn(d, i, m2) : TRUE]
    BY <1>8, FollowOfIs
  <2>6. ASSUME NEW i \in DOMAIN m
        PROVE  f[i] = IF RedoneIn(d, i, m) = {} THEN i
                      ELSE f[CHOOSE j \in RedoneIn(d, i, m) : TRUE]
    <3>1. CASE i \in back
      <4>1. RedoneIn(d, i, m2) = {new[i]} /\ RedoneIn(d, new[i], m2) = {}
            /\ new[i] \in DOMAIN m2
        BY <3>1, <1>2, <1>4
      <4>2. g[i] = new[i]
        BY <4>1, <2>5
      <4> QED BY <3>1, <4>2, <2>1, <1>2
    <3>2. CASE i \notin back
      <4>1. RedoneIn(d, i, m2) = RedoneIn(d, i, m)
        BY <3>2, <1>3
      <4>2. CASE RedoneIn(d, i, m) = {}
        BY <4>1, <4>2, <2>2, <2>4, <2>5
      <4>3. CASE RedoneIn(d, i, m) # {}
        <5> DEFINE k == CHOOSE j \in RedoneIn(d, i, m) : TRUE
        <5>1. k \in DOMAIN m
          BY <4>3 DEF RedoneIn
        <5>2. g[i] = g[k]
          BY <4>1, <4>3, <2>5
        <5> QED BY <5>1, <5>2, <4>3
      <4> QED BY <4>2, <4>3
    <3> QED BY <3>1, <3>2
  <2>7. FollowOf(d, f, m)
    <3>1. f = [i \in DOMAIN m |-> f[i]]
      OBVIOUS
    <3> HIDE DEF f
    <3> QED BY <2>6, <3>1, FollowOfIs
  <2>8. Good(d, f, m)
    BY <2>7 DEF Follows
  <2>9. ASSUME NEW i \in DOMAIN m2
        PROVE  /\ g[i] \in DOMAIN m2 /\ m2[g[i]].kind = m2[i].kind
               /\ g[i] = i \/ g[i][1] = d
    <3>1. CASE i \in added
      BY <3>1, <1>4, <2>5
    <3>2. CASE i \in DOMAIN m
      <4>1. f[i] = Start(g[i])
        BY <3>2
      <4>2. /\ f[i] \in DOMAIN m /\ m[f[i]].kind = m[i].kind
            /\ f[i] = i \/ f[i][1] = d
        BY <3>2, <2>8 DEF Good
      <4> HIDE DEF f
      <4>3. CASE g[i] \in news
        <5>1. PICK k \in back : g[i] = new[k] /\ Start(g[i]) = k
          BY <4>3, <2>3
        <5>2. m2[g[i]].kind = m[i].kind /\ g[i] \in added /\ g[i][1] = d
          BY <5>1, <4>1, <4>2, <1>2, <1>5
        <5> QED BY <5>2, <3>2
      <4>4. CASE g[i] \notin news
        BY <4>4, <4>1, <4>2, <2>2, <3>2
      <4> QED BY <4>3, <4>4
    <3> QED BY <3>1, <3>2
  <2> QED BY <2>9 DEF Good
<1> QED BY <1>7, <1>8 DEF Follows

\* The one who follows knows where it ends.
LEMMA LastRedoneIsGood ==
  ASSUME LibraryInv(made, chain), NEW c \in Clients, NEW i \in Items
  PROVE  /\ LastRedone(c)[i] \in Items /\ made[LastRedone(c)[i]].kind = made[i].kind
         /\ LastRedone(c)[i] = i \/ LastRedone(c)[i][1] = c
<1>1. Follows(c, made)
  BY DEF LibraryInv
<1>2. FollowOf(c, LastRedone(c), made)
  BY <1>1, LastRedoneFollows
<1> QED BY <1>1, <1>2 DEF Follows, Good, Items

----------------------------------------------------------------------------
(* What documents entail.                                                   *)

\* A document that has drawn the consequences of what it knows.
Closed(d, m, ch) ==
  /\ Hidden(d.items, m, ch) \subseteq d.gone
  /\ \A i \in d.items : m[i].kind = "place" /\ m[i].within \in d.gone => i \in d.gone

LEMMA HiddenIs ==
  ASSUME NEW items, NEW m, NEW ch
  PROVE  Hidden(items, m, ch) =
           {i \in items : m[i].kind = "entry" /\ \E j \in items : Before(ch[m[i].of], i, j)}
<1>1. ASSUME NEW i \in items
      PROVE  (LET entries == ch[m[i].of]
              IN \E n, o \in DOMAIN entries : entries[n] = i /\ n < o /\ entries[o] \in items)
             <=> \E j \in items : Before(ch[m[i].of], i, j)
  BY DEF Before
<1> QED BY <1>1 DEF Hidden

LEMMA SettledIs ==
  ASSUME NEW items, NEW gone, NEW m, NEW ch
  PROVE  /\ Settled(items, gone, m, ch).items = items
         /\ \A i : i \in Settled(items, gone, m, ch).gone <=>
              \/ i \in gone \cup Hidden(items, m, ch)
              \/ /\ i \in items /\ m[i].kind = "place"
                 /\ m[i].within \in gone \cup Hidden(items, m, ch)
  BY DEF Settled, Document

\* A library that grows hides the same of what was made before.
LEMMA HiddenStays ==
  ASSUME NEW m, NEW ch, NEW m2, NEW ch2, Grows(m, ch, m2, ch2), WellMade(m, ch),
         NEW items \in SUBSET DOMAIN m
  PROVE  Hidden(items, m2, ch2) = Hidden(items, m, ch)
<1>1. ASSUME NEW i \in items
      PROVE  /\ m2[i] = m[i]
             /\ \A j \in items : Before(ch2[m2[i].of], i, j) <=> Before(ch[m[i].of], i, j)
  <2>1. m2[i] = m[i] /\ m[i].of \in DOMAIN ch
    BY DEF Grows, WellMade
  <2>2. ASSUME NEW j \in items
        PROVE  Before(ch2[m[i].of], i, j) <=> Before(ch[m[i].of], i, j)
    BY <2>1 DEF Grows
  <2> QED BY <2>1, <2>2
<1>2. \A i : i \in Hidden(items, m2, ch2) <=> i \in Hidden(items, m, ch)
  BY <1>1, HiddenIs
<1>3. Hidden(items, m2, ch2) \subseteq Hidden(items, m, ch)
  BY <1>2
<1>4. Hidden(items, m, ch) \subseteq Hidden(items, m2, ch2)
  BY <1>2
<1> QED BY <1>3, <1>4

LEMMA ClosedStays ==
  ASSUME NEW m, NEW ch, NEW m2, NEW ch2, Grows(m, ch, m2, ch2), WellMade(m, ch),
         NEW d, d.items \subseteq DOMAIN m, Closed(d, m, ch)
  PROVE  Closed(d, m2, ch2)
<1>1. Hidden(d.items, m2, ch2) = Hidden(d.items, m, ch)
  BY HiddenStays
<1>2. \A i \in d.items : m2[i] = m[i]
  BY DEF Grows
<1> QED BY <1>1, <1>2 DEF Closed

\* More is hidden of more items.
LEMMA HiddenGrows ==
  ASSUME NEW m, NEW ch, NEW items, NEW items2, items \subseteq items2
  PROVE  Hidden(items, m, ch) \subseteq Hidden(items2, m, ch)
  BY HiddenIs

\* And more is entailed by more.
LEMMA SettledGrows ==
  ASSUME NEW m, NEW ch, NEW m2, NEW ch2, Grows(m, ch, m2, ch2), WellMade(m, ch),
         NEW items \in SUBSET DOMAIN m, NEW items2, items \subseteq items2,
         NEW gone, NEW gone2, gone \subseteq gone2
  PROVE  Settled(items, gone, m, ch).gone \subseteq Settled(items2, gone2, m2, ch2).gone
<1> DEFINE dead  == gone \cup Hidden(items, m, ch)
           dead2 == gone2 \cup Hidden(items2, m2, ch2)
<1>1. Hidden(items, m, ch) \subseteq Hidden(items2, m2, ch2)
  BY HiddenStays, HiddenGrows
<1>2. dead \subseteq dead2
  BY <1>1
<1>3. \A i \in items : m2[i] = m[i]
  BY DEF Grows
<1>4. \A i : i \in Settled(items, gone, m, ch).gone <=>
        i \in dead \/ (i \in items /\ m[i].kind = "place" /\ m[i].within \in dead)
  BY SettledIs
<1>5. \A i : i \in Settled(items2, gone2, m2, ch2).gone <=>
        i \in dead2 \/ (i \in items2 /\ m2[i].kind = "place" /\ m2[i].within \in dead2)
  BY SettledIs
<1> HIDE DEF dead, dead2
<1> QED BY <1>2, <1>3, <1>4, <1>5

\* A settled document is closed: a place is in no place.
LEMMA SettledIsClosed ==
  ASSUME NEW m, NEW ch, IdsAreNumbered(m), WellMade(m, ch),
         NEW items, items \subseteq DOMAIN m, NEW gone, gone \subseteq items
  PROVE  /\ Closed(Settled(items, gone, m, ch), m, ch)
         /\ Settled(items, gone, m, ch).items = items
         /\ gone \subseteq Settled(items, gone, m, ch).gone
         /\ Settled(items, gone, m, ch).gone \subseteq items
<1> DEFINE dead == gone \cup Hidden(items, m, ch)
           d == Settled(items, gone, m, ch)
<1>1. /\ d.items = items
      /\ \A i : i \in d.gone <=>
           i \in dead \/ (i \in items /\ m[i].kind = "place" /\ m[i].within \in dead)
  BY SettledIs
<1>2. dead \subseteq items
  BY HiddenIs
<1>3. Hidden(items, m, ch) \subseteq dead /\ gone \subseteq dead
  OBVIOUS
<1> HIDE DEF dead, d
<1>4. ASSUME NEW i \in items, m[i].kind = "place", m[i].within \in d.gone
      PROVE  i \in d.gone
  <2>1. m[i].within \in DOMAIN m
    BY <1>1, <1>2, <1>4
  <2>2. m[m[i].within].kind = "entry"
    BY <2>1, <1>4 DEF WellMade, IdsAreNumbered
  <2> QED BY <2>2, <1>1, <1>4
<1>5. Closed(d, m, ch)
  BY <1>1, <1>3, <1>4 DEF Closed
<1> QED BY <1>1, <1>2, <1>3, <1>5 DEF d

\* A closed document entails nothing new.
LEMMA ClosedAbsorbs ==
  ASSUME NEW m, NEW ch, NEW d, Closed(d, m, ch),
         NEW items, items \subseteq d.items, NEW gone, gone \subseteq d.gone
  PROVE  Settled(items, gone, m, ch).gone \subseteq d.gone
<1> DEFINE dead == gone \cup Hidden(items, m, ch)
<1>1. dead \subseteq d.gone
  BY HiddenGrows DEF Closed
<1>2. \A i : i \in Settled(items, gone, m, ch).gone <=>
        i \in dead \/ (i \in items /\ m[i].kind = "place" /\ m[i].within \in dead)
  BY SettledIs
<1> HIDE DEF dead
<1> QED BY <1>1, <1>2 DEF Closed

LEMMA SettledIsADeck ==
  ASSUME NEW m, NEW ch, IdsAreNumbered(m), WellMade(m, ch),
         NEW items \in SUBSET DOMAIN m, NEW gone \in SUBSET items,
         \A i \in items : m[i].of \in items
  PROVE  Settled(items, gone, m, ch) \in Decks(m)
<1> DEFINE d == Settled(items, gone, m, ch)
<1>1. d.items = items /\ d.gone \subseteq items
  BY SettledIs, HiddenIs
<1>2. d = [items |-> d.items, gone |-> d.gone]
  BY DEF Settled, Document
<1> HIDE DEF d
<1>3. d \in [items : SUBSET DOMAIN m, gone : SUBSET DOMAIN m]
  BY <1>1, <1>2
<1>4. d \in Decks(m)
  BY <1>1, <1>3 DEF Decks
<1> QED BY <1>4 DEF d

\* Decks stay decks.
LEMMA DecksStayDecks ==
  ASSUME NEW m, NEW ch, NEW m2, NEW ch2, Grows(m, ch, m2, ch2)
  PROVE  Decks(m) \subseteq Decks(m2)
<1> SUFFICES ASSUME NEW d \in Decks(m) PROVE d \in Decks(m2)
  OBVIOUS
<1>1. \A i \in d.items : m2[i] = m[i] /\ m[i].of \in d.items
  BY DEF Decks, Grows
<1>2. d \in [items : SUBSET DOMAIN m2, gone : SUBSET DOMAIN m2]
  BY DEF Decks, Grows
<1> QED BY <1>1, <1>2 DEF Decks

----------------------------------------------------------------------------
(* What the operations make of the library.                                 *)

LEMMA AppendKeepsOrder ==
  ASSUME NEW S, NEW s \in Seq(S), NEW e, e \notin S
  PROVE  /\ Append(s, e) \in Seq(S \cup {e})
         /\ ToSet(Append(s, e)) = ToSet(s) \cup {e}
         /\ \A i, j \in S : Before(Append(s, e), i, j) <=> Before(s, i, j)
<1> DEFINE N == Len(s)
           a == Append(s, e)
<1>1. N \in Nat /\ DOMAIN s = 1..N /\ \A k \in 1..N : s[k] \in S
  OBVIOUS
<1>2. /\ DOMAIN a = 1..(N + 1) /\ a[N + 1] = e /\ \A k \in 1..N : a[k] = s[k]
      /\ a \in Seq(S \cup {e})
  <2>1. s \in Seq(S \cup {e})
    OBVIOUS
  <2> QED BY <2>1
<1> HIDE DEF a, N
<1>3. ToSet(a) = ToSet(s) \cup {e}
  BY <1>1, <1>2 DEF ToSet
<1>4. ASSUME NEW i \in S, NEW j \in S
      PROVE  Before(a, i, j) <=> Before(s, i, j)
  <2>1. \A k \in 1..(N + 1) : a[k] \in {i, j} => k \in 1..N /\ s[k] = a[k]
    BY <1>1, <1>2
  <2>2. \A k \in 1..N : k \in 1..(N + 1) /\ a[k] = s[k]
    BY <1>1, <1>2
  <2> QED BY <2>1, <2>2, <1>1, <1>2 DEF Before
<1> QED BY <1>2, <1>3, <1>4 DEF a

LEMMA AppendedKeepsOrder ==
  ASSUME NEW S, NEW s \in Seq(S), NEW e, e \notin S, NEW c,
         NEW items, NEW i \in ToSet(s), i \in items
  PROVE  /\ Appended(c, s, items, e) \in Seq(S \cup {e})
         /\ ToSet(Appended(c, s, items, e)) = ToSet(s) \cup {e}
         /\ \A k, j \in S : Before(Appended(c, s, items, e), k, j) <=> Before(s, k, j)
<1> DEFINE known == {n \in DOMAIN s : s[n] \in items}
           last  == CHOOSE n \in known : \A o \in known : o <= n
<1>1. Len(s) \in Nat /\ DOMAIN s = 1..Len(s)
  OBVIOUS
<1>2. known \in SUBSET (1..Len(s)) /\ known # {}
  BY <1>1 DEF ToSet
<1>3. \E n \in known : \A o \in known : o <= n
  <2> HIDE DEF known
  <2> QED BY <1>1, <1>2, Greatest
<1>4. last \in known
  <2> HIDE DEF known
  <2> QED BY <1>3
<1>5. last + 1 \in 1..(Len(s) + 1)
  <2> HIDE DEF last, known
  <2> QED BY <1>1, <1>2, <1>4
<1>6. Appended(c, s, items, e) = IF \A d \in Clients : d <= c THEN Append(s, e)
                                 ELSE InsertAt(s, last + 1, e)
  BY DEF Appended
<1> HIDE DEF last, known
<1>7. CASE \A d \in Clients : d <= c
  <2>1. Appended(c, s, items, e) = Append(s, e)
    BY <1>6, <1>7
  <2>2. /\ Append(s, e) \in Seq(S \cup {e})
        /\ ToSet(Append(s, e)) = ToSet(s) \cup {e}
        /\ \A k, j \in S : Before(Append(s, e), k, j) <=> Before(s, k, j)
    BY AppendKeepsOrder
  <2> QED BY <2>1, <2>2, Zenon
<1>8. CASE ~ \A d \in Clients : d <= c
  <2>1. Appended(c, s, items, e) = InsertAt(s, last + 1, e)
    BY <1>6, <1>8
  <2> DEFINE at == last + 1
  <2>2. at \in 1..(Len(s) + 1)
    BY <1>5
  <2> HIDE DEF at
  <2>3. /\ InsertAt(s, at, e) \in Seq(S \cup {e})
        /\ ToSet(InsertAt(s, at, e)) = ToSet(s) \cup {e}
        /\ \A k, j \in S : Before(InsertAt(s, at, e), k, j) <=> Before(s, k, j)
    BY <2>2, InsertedKeepsOrder
  <2> QED BY <2>1, <2>3, Zenon DEF at
<1> QED BY <1>7, <1>8

\* A library with new items, of which none redoes another, keeps what was known
\* of those before.
LEMMA UnrelatedFollow ==
  ASSUME LibraryInv(made, chain), NEW c \in Clients, NEW added, Fresh(c, added),
         NEW m, DOMAIN m = Items \cup added, \A i \in Items : m[i] = made[i],
         \A i \in added : m[i].redoes = Nothing
  PROVE  \A d \in Clients : Follows(d, m)
<1> SUFFICES ASSUME NEW d \in Clients PROVE Follows(d, m)
  OBVIOUS
<1> DEFINE none == [i \in {} |-> i]
<1>1. IdsAreNumbered(made) /\ Follows(d, made)
  BY DEF LibraryInv
<1>2. added \cap Items = {} /\ Nothing \notin added /\ \A j \in added : j[1] = c
  BY <1>1, FreshIsNew
<1>3. Nothing \notin DOMAIN made /\ \A i \in DOMAIN made : made[i].redoes \in DOMAIN made \cup {Nothing}
  BY DEF LibraryInv, IdsAreNumbered, WellMade
<1>4. DOMAIN none = {}
  OBVIOUS
<1> HIDE DEF none
<1>5. MakesSome(c, made, m, added, none)
  BY <1>2, <1>4 DEF MakesSome, Items
<1> QED BY <1>1, <1>2, <1>3, <1>5, FollowsStill

\* insert_slide, add_shape.
LEMMA LibraryWithObject ==
  ASSUME LibraryInv(made, chain), NEW c \in Clients,
         NEW l, l = Slides \/ (l \in Items /\ made[l].kind = "entry"),
         NEW m, m = WithObject(NewId(c, 1), NewId(c, 2), l),
         NEW ch, ch = With(chain, NewId(c, 1), <<NewId(c, 1)>>)
  PROVE  /\ LibraryInv(m, ch) /\ Grows(made, chain, m, ch)
         /\ DOMAIN m = Items \cup {NewId(c, 1), NewId(c, 2)}
         /\ m[NewId(c, 1)].of = NewId(c, 1) /\ m[NewId(c, 2)].of = NewId(c, 1)
         /\ m[NewId(c, 1)].redoes = Nothing /\ m[NewId(c, 2)].redoes = Nothing
<1> DEFINE e == NewId(c, 1)
           p == NewId(c, 2)
<1>1. IdsAreNumbered(made) /\ WellMade(made, chain)
  BY DEF LibraryInv
<1>2. Fresh(c, {e, p}) /\ e # p
  BY <1>1, SomeNewIds
<1>3. e \notin Items /\ p \notin Items
  BY <1>1, <1>2, FreshIsNew
<1> HIDE DEF e, p
<1>4. /\ DOMAIN m = Items \cup {e, p}
      /\ m[e] = Entry(e, Nothing) /\ m[p] = Place(e, l, Nothing)
      /\ \A i \in Items : m[i] = made[i]
  BY <1>2, <1>3 DEF WithObject, With, Items, e, p
<1>5. /\ m[e].kind = "entry" /\ m[e].of = e /\ m[e].redoes = Nothing
      /\ m[p].kind = "place" /\ m[p].of = e /\ m[p].redoes = Nothing /\ m[p].within = l
  BY <1>4 DEF Entry, Place
<1>6. /\ DOMAIN ch = DOMAIN chain \cup {e} /\ ch[e] = <<e>>
      /\ \A x \in DOMAIN chain : ch[x] = chain[x]
  BY <1>1, <1>3 DEF With, WellMade, Items, e
<1>7. IdsAreNumbered(m)
  BY <1>1, <1>2, <1>4, IdsStayNumbered
<1>8. WellMade(m, ch)
  <2>1. DOMAIN ch \subseteq DOMAIN m
    BY <1>1, <1>4, <1>6 DEF WellMade, Items
  <2>2. ASSUME NEW x \in DOMAIN ch
        PROVE  /\ ch[x] \in Seq(DOMAIN m) /\ x \in ToSet(ch[x])
               /\ \A i \in ToSet(ch[x]) : m[i].kind = "entry" /\ m[i].of = x
    <3>1. CASE x = e
      <4>1. ToSet(<<e>>) = {e}
        BY DEF ToSet
      <4>2. <<e>> \in Seq(DOMAIN m)
        BY <1>4
      <4> QED BY <3>1, <4>1, <4>2, <1>5, <1>6
    <3>2. CASE x \in DOMAIN chain
      <4>1. /\ chain[x] \in Seq(Items) /\ x \in ToSet(chain[x])
            /\ \A i \in ToSet(chain[x]) : made[i].kind = "entry" /\ made[i].of = x
        BY <3>2, <1>1 DEF WellMade, Items
      <4>2. chain[x] \in Seq(DOMAIN m)
        BY <4>1, <1>4
      <4>3. \A i \in ToSet(chain[x]) : i \in Items
        BY <4>1 DEF ToSet
      <4> QED BY <3>2, <4>1, <4>2, <4>3, <1>4, <1>6
    <3> QED BY <3>1, <3>2, <1>6
  <2>3. ASSUME NEW i \in DOMAIN m
        PROVE  /\ m[i].kind \in {"entry", "place"} /\ m[i].of \in DOMAIN ch
               /\ m[i].redoes \in DOMAIN m \cup {Nothing}
               /\ m[i].kind = "place" =>
                    m[i].within = Slides \/ (m[i].within \in DOMAIN m /\ m[m[i].within].kind = "entry")
    <3>1. CASE i \in Items
      BY <3>1, <1>1, <1>4, <1>6 DEF WellMade, Items
    <3>2. CASE i = e
      BY <3>2, <1>5, <1>6
    <3>3. CASE i = p
      BY <3>3, <1>4, <1>5, <1>6
    <3> QED BY <3>1, <3>2, <3>3, <1>4
  <2> QED BY <2>1, <2>2, <2>3 DEF WellMade
<1>9. \A d \in Clients : Follows(d, m)
  BY <1>2, <1>4, <1>5, UnrelatedFollow
<1>10. Grows(made, chain, m, ch)
  BY <1>4, <1>6 DEF Grows, Items
<1> QED BY <1>4, <1>5, <1>7, <1>8, <1>9, <1>10 DEF LibraryInv, e, p

\* move_slide.
HasPlace(m, s, p) ==
  /\ DOMAIN m = Items \cup {p} /\ p \notin Items
  /\ m[p].kind = "place" /\ m[p].of = s /\ m[p].within = Slides /\ m[p].redoes = Nothing

LEMMA LibraryWithPlace ==
  ASSUME LibraryInv(made, chain), NEW c \in Clients, NEW s \in DOMAIN chain,
         NEW m, m = With(made, NewId(c, 1), Place(s, Slides, Nothing))
  PROVE  /\ LibraryInv(m, chain) /\ Grows(made, chain, m, chain)
         /\ HasPlace(m, s, NewId(c, 1))
<1> DEFINE p == NewId(c, 1)
<1>1. IdsAreNumbered(made) /\ WellMade(made, chain)
  BY DEF LibraryInv
<1>2. Fresh(c, {p})
  BY <1>1, SomeNewIds
<1>3. p \notin Items
  BY <1>1, <1>2, FreshIsNew
<1> HIDE DEF p
<1>4. DOMAIN m = Items \cup {p} /\ m[p] = Place(s, Slides, Nothing) /\ \A i \in Items : m[i] = made[i]
  BY <1>3 DEF With, Items, p
<1>5. m[p].kind = "place" /\ m[p].of = s /\ m[p].redoes = Nothing /\ m[p].within = Slides
  BY <1>4 DEF Place
<1>6. IdsAreNumbered(m)
  BY <1>1, <1>2, <1>4, IdsStayNumbered
<1>7. WellMade(m, chain)
  <2>1. DOMAIN chain \subseteq DOMAIN m
    BY <1>1, <1>4 DEF WellMade, Items
  <2>2. ASSUME NEW x \in DOMAIN chain
        PROVE  /\ chain[x] \in Seq(DOMAIN m) /\ x \in ToSet(chain[x])
               /\ \A i \in ToSet(chain[x]) : m[i].kind = "entry" /\ m[i].of = x
    <3>1. /\ chain[x] \in Seq(Items) /\ x \in ToSet(chain[x])
          /\ \A i \in ToSet(chain[x]) : made[i].kind = "entry" /\ made[i].of = x
      BY <1>1 DEF WellMade, Items
    <3>2. chain[x] \in Seq(DOMAIN m)
      BY <3>1, <1>4
    <3>3. \A i \in ToSet(chain[x]) : i \in Items
      BY <3>1 DEF ToSet
    <3> QED BY <3>1, <3>2, <3>3, <1>4
  <2>3. ASSUME NEW i \in DOMAIN m
        PROVE  /\ m[i].kind \in {"entry", "place"} /\ m[i].of \in DOMAIN chain
               /\ m[i].redoes \in DOMAIN m \cup {Nothing}
               /\ m[i].kind = "place" =>
                    m[i].within = Slides \/ (m[i].within \in DOMAIN m /\ m[m[i].within].kind = "entry")
    <3>1. CASE i \in Items
      BY <3>1, <1>1, <1>4 DEF WellMade, Items
    <3>2. CASE i = p
      BY <3>2, <1>5
    <3> QED BY <3>1, <3>2, <1>4
  <2> QED BY <2>1, <2>2, <2>3 DEF WellMade
<1>8. \A d \in Clients : Follows(d, m)
  BY <1>2, <1>4, <1>5, UnrelatedFollow
<1>9. Grows(made, chain, m, chain)
  BY <1>4 DEF Grows, Items
<1>10. HasPlace(m, s, p)
  BY <1>3, <1>4, <1>5 DEF HasPlace
<1> QED BY <1>6, <1>7, <1>8, <1>9, <1>10 DEF LibraryInv, p

\* Undo and redo, of items whose objects c knows.
LEMMA ItsListIsThere ==
  ASSUME LibraryInv(made, chain), NEW c \in Clients, NEW back \in SUBSET Items,
         NEW new, new = NewIds(c, back), NEW i \in Items, IsPlace(i),
         NEW l, l = NewList(c, made[i].within, new)
  PROVE  \/ l = Slides
         \/ l \in Items /\ made[l].kind = "entry"
         \/ \E k \in back : l = new[k] /\ made[k].kind = "entry"
<1> DEFINE w    == made[i].within
           last == LastRedone(c)[w]
<1>1. w = Slides \/ (w \in Items /\ made[w].kind = "entry")
  BY DEF LibraryInv, WellMade, IsPlace, Items
<1>2. DOMAIN new = back
  BY NewIdsAreFresh DEF LibraryInv
<1>3. l \in {w, last, new[last]} /\ (l = new[last] => l = w \/ l = last \/ last \in back)
      /\ (w = Slides => l = w)
  BY <1>2 DEF NewList
<1>4. w # Slides => last \in Items /\ made[last].kind = "entry"
  BY <1>1, LastRedoneIsGood
<1> HIDE DEF w, last
<1> QED BY <1>1, <1>3, <1>4

Brings(c, back, new) ==
  /\ DOMAIN made' = Items \cup ToRange(new)
  /\ \A j \in ToRange(new) :
       /\ j \notin Items /\ Original(j, new) \in back /\ new[Original(j, new)] = j
       /\ made'[j].of = made[Original(j, new)].of
       /\ made'[j].kind = made[Original(j, new)].kind
       /\ made'[j].redoes = Original(j, new)
       /\ IsPlace(Original(j, new)) =>
            made'[j].within = NewList(c, made[Original(j, new)].within, new)
  /\ \A i \in back : new[i] \in ToRange(new) /\ Original(new[i], new) = i

LEMMA LibraryWithBack ==
  ASSUME LibraryInv(made, chain), NEW c \in Clients, doc[c] \in Decks(made),
         NEW back \in SUBSET doc[c].items, \A i \in back : Redone(c, i) = {},
         NEW new, new = NewIds(c, back), Library(c, new)
  PROVE  /\ LibraryInv(made', chain') /\ Grows(made, chain, made', chain')
         /\ Brings(c, back, new)
<1> DEFINE added == ToRange(new)
<1>1. IdsAreNumbered(made) /\ WellMade(made, chain)
  BY DEF LibraryInv
<1>2. /\ doc[c].items \subseteq Items /\ back \in SUBSET Items
      /\ \A i \in doc[c].items : made[i].of \in doc[c].items
  BY DEF Decks, Items
<1>3. /\ DOMAIN new = back
      /\ \A i, j \in back : new[i] = new[j] => i = j
      /\ \A i \in back : new[i] \in added /\ Original(new[i], new) = i
      /\ \A j \in added : Original(j, new) \in back /\ new[Original(j, new)] = j
      /\ Fresh(c, added)
  BY <1>1, <1>2, NewIdsAreFresh
<1> HIDE DEF added
<1>4. added \cap Items = {} /\ Nothing \notin added /\ \A j \in added : j[1] = c
  BY <1>1, <1>3, FreshIsNew
<1>5. /\ DOMAIN made' = Items \cup added
      /\ \A i \in Items : made'[i] = made[i]
      /\ \A j \in added : made'[j] = Recreated(Original(j, new), new, c)
  BY <1>4 DEF Library, added
<1>6. ASSUME NEW j \in added
      PROVE  LET i == Original(j, new)
             IN /\ i \in Items /\ i \in back
                /\ made'[j].kind = made[i].kind /\ made'[j].of = made[i].of
                /\ made'[j].redoes = i
                /\ IsPlace(i) => made'[j].within = NewList(c, made[i].within, new)
  <2> DEFINE i == Original(j, new)
  <2>1. i \in back /\ i \in Items /\ made'[j] = Recreated(i, new, c)
    BY <1>2, <1>3, <1>5
  <2>2. made[i].kind \in {"entry", "place"}
    BY <2>1, <1>1 DEF WellMade, Items
  <2> HIDE DEF i
  <2>3. /\ made'[j].kind = made[i].kind /\ made'[j].of = made[i].of
        /\ made'[j].redoes = i
        /\ IsPlace(i) => made'[j].within = NewList(c, made[i].within, new)
    BY <2>1, <2>2 DEF Recreated, IsPlace, Place, Entry
  <2> QED BY <2>1, <2>3 DEF i
<1>7. IdsAreNumbered(made')
  BY <1>1, <1>3, <1>5, IdsStayNumbered
<1>8. \A d \in Clients : Follows(d, made')
  <2>1. MakesSome(c, made, made', added, new)
    <3>1. \A i \in back : RedoneIn(c, i, made) = {}
      BY DEF Redone, RedoneIn, Items
    <3>2. \A i \in back : made'[new[i]].redoes = i /\ made'[new[i]].kind = made[i].kind
      BY <1>3, <1>6
    <3>3. \A j \in added : \E i \in DOMAIN new : j = new[i]
      BY <1>3
    <3> QED BY <3>1, <3>2, <3>3, <1>2, <1>3, <1>4, <1>5 DEF MakesSome, Items
  <2>2. Nothing \notin DOMAIN made
        /\ \A i \in DOMAIN made : made[i].redoes \in DOMAIN made \cup {Nothing}
    BY <1>1 DEF IdsAreNumbered, WellMade
  <2> QED BY <2>1, <2>2, <1>4, FollowsStill DEF LibraryInv
<1>9. /\ DOMAIN chain' = DOMAIN chain
      /\ \A x \in DOMAIN chain : /\ chain'[x] \in Seq(DOMAIN made') /\ x \in ToSet(chain'[x])
                                 /\ \A i \in ToSet(chain'[x]) : made'[i].kind = "entry" /\ made'[i].of = x
                                 /\ \A i, j \in Items : Before(chain'[x], i, j) <=> Before(chain[x], i, j)
  <2> DEFINE Entered(x) == {i \in DOMAIN new : ~IsPlace(i) /\ made[i].of = x}
             one(x) == CHOOSE i \in Entered(x) : TRUE
  <2>1. /\ DOMAIN chain' = DOMAIN chain
        /\ \A x \in DOMAIN chain : chain'[x] = IF Entered(x) = {} THEN chain[x]
             ELSE Appended(c, chain[x], doc[c].items, new[one(x)])
    BY DEF Library
  <2>2. ASSUME NEW x \in DOMAIN chain
        PROVE  /\ chain'[x] \in Seq(DOMAIN made') /\ x \in ToSet(chain'[x])
               /\ \A i \in ToSet(chain'[x]) : made'[i].kind = "entry" /\ made'[i].of = x
               /\ \A i, j \in Items : Before(chain'[x], i, j) <=> Before(chain[x], i, j)
    <3>1. /\ chain[x] \in Seq(Items) /\ x \in ToSet(chain[x])
          /\ \A i \in ToSet(chain[x]) : made[i].kind = "entry" /\ made[i].of = x
      BY <1>1 DEF WellMade, Items
    <3>2. \A i \in ToSet(chain[x]) : i \in Items
      BY <3>1 DEF ToSet
    <3>3. CASE Entered(x) = {}
      <4>1. chain'[x] = chain[x]
        BY <2>1, <3>3
      <4>2. chain[x] \in Seq(DOMAIN made')
        BY <3>1, <1>5
      <4> QED BY <4>1, <4>2, <3>1, <3>2, <1>5
    <3>4. CASE Entered(x) # {}
      <4> DEFINE k == one(x)
                 e == new[k]
                 a == Appended(c, chain[x], doc[c].items, e)
      <4>1. k \in back /\ ~IsPlace(k) /\ made[k].of = x
        BY <3>4, <1>3
      <4>2. chain'[x] = a
        BY <2>1, <3>4
      <4>3. x \in doc[c].items
        BY <4>1, <1>2
      <4>4. e \in added /\ e \notin Items /\ made'[e].kind = "entry" /\ made'[e].of = x
        <5>1. e \in added /\ Original(e, new) = k
          BY <4>1, <1>3
        <5>2. made'[e].kind = made[k].kind /\ made'[e].of = made[k].of
          BY <5>1, <1>6
        <5>3. made[k].kind = "entry"
          BY <4>1, <1>1, <1>2 DEF WellMade, IsPlace, Items
        <5> QED BY <5>1, <5>2, <5>3, <4>1, <1>4
      <4> HIDE DEF k, e
      <4>5. /\ a \in Seq(Items \cup {e}) /\ ToSet(a) = ToSet(chain[x]) \cup {e}
            /\ \A i, j \in Items : Before(a, i, j) <=> Before(chain[x], i, j)
        <5> DEFINE S == Items
                   s == chain[x]
                   items == doc[c].items
        <5>1. s \in Seq(S) /\ e \notin S /\ x \in ToSet(s) /\ x \in items
          BY <3>1, <4>3, <4>4
        <5> HIDE DEF S, s, items
        <5>2. /\ Appended(c, s, items, e) \in Seq(S \cup {e})
              /\ ToSet(Appended(c, s, items, e)) = ToSet(s) \cup {e}
              /\ \A i, j \in S : Before(Appended(c, s, items, e), i, j) <=> Before(s, i, j)
          BY <5>1, AppendedKeepsOrder
        <5> QED BY <5>2 DEF S, s, items
      <4> HIDE DEF a
      <4>6. a \in Seq(DOMAIN made')
        <5>1. Items \cup {e} \subseteq DOMAIN made'
          BY <4>4, <1>5
        <5> QED BY <5>1, <4>5
      <4>7. \A i \in ToSet(a) : made'[i].kind = "entry" /\ made'[i].of = x
        BY <4>4, <4>5, <3>1, <3>2, <1>5
      <4> QED BY <4>2, <4>5, <4>6, <4>7, <3>1
    <3> QED BY <3>3, <3>4
  <2> QED BY <2>1, <2>2
<1>10. Grows(made, chain, made', chain')
  BY <1>5, <1>9 DEF Grows, Items
<1>11. WellMade(made', chain')
  <2>1. DOMAIN chain' \subseteq DOMAIN made'
    BY <1>1, <1>5, <1>9 DEF WellMade, Items
  <2>2. ASSUME NEW i \in DOMAIN made'
        PROVE  /\ made'[i].kind \in {"entry", "place"} /\ made'[i].of \in DOMAIN chain'
               /\ made'[i].redoes \in DOMAIN made' \cup {Nothing}
    <3>1. CASE i \in Items
      BY <3>1, <1>1, <1>5, <1>9 DEF WellMade, Items
    <3>2. CASE i \in added
      BY <3>2, <1>1, <1>5, <1>6, <1>9 DEF WellMade, Items
    <3> QED BY <3>1, <3>2, <1>5
  <2>3. ASSUME NEW i \in DOMAIN made', made'[i].kind = "place"
        PROVE  \/ made'[i].within = Slides
               \/ made'[i].within \in DOMAIN made' /\ made'[made'[i].within].kind = "entry"
    <3>1. CASE i \in Items
      BY <2>3, <3>1, <1>1, <1>5 DEF WellMade, Items
    <3>2. CASE i \in added
      <4> DEFINE o == Original(i, new)
                 l == NewList(c, made[o].within, new)
      <4>1. o \in Items /\ IsPlace(o) /\ made'[i].within = l
        BY <2>3, <3>2, <1>6 DEF IsPlace
      <4>2. \/ l = Slides
            \/ l \in Items /\ made[l].kind = "entry"
            \/ \E k \in back : l = new[k] /\ made[k].kind = "entry"
        BY <4>1, <1>2, ItsListIsThere
      <4>3. ASSUME NEW k \in back, l = new[k], made[k].kind = "entry"
            PROVE  l \in DOMAIN made' /\ made'[l].kind = "entry"
        <5>1. new[k] \in added /\ Original(new[k], new) = k
          BY <1>3
        <5>2. made'[new[k]].kind = made[k].kind
          BY <5>1, <1>6
        <5> QED BY <5>1, <5>2, <4>3, <1>5
      <4> HIDE DEF l, o
      <4> QED BY <4>1, <4>2, <4>3, <1>5
    <3> QED BY <3>1, <3>2, <1>5
  <2> QED BY <2>1, <2>2, <2>3, <1>9 DEF WellMade
<1>12. \A j \in added : j \notin Items /\ Original(j, new) \in back
  BY <1>3, <1>4
<1>13. \A j \in added : /\ made'[j].of = made[Original(j, new)].of
                        /\ made'[j].kind = made[Original(j, new)].kind
                        /\ made'[j].redoes = Original(j, new)
                        /\ IsPlace(Original(j, new)) =>
                             made'[j].within = NewList(c, made[Original(j, new)].within, new)
  BY <1>6
<1>14. LibraryInv(made', chain')
  BY <1>7, <1>8, <1>11 DEF LibraryInv
<1>15. Brings(c, back, new)
  BY <1>3, <1>5, <1>12, <1>13 DEF Brings, added
<1> QED BY <1>10, <1>14, <1>15

----------------------------------------------------------------------------
(* What those know who have read the log.                                   *)

SeedItems == Seeds \cup {PlaceOfSeed(x) : x \in Seeds}

\* All that was said: the file, and the frames.
Told(frames) == Document(SeedItems \cup UNION {frames[n].items : n \in DOMAIN frames},
                         UNION {frames[n].gone : n \in DOMAIN frames})

\* A document that says what n frames have said, and nothing that was not said.
Agrees(d, n, frames, m, ch) ==
  /\ SeedItems \subseteq d.items /\ d.items \subseteq Told(frames).items
  /\ d.gone \subseteq Settled(Told(frames).items, Told(frames).gone, m, ch).gone
  /\ Closed(d, m, ch)
  /\ n <= Len(frames)
  /\ \A k \in 1..n : frames[k].items \subseteq d.items /\ frames[k].gone \subseteq d.gone

LEMMA ToldIs ==
  ASSUME NEW frames
  PROVE  /\ \A i : i \in Told(frames).items <=>
                     i \in SeedItems \/ \E n \in DOMAIN frames : i \in frames[n].items
         /\ \A i : i \in Told(frames).gone <=> \E n \in DOMAIN frames : i \in frames[n].gone
  BY DEF Told, Document

LEMMA ToldMore ==
  ASSUME NEW S, NEW frames \in Seq(S), NEW frame
  PROVE  /\ Told(frames).items \subseteq Told(Append(frames, frame)).items
         /\ Told(frames).gone \subseteq Told(Append(frames, frame)).gone
         /\ frame.items \subseteq Told(Append(frames, frame)).items
         /\ frame.gone \subseteq Told(Append(frames, frame)).gone
<1> DEFINE more == Append(frames, frame)
<1>1. /\ DOMAIN frames = 1..Len(frames) /\ DOMAIN more = 1..(Len(frames) + 1)
      /\ Len(frames) \in Nat
      /\ \A n \in 1..Len(frames) : more[n] = frames[n]
      /\ more[Len(frames) + 1] = frame
  OBVIOUS
<1> HIDE DEF more
<1>2. \A n \in DOMAIN frames : n \in DOMAIN more /\ more[n] = frames[n]
  BY <1>1
<1>3. Len(frames) + 1 \in DOMAIN more
  BY <1>1
<1>4. /\ Told(frames).items \subseteq Told(more).items
      /\ Told(frames).gone \subseteq Told(more).gone
  BY <1>2, ToldIs
<1>5. frame.items \subseteq Told(more).items /\ frame.gone \subseteq Told(more).gone
  BY <1>1, <1>3, ToldIs
<1> QED BY <1>4, <1>5 DEF more

LEMMA ToldIsMade ==
  ASSUME NEW m, NEW frames \in Seq(Decks(m)), SeedItems \subseteq DOMAIN m
  PROVE  /\ Told(frames).items \subseteq DOMAIN m
         /\ Told(frames).gone \subseteq Told(frames).items
<1>1. \A n \in DOMAIN frames : frames[n].items \subseteq DOMAIN m
                               /\ frames[n].gone \subseteq frames[n].items
  BY DEF Decks
<1> QED BY <1>1, ToldIs

LEMMA GrowsNot ==
  ASSUME NEW m, NEW ch
  PROVE  Grows(m, ch, m, ch)
  BY DEF Grows

\* Whoever agrees still does when a frame is sent, and the library has grown.
LEMMA AgreesStill ==
  ASSUME NEW m, NEW ch, NEW m2, NEW ch2, WellMade(m, ch), Grows(m, ch, m2, ch2),
         NEW frames \in Seq(Decks(m)), SeedItems \subseteq DOMAIN m,
         NEW d \in Decks(m), NEW n \in Nat, Agrees(d, n, frames, m, ch), NEW frame
  PROVE  Agrees(d, n, Append(frames, frame), m2, ch2)
<1> DEFINE more == Append(frames, frame)
<1>1. /\ Told(frames).items \subseteq Told(more).items
      /\ Told(frames).gone \subseteq Told(more).gone
  BY ToldMore
<1>2. Told(frames).items \in SUBSET DOMAIN m
  BY ToldIsMade
<1>3. d.items \subseteq DOMAIN m
  BY DEF Decks
<1>4. /\ Len(frames) \in Nat /\ Len(more) = Len(frames) + 1
      /\ \A k \in 1..Len(frames) : more[k] = frames[k]
  OBVIOUS
<1> HIDE DEF more
<1>5. Settled(Told(frames).items, Told(frames).gone, m, ch).gone
        \subseteq Settled(Told(more).items, Told(more).gone, m2, ch2).gone
  BY <1>1, <1>2, SettledGrows
<1>6. Closed(d, m2, ch2)
  BY <1>3, ClosedStays DEF Agrees
<1>7. n <= Len(more)
      /\ \A k \in 1..n : more[k].items \subseteq d.items /\ more[k].gone \subseteq d.gone
  BY <1>4 DEF Agrees
<1>8. Agrees(d, n, more, m2, ch2)
  BY <1>1, <1>5, <1>6, <1>7 DEF Agrees
<1> QED BY <1>8 DEF more

\* So does its author, with what it has settled.
LEMMA AgreesAfter ==
  ASSUME NEW m, NEW ch, NEW m2, NEW ch2, IdsAreNumbered(m2), WellMade(m2, ch2),
         NEW frames \in Seq(Decks(m)),
         NEW d, NEW n \in Nat, Agrees(d, n, frames, m, ch),
         NEW items \in SUBSET DOMAIN m2, NEW gone \in SUBSET items,
         d.items \subseteq items, d.gone \subseteq gone,
         NEW after, after = Settled(items, gone, m2, ch2)
  PROVE  Agrees(after, n, Append(frames, after), m2, ch2)
<1> DEFINE more == Append(frames, after)
<1>1. Closed(after, m2, ch2) /\ after.items = items /\ gone \subseteq after.gone
  <2>1. items \subseteq DOMAIN m2 /\ gone \subseteq items
    OBVIOUS
  <2>2. /\ Closed(Settled(items, gone, m2, ch2), m2, ch2)
        /\ Settled(items, gone, m2, ch2).items = items
        /\ gone \subseteq Settled(items, gone, m2, ch2).gone
        /\ Settled(items, gone, m2, ch2).gone \subseteq items
    BY <2>1, SettledIsClosed
  <2> QED BY <2>2
<1>2. after.items \subseteq Told(more).items /\ after.gone \subseteq Told(more).gone
  BY ToldMore
<1>3. /\ Len(frames) \in Nat /\ Len(more) = Len(frames) + 1
      /\ \A k \in 1..Len(frames) : more[k] = frames[k]
  OBVIOUS
<1> HIDE DEF more
<1>4. Told(more).gone \subseteq Settled(Told(more).items, Told(more).gone, m2, ch2).gone
  BY SettledIs
<1>5. n <= Len(more)
      /\ \A k \in 1..n : more[k].items \subseteq after.items /\ more[k].gone \subseteq after.gone
  BY <1>1, <1>3 DEF Agrees
<1>6. Agrees(after, n, more, m2, ch2)
  BY <1>1, <1>2, <1>4, <1>5 DEF Agrees
<1> QED BY <1>6 DEF more

\* And whoever reads one more frame.
LEMMA AgreesWithOneMore ==
  ASSUME NEW m, NEW ch, IdsAreNumbered(m), WellMade(m, ch),
         NEW frames \in Seq(Decks(m)), SeedItems \subseteq DOMAIN m,
         NEW d \in Decks(m), NEW n \in Nat, Agrees(d, n, frames, m, ch), n < Len(frames),
         NEW joined, joined = Settled(d.items \cup frames[n + 1].items,
                                      d.gone \cup frames[n + 1].gone, m, ch)
  PROVE  joined \in Decks(m) /\ Agrees(joined, n + 1, frames, m, ch)
<1> DEFINE frame == frames[n + 1]
           items == d.items \cup frame.items
           gone  == d.gone \cup frame.gone
           told  == Told(frames)
           all   == Settled(told.items, told.gone, m, ch)
<1>1. n + 1 \in DOMAIN frames /\ frame \in Decks(m)
  OBVIOUS
<1>2. /\ items \in SUBSET DOMAIN m /\ gone \in SUBSET items
      /\ \A i \in items : m[i].of \in items
  <2> HIDE DEF frame
  <2> QED BY <1>1 DEF Decks
<1>3. told.items \in SUBSET DOMAIN m /\ told.gone \in SUBSET told.items
  BY ToldIsMade
<1>4. frame.items \subseteq told.items /\ frame.gone \subseteq told.gone
  BY <1>1, ToldIs
<1>5. joined = Settled(items, gone, m, ch)
  OBVIOUS
<1> HIDE DEF frame, items, gone, told
<1>6. joined \in Decks(m)
  BY <1>2, <1>5, SettledIsADeck
<1>7. Closed(joined, m, ch) /\ joined.items = items /\ gone \subseteq joined.gone
  <2>1. items \subseteq DOMAIN m /\ gone \subseteq items
    BY <1>2
  <2>2. /\ Closed(Settled(items, gone, m, ch), m, ch)
        /\ Settled(items, gone, m, ch).items = items
        /\ gone \subseteq Settled(items, gone, m, ch).gone
        /\ Settled(items, gone, m, ch).gone \subseteq items
    BY <2>1, SettledIsClosed
  <2> QED BY <2>2, <1>5
<1>8. Closed(all, m, ch) /\ all.items = told.items /\ told.gone \subseteq all.gone
  <2> DEFINE of == told.items
             less == told.gone
  <2>1. of \subseteq DOMAIN m /\ less \subseteq of
    BY <1>3
  <2> HIDE DEF of, less
  <2>2. /\ Closed(Settled(of, less, m, ch), m, ch)
        /\ Settled(of, less, m, ch).items = of
        /\ less \subseteq Settled(of, less, m, ch).gone
        /\ Settled(of, less, m, ch).gone \subseteq of
    BY <2>1, SettledIsClosed
  <2> QED BY <2>2 DEF of, less
<1>9. d.items \subseteq told.items /\ d.gone \subseteq all.gone /\ SeedItems \subseteq d.items
  BY DEF Agrees, told
<1> HIDE DEF all
<1>10. items \subseteq told.items /\ gone \subseteq all.gone
  BY <1>4, <1>8, <1>9 DEF items, gone
<1>11. joined.gone \subseteq all.gone
  BY <1>5, <1>8, <1>10, ClosedAbsorbs
<1>12. ASSUME NEW k \in 1..(n + 1)
       PROVE  frames[k].items \subseteq joined.items /\ frames[k].gone \subseteq joined.gone
  <2>1. CASE k \in 1..n
    <3>1. frames[k].items \subseteq d.items /\ frames[k].gone \subseteq d.gone
      BY <2>1 DEF Agrees
    <3>2. d.items \subseteq items /\ d.gone \subseteq gone
      BY DEF items, gone
    <3> QED BY <3>1, <3>2, <1>7
  <2>2. CASE k = n + 1
    BY <2>2, <1>7 DEF items, gone, frame
  <2>3. k \in 1..n \/ k = n + 1
    OBVIOUS
  <2> QED BY <2>1, <2>2, <2>3
<1>13. SeedItems \subseteq joined.items /\ joined.items \subseteq told.items
  BY <1>7, <1>9, <1>10 DEF items
<1>14. n + 1 <= Len(frames)
  OBVIOUS
<1> QED BY <1>6, <1>7, <1>11, <1>12, <1>13, <1>14 DEF Agrees, all, told

\* Those who have read all frames have the same document.
LEMMA ThoseWhoAgree ==
  ASSUME NEW m, NEW ch, NEW frames \in Seq(Decks(m)),
         NEW d \in Decks(m), Agrees(d, Len(frames), frames, m, ch)
  PROVE  d = Document(Told(frames).items,
                      Settled(Told(frames).items, Told(frames).gone, m, ch).gone)
<1> DEFINE told == Told(frames)
<1>1. DOMAIN frames = 1..Len(frames)
  OBVIOUS
<1>2. told.items \subseteq d.items /\ told.gone \subseteq d.gone
  BY <1>1, ToldIs DEF Agrees
<1>3. d.items = told.items
  BY <1>2 DEF Agrees
<1>4. Settled(told.items, told.gone, m, ch).gone \subseteq d.gone
  BY <1>2, ClosedAbsorbs DEF Agrees
<1>5. d.gone = Settled(told.items, told.gone, m, ch).gone
  BY <1>4 DEF Agrees
<1>6. d = [items |-> d.items, gone |-> d.gone]
  BY DEF Decks
<1> QED BY <1>3, <1>5, <1>6 DEF Document

----------------------------------------------------------------------------
(* The invariant of the agreement.                                          *)

DocsInv == /\ doc \in [Clients -> Decks(made)] /\ log \in Seq(Decks(made))
           /\ read \in [Clients -> Nat] /\ link \in [Clients -> {"on", "off"}]
           /\ SeedItems \subseteq Items
           /\ \A c \in Clients : MadeBy(c, made) \subseteq doc[c].items

HistoryInv == /\ DOMAIN past = Clients /\ DOMAIN future = Clients
              /\ \A c \in Clients : /\ past[c] \in Seq(Changes(doc[c].items))
                                    /\ future[c] \in Seq(Changes(doc[c].items))

AgreeInv == \A c \in Clients : Agrees(doc[c], read[c], log, made, chain)

Inv == LibraryInv(made, chain) /\ DocsInv /\ HistoryInv /\ AgreeInv

\* A transaction: c makes the items new, and deletes some it knows.
Makes(c, new, gone, after) ==
  /\ LibraryInv(made', chain') /\ Grows(made, chain, made', chain')
  /\ DOMAIN made' = Items \cup new /\ new \cap Items = {} /\ \A j \in new : j[1] = c
  /\ \A j \in new : made'[j].of \in doc[c].items \cup new
  /\ gone \subseteq doc[c].items
  /\ after = Settled(doc[c].items \cup new, doc[c].gone \cup gone, made', chain')

LEMMA WhatItLeaves ==
  ASSUME DocsInv, NEW c \in Clients, NEW new, NEW gone, NEW after, Makes(c, new, gone, after)
  PROVE  /\ after \in Decks(made') /\ after.items = doc[c].items \cup new
         /\ doc[c].gone \cup gone \subseteq after.gone /\ after.gone \subseteq after.items
         /\ doc[c].items \cup new \subseteq DOMAIN made'
         /\ doc[c].gone \cup gone \subseteq doc[c].items \cup new
<1> DEFINE items == doc[c].items \cup new
           dead  == doc[c].gone \cup gone
<1>1. doc[c] \in Decks(made)
  BY DEF DocsInv
<1>2. items \subseteq DOMAIN made' /\ dead \subseteq items
  BY <1>1 DEF Makes, Decks, Items
<1>3. \A i \in items : made'[i].of \in items
  BY <1>1 DEF Makes, Grows, Decks
<1>4. IdsAreNumbered(made') /\ WellMade(made', chain') /\ after = Settled(items, dead, made', chain')
  BY DEF Makes, LibraryInv
<1> HIDE DEF items, dead
<1>5. after \in Decks(made')
  <2>1. items \in SUBSET DOMAIN made' /\ dead \in SUBSET items
    BY <1>2
  <2> QED BY <2>1, <1>3, <1>4, SettledIsADeck
<1>6. after.items = items /\ dead \subseteq after.gone /\ after.gone \subseteq items
  <2>1. /\ Closed(Settled(items, dead, made', chain'), made', chain')
        /\ Settled(items, dead, made', chain').items = items
        /\ dead \subseteq Settled(items, dead, made', chain').gone
        /\ Settled(items, dead, made', chain').gone \subseteq items
    BY <1>2, <1>4, SettledIsClosed
  <2> QED BY <2>1, <1>4
<1> QED BY <1>2, <1>5, <1>6 DEF items, dead

LEMMA TransactionKeepsDocs ==
  ASSUME LibraryInv(made, chain), DocsInv, AgreeInv, NEW c \in Clients,
         NEW new, NEW gone, NEW after, Makes(c, new, gone, after), Transacts(c, after)
  PROVE  DocsInv' /\ AgreeInv'
<1>1. /\ doc' = [doc EXCEPT ![c] = after] /\ log' = Append(log, after)
      /\ link' = link /\ read' = read
  BY DEF Transacts
<1>2. /\ after \in Decks(made') /\ after.items = doc[c].items \cup new
      /\ doc[c].gone \cup gone \subseteq after.gone /\ after.gone \subseteq after.items
      /\ doc[c].items \cup new \subseteq DOMAIN made'
      /\ doc[c].gone \cup gone \subseteq doc[c].items \cup new
  BY WhatItLeaves
<1>3. Grows(made, chain, made', chain')
  BY DEF Makes
<1>4. Decks(made) \subseteq Decks(made')
  BY <1>3, DecksStayDecks
<1>5. DocsInv'
  <2>1. doc' \in [Clients -> Decks(made')] /\ log' \in Seq(Decks(made'))
    <3>1. doc \in [Clients -> Decks(made')] /\ log \in Seq(Decks(made'))
      BY <1>4 DEF DocsInv
    <3> QED BY <3>1, <1>1, <1>2
  <2>2. SeedItems \subseteq Items'
    BY DEF DocsInv, Makes, Items
  <2>3. ASSUME NEW d \in Clients, NEW i \in MadeBy(d, made')
        PROVE  i \in doc'[d].items
    <3>1. i \in Items \cup new /\ i[1] = d
      BY DEF MadeBy, Makes
    <3>2. CASE i \in Items
      <4>1. i \in doc[d].items
        BY <3>1, <3>2 DEF DocsInv, MadeBy, Items
      <4> QED BY <4>1, <1>1, <1>2 DEF DocsInv
    <3>3. CASE i \in new
      <4>1. d = c
        BY <3>1, <3>3 DEF Makes
      <4> QED BY <4>1, <3>3, <1>1, <1>2 DEF DocsInv
    <3> QED BY <3>1, <3>2, <3>3
  <2> QED BY <2>1, <2>2, <2>3, <1>1 DEF DocsInv
<1>6. AgreeInv'
  <2> SUFFICES ASSUME NEW d \in Clients
               PROVE  Agrees(doc'[d], read'[d], log', made', chain')
    BY DEF AgreeInv
  <2>1. /\ log \in Seq(Decks(made)) /\ doc[d] \in Decks(made) /\ read[d] \in Nat
        /\ SeedItems \subseteq DOMAIN made /\ Agrees(doc[d], read[d], log, made, chain)
        /\ WellMade(made, chain)
    BY DEF DocsInv, AgreeInv, LibraryInv, Items
  <2>2. CASE d = c
    <3> DEFINE items == doc[c].items \cup new
               dead  == doc[c].gone \cup gone
    <3>1. /\ items \in SUBSET DOMAIN made' /\ dead \in SUBSET items
          /\ doc[c].items \subseteq items /\ doc[c].gone \subseteq dead
      BY <1>2
    <3>2. IdsAreNumbered(made') /\ WellMade(made', chain') /\ after = Settled(items, dead, made', chain')
      BY DEF Makes, LibraryInv
    <3> HIDE DEF items, dead
    <3>3. Agrees(after, read[c], Append(log, after), made', chain')
      BY <2>1, <2>2, <3>1, <3>2, AgreesAfter
    <3>4. doc'[c] = after
      BY <1>1 DEF DocsInv
    <3> QED BY <2>2, <3>3, <3>4, <1>1
  <2>3. CASE d # c
    <3>1. Agrees(doc[d], read[d], Append(log, after), made', chain')
      BY <2>1, <1>3, AgreesStill
    <3>2. doc'[d] = doc[d]
      BY <2>3, <1>1 DEF DocsInv
    <3> QED BY <3>1, <3>2, <1>1
  <2> QED BY <2>2, <2>3
<1> QED BY <1>5, <1>6

----------------------------------------------------------------------------
(* The histories.                                                           *)

\* What a client's history holds after an edit, when merging keeps what is so of
\* its changes.
LEMMA CapturedChanges ==
  ASSUME DOMAIN past = Clients, DOMAIN future = Clients,
         NEW c \in Clients, NEW S, past[c] \in Seq(S), NEW change \in S,
         \A x, y \in S : [ins |-> x.ins \cup y.ins, del |-> x.del \cup y.del] \in S,
         Captured(c, change)
  PROVE  /\ DOMAIN past' = Clients /\ DOMAIN future' = Clients
         /\ past'[c] \in Seq(S) /\ future'[c] = <<>>
         /\ \A d \in Clients \ {c} : past'[d] = past[d] /\ future'[d] = future[d]
<1>1. /\ DOMAIN future' = Clients /\ future'[c] = <<>>
      /\ \A d \in Clients \ {c} : future'[d] = future[d]
  BY DEF Captured
<1>2. CASE past' = [past EXCEPT ![c] = Append(@, change)]
  BY <1>1, <1>2
<1> DEFINE stack  == past[c]
           top    == stack[Len(stack)]
           merged == [ins |-> top.ins \cup change.ins, del |-> top.del \cup change.del]
<1>3. CASE stack # <<>> /\ past' = [past EXCEPT ![c] = [@ EXCEPT ![Len(stack)] = merged]]
  <2>1. Len(stack) \in 1..Len(stack)
    BY <1>3
  <2>2. top \in S
    BY <2>1
  <2>3. merged \in S
    BY <2>2
  <2> HIDE DEF merged
  <2>4. [stack EXCEPT ![Len(stack)] = merged] \in Seq(S)
    BY <2>1, <2>3
  <2>5. past'[c] = [stack EXCEPT ![Len(stack)] = merged]
    BY <1>3
  <2> QED BY <1>1, <1>3, <2>4, <2>5
<1> QED BY <1>2, <1>3 DEF Captured

LEMMA ChangesGrow ==
  ASSUME NEW items, NEW more, items \subseteq more
  PROVE  Seq(Changes(items)) \subseteq Seq(Changes(more))
<1>1. Changes(items) \subseteq Changes(more)
  BY DEF Changes
<1> QED BY <1>1

LEMMA EditKeepsHistory ==
  ASSUME DocsInv, HistoryInv, NEW c \in Clients,
         NEW new, NEW gone, NEW after, Makes(c, new, gone, after), Transacts(c, after),
         Captured(c, Change(doc[c], after))
  PROVE  HistoryInv'
<1> DEFINE change == Change(doc[c], after)
           S == Changes(after.items)
<1>1. after.items = doc[c].items \cup new /\ after.gone \subseteq after.items
  BY WhatItLeaves
<1>2. change \in S
  BY <1>1 DEF Changes, Change
<1>3. past[c] \in Seq(S)
  BY <1>1, ChangesGrow DEF HistoryInv
<1>4. \A x, y \in S : [ins |-> x.ins \cup y.ins, del |-> x.del \cup y.del] \in S
  BY DEF Changes
<1> HIDE DEF change, S
<1>5. Captured(c, change)
  BY DEF change
<1>6. /\ DOMAIN past' = Clients /\ DOMAIN future' = Clients
      /\ past'[c] \in Seq(S) /\ future'[c] = <<>>
      /\ \A d \in Clients \ {c} : past'[d] = past[d] /\ future'[d] = future[d]
  BY <1>2, <1>3, <1>4, <1>5, CapturedChanges DEF HistoryInv
<1>7. doc'[c] = after /\ \A d \in Clients \ {c} : doc'[d] = doc[d]
  BY DEF Transacts, DocsInv
<1>8. past'[c] \in Seq(Changes(doc'[c].items)) /\ future'[c] \in Seq(Changes(doc'[c].items))
  BY <1>6, <1>7 DEF S
<1>9. \A d \in Clients \ {c} : /\ past'[d] \in Seq(Changes(doc'[d].items))
                               /\ future'[d] \in Seq(Changes(doc'[d].items))
  BY <1>6, <1>7 DEF HistoryInv
<1> QED BY <1>6, <1>8, <1>9 DEF HistoryInv

----------------------------------------------------------------------------
(* The operations, as transactions.                                         *)

LEMMA EditsIs ==
  ASSUME NEW c, NEW new, NEW gone, Edits(c, new, gone)
  PROVE  \E after : /\ after = Settled(doc[c].items \cup new, doc[c].gone \cup gone, made', chain')
                    /\ Transacts(c, after) /\ Captured(c, Change(doc[c], after))
  BY DEF Edits

LEMMA EntryIsLive ==
  ASSUME NEW d, NEW x, Has(d, x)
  PROVE  EntryOf(d, x) \in Live(d) /\ EntryOf(d, x) \in ToSet(chain[x])
<1>1. EntryOf(d, x) \in EntriesOf(d, x)
  BY DEF Has, EntryOf
<1> QED BY <1>1 DEF EntriesOf

\* What an edit makes brings nothing back.  A place it makes for a slide is that of
\* a new slide, or for another that goes; a place of a slide goes with the slide, or
\* for another.
SlidePlaces(m) == {i \in DOMAIN m : m[i].kind = "place" /\ m[i].within = Slides}
Replaces(c, new, gone, after) ==
  /\ \A j \in new : made'[j].redoes = Nothing
  /\ \A j \in new \cap SlidePlaces(made') :
       \/ made'[j].of \in new
       \/ \E i \in (gone \ doc[c].gone) \cap SlidePlaces(made) : made[i].of = made'[j].of
  /\ \A i \in gone \cap SlidePlaces(made) :
       \/ made[i].of \in after.gone
       \/ \E j \in new \cap SlidePlaces(made') : made'[j].of = made[i].of

\* What an edit of c is: some items made, some deleted.
EditIs(c) ==
  \E new, gone, after : /\ Makes(c, new, gone, after) /\ Replaces(c, new, gone, after)
                        /\ Transacts(c, after) /\ Captured(c, Change(doc[c], after))

LEMMA DeletionMakes ==
  ASSUME LibraryInv(made, chain), DocsInv, NEW c \in Clients,
         NEW gone, gone \subseteq doc[c].items, UNCHANGED library, Edits(c, {}, gone),
         \A i \in gone \cap SlidePlaces(made) : made[i].of \in doc[c].gone \cup gone
  PROVE  EditIs(c)
<1>1. made' = made /\ chain' = chain
  BY DEF library
<1>2. PICK after : /\ after = Settled(doc[c].items \cup {}, doc[c].gone \cup gone, made', chain')
                   /\ Transacts(c, after) /\ Captured(c, Change(doc[c], after))
  BY EditsIs
<1>3. Grows(made, chain, made', chain') /\ LibraryInv(made', chain')
  BY <1>1, GrowsNot
<1>4. DOMAIN made' = Items \cup {}
  BY <1>1 DEF Items
<1>5. Makes(c, {}, gone, after)
  BY <1>2, <1>3, <1>4 DEF Makes
<1>6. Replaces(c, {}, gone, after)
  <2>1. doc[c].gone \cup gone \subseteq after.gone
    BY <1>5, WhatItLeaves
  <2> QED BY <2>1 DEF Replaces
<1> QED BY <1>2, <1>5, <1>6 DEF EditIs

LEMMA ObjectMakes ==
  ASSUME LibraryInv(made, chain), NEW c \in Clients,
         NEW l, l = Slides \/ (l \in Items /\ made[l].kind = "entry"),
         made' = WithObject(NewId(c, 1), NewId(c, 2), l),
         chain' = With(chain, NewId(c, 1), <<NewId(c, 1)>>),
         Edits(c, {NewId(c, 1), NewId(c, 2)}, {})
  PROVE  EditIs(c)
<1> DEFINE new == {NewId(c, 1), NewId(c, 2)}
<1>1. /\ LibraryInv(made', chain') /\ Grows(made, chain, made', chain')
      /\ DOMAIN made' = Items \cup new
      /\ made'[NewId(c, 1)].of = NewId(c, 1) /\ made'[NewId(c, 2)].of = NewId(c, 1)
      /\ made'[NewId(c, 1)].redoes = Nothing /\ made'[NewId(c, 2)].redoes = Nothing
  BY LibraryWithObject
<1>2. new \cap Items = {} /\ \A j \in new : j[1] = c
  BY SomeNewIds, FreshIsNew DEF LibraryInv
<1>3. PICK after : /\ after = Settled(doc[c].items \cup new, doc[c].gone \cup {}, made', chain')
                   /\ Transacts(c, after) /\ Captured(c, Change(doc[c], after))
  BY EditsIs
<1>4. \A j \in new : made'[j].of \in doc[c].items \cup new
  BY <1>1
<1>5. Replaces(c, new, {}, after)
  BY <1>1 DEF Replaces
<1> HIDE DEF new
<1>6. Makes(c, new, {}, after)
  BY <1>1, <1>2, <1>3, <1>4 DEF Makes
<1> QED BY <1>3, <1>5, <1>6 DEF EditIs

LEMMA InsertSlideMakes ==
  ASSUME LibraryInv(made, chain), NEW c \in Clients, NEW at, InsertSlide(c, at)
  PROVE  EditIs(c)
  BY ObjectMakes DEF InsertSlide

LEMMA AddShapeMakes ==
  ASSUME LibraryInv(made, chain), NEW c \in Clients, NEW s \in SlideIds, AddShape(c, s)
  PROVE  EditIs(c)
<1> DEFINE l == EntryOf(doc[c], s)
<1>1. s \in DOMAIN chain
  BY DEF SlideIds, LibraryInv, WellMade, Items
<1>2. l \in ToSet(chain[s])
  BY EntryIsLive DEF AddShape
<1>3. chain[s] \in Seq(Items) /\ made[l].kind = "entry"
  BY <1>1, <1>2 DEF LibraryInv, WellMade, Items
<1>4. l \in Items
  BY <1>2, <1>3 DEF ToSet
<1>5. /\ made' = WithObject(NewId(c, 1), NewId(c, 2), l)
      /\ chain' = With(chain, NewId(c, 1), <<NewId(c, 1)>>)
      /\ Edits(c, {NewId(c, 1), NewId(c, 2)}, {})
  BY DEF AddShape
<1> HIDE DEF l
<1> QED BY <1>3, <1>4, <1>5, ObjectMakes

\* Deleting the entry an object has deletes its first, if that was not gone: the
\* last of its entries hides it.
LEMMA FirstEntryGoes ==
  ASSUME LibraryInv(made, chain), NEW d \in Decks(made), Closed(d, made, chain),
         NEW i \in d.items, Has(d, made[i].of)
  PROVE  made[i].of \in d.gone \cup {EntryOf(d, made[i].of)}
<1> DEFINE x == made[i].of
           e == EntryOf(d, x)
<1> SUFFICES ASSUME x \notin d.gone, x # e
             PROVE  FALSE
  OBVIOUS
<1>1. i \in Items /\ x \in d.items /\ x \in DOMAIN chain
  BY DEF Decks, LibraryInv, WellMade, Items
<1>2. /\ x \in ToSet(chain[x]) /\ chain[x] \in Seq(Items)
      /\ \A j \in ToSet(chain[x]) : made[j].kind = "entry" /\ made[j].of = x
  BY <1>1 DEF LibraryInv, WellMade, Items
<1>3. e \in d.items /\ e \notin d.gone /\ e \in ToSet(chain[x])
  BY EntryIsLive DEF Live
<1>4. PICK n \in DOMAIN chain[x], o \in DOMAIN chain[x] : chain[x][n] = x /\ chain[x][o] = e
  BY <1>2, <1>3 DEF ToSet
<1>5. Before(chain[x], x, e) \/ Before(chain[x], e, x)
  <2>1. n < o \/ o < n
    <3> HIDE DEF x, e
    <3>1. n \in Nat /\ o \in Nat /\ n # o
      BY <1>2, <1>4
    <3> QED BY <3>1
  <2> HIDE DEF x, e
  <2> QED BY <1>4, <2>1 DEF Before
<1>6. /\ made[x].kind = "entry" /\ made[x].of = x
      /\ made[e].kind = "entry" /\ made[e].of = x
  BY <1>2, <1>3
<1>7. Hidden(d.items, made, chain) \subseteq d.gone
  BY DEF Closed
<1> HIDE DEF x, e
<1>8. x \in Hidden(d.items, made, chain) \/ e \in Hidden(d.items, made, chain)
  BY <1>1, <1>3, <1>5, <1>6, HiddenIs
<1> QED BY <1>3, <1>7, <1>8

LEMMA DeleteSlideMakes ==
  ASSUME LibraryInv(made, chain), DocsInv, AgreeInv, NEW c \in Clients, NEW s, DeleteSlide(c, s)
  PROVE  EditIs(c)
<1> DEFINE d == doc[c]
           shapes == {EntryOf(d, x) : x \in ShapesOn(d, s)}
<1>1. PICK p \in FirstPlaces(d, Slides, s) : Edits(c, {}, {p, EntryOf(d, s)} \cup shapes)
  BY DEF DeleteSlide
<1>2. p \in d.items
  BY <1>1 DEF FirstPlaces, PlacesOf, Places, Live
<1>3. Has(d, s) /\ \A x \in ShapesOn(d, s) : Has(d, x)
  BY DEF DeleteSlide, SlideIsWhole
<1>4. {p, EntryOf(d, s)} \cup shapes \subseteq d.items
  BY <1>2, <1>3, EntryIsLive DEF Live
<1> DEFINE gone == {p, EntryOf(d, s)} \cup shapes
<1>5. \A i \in gone \cap SlidePlaces(made) : i = p
  <2>1. \A i \in ShapesOn(d, s) : i \in DOMAIN chain
    BY DEF ShapesOn, Places, Live, DocsInv, Decks, LibraryInv, WellMade
  <2>2. s \in DOMAIN chain
    BY <1>1, <1>2 DEF FirstPlaces, PlacesOf, Places, DocsInv, Decks, LibraryInv, WellMade
  <2>3. \A x \in DOMAIN chain : Has(d, x) => made[EntryOf(d, x)].kind = "entry"
    BY EntryIsLive DEF LibraryInv, WellMade
  <2> QED BY <1>3, <2>1, <2>2, <2>3 DEF SlidePlaces
<1>6. made[p].of = s
  BY <1>1 DEF FirstPlaces, PlacesOf
<1>7. s \in d.gone \cup {EntryOf(d, s)}
  <2>1. d \in Decks(made) /\ Closed(d, made, chain)
    BY DEF DocsInv, AgreeInv, Agrees
  <2> QED BY <2>1, <1>2, <1>3, <1>6, FirstEntryGoes
<1>8. \A i \in gone \cap SlidePlaces(made) : made[i].of \in d.gone \cup gone
  BY <1>5, <1>6, <1>7
<1>9. gone \subseteq d.items /\ Edits(c, {}, gone)
  BY <1>1, <1>4
<1> HIDE DEF gone
<1> QED BY <1>8, <1>9, DeletionMakes DEF DeleteSlide

LEMMA RemoveShapeMakes ==
  ASSUME LibraryInv(made, chain), DocsInv, NEW c \in Clients, NEW s \in SlideIds, NEW x,
         RemoveShape(c, s, x)
  PROVE  EditIs(c)
<1> DEFINE d == doc[c]
<1>1. PICK p \in FirstPlaces(d, EntryOf(d, s), x) : Edits(c, {}, {p, EntryOf(d, x)})
  BY DEF RemoveShape
<1>2. p \in d.items
  BY <1>1 DEF FirstPlaces, PlacesOf, Places, Live
<1>3. EntryOf(d, x) \in d.items
  BY EntryIsLive DEF RemoveShape, Live
<1>4. p \in Items /\ made[p].of = x /\ made[p].within = EntryOf(d, s)
  BY <1>1, <1>2 DEF FirstPlaces, PlacesOf, Places, DocsInv, Decks, Items
<1>5. s \in DOMAIN chain /\ x \in DOMAIN chain
  BY <1>4 DEF SlideIds, LibraryInv, WellMade, Items
<1>6. \A y \in DOMAIN chain : Has(d, y) => EntryOf(d, y) \in Items /\ made[EntryOf(d, y)].kind = "entry"
  BY EntryIsLive DEF LibraryInv, WellMade, Items, Live, DocsInv, Decks
<1>7. Slides \notin Items
  BY DEF LibraryInv, IdsAreNumbered, Items
<1>8. Has(d, s) /\ Has(d, x)
  BY DEF RemoveShape
<1>9. \A i \in {p, EntryOf(d, x)} : i \notin SlidePlaces(made)
  BY <1>4, <1>5, <1>6, <1>7, <1>8 DEF SlidePlaces
<1>10. {p, EntryOf(d, x)} \subseteq d.items
  BY <1>2, <1>3
<1> QED BY <1>1, <1>9, <1>10, DeletionMakes DEF RemoveShape

LEMMA MoveSlideMakes ==
  ASSUME LibraryInv(made, chain), DocsInv, NEW c \in Clients, NEW s \in SlideIds, NEW to,
         MoveSlide(c, s, to)
  PROVE  EditIs(c)
<1> DEFINE p == NewId(c, 1)
           d == doc[c]
<1>1. s \in DOMAIN chain
  BY DEF SlideIds, LibraryInv, WellMade, Items
<1>2. PICK old \in FirstPlaces(d, Slides, s) :
        /\ made' = With(made, p, Place(s, Slides, Nothing))
        /\ chain' = chain /\ Edits(c, {p}, {old})
  BY DEF MoveSlide
<1>3. old \in d.items /\ s \in d.items
  <2>1. old \in d.items /\ made[old].of = s
    BY <1>2 DEF FirstPlaces, PlacesOf, Places, Live
  <2> QED BY <2>1 DEF DocsInv, Decks
<1>4. /\ LibraryInv(made', chain') /\ Grows(made, chain, made', chain')
      /\ DOMAIN made' = Items \cup {p} /\ made'[p].of = s
      /\ made'[p].kind = "place" /\ made'[p].within = Slides /\ made'[p].redoes = Nothing
  <2> DEFINE m == made'
  <2>1. m = With(made, NewId(c, 1), Place(s, Slides, Nothing))
    BY <1>2
  <2> HIDE DEF m
  <2>2. LibraryInv(m, chain) /\ Grows(made, chain, m, chain) /\ HasPlace(m, s, NewId(c, 1))
    BY <1>1, <2>1, LibraryWithPlace
  <2> QED BY <1>2, <2>2 DEF m, HasPlace
<1>5. p[1] = c /\ p \notin Items
  BY SomeNewIds, FreshIsNew DEF LibraryInv
<1>6. PICK after : /\ after = Settled(d.items \cup {p}, d.gone \cup {old}, made', chain')
                   /\ Transacts(c, after) /\ Captured(c, Change(d, after))
  BY <1>2, EditsIs
<1> HIDE DEF p
<1>7. Makes(c, {p}, {old}, after)
  BY <1>3, <1>4, <1>5, <1>6 DEF Makes
<1>8. old \in SlidePlaces(made) /\ made[old].of = s /\ old \notin d.gone
  BY <1>2, <1>3 DEF FirstPlaces, PlacesOf, Places, Live, IsPlace, SlidePlaces, DocsInv, Decks
<1>9. p \in SlidePlaces(made')
  BY <1>4 DEF SlidePlaces
<1>10. Replaces(c, {p}, {old}, after)
  BY <1>4, <1>8, <1>9 DEF Replaces
<1> QED BY <1>6, <1>7, <1>10 DEF EditIs

LEMMA EditMakes ==
  ASSUME LibraryInv(made, chain), DocsInv, AgreeInv, NEW c \in Clients, Edit(c)
  PROVE  EditIs(c)
  BY InsertSlideMakes, AddShapeMakes, DeleteSlideMakes, RemoveShapeMakes, MoveSlideMakes DEF Edit

\* What an undo or redo deletes is known, and so is what it brings back.
LEMMA ToDeleteIsKnown ==
  ASSUME LibraryInv(made, chain), DocsInv, NEW c \in Clients,
         NEW change \in Changes(doc[c].items)
  PROVE  ToDelete(c, change) \subseteq doc[c].items
<1> SUFFICES ASSUME NEW i \in change.ins
             PROVE  LastRedone(c)[i] \in doc[c].items
  BY DEF ToDelete
<1>1. i \in doc[c].items /\ i \in Items
  BY DEF Changes, DocsInv, Decks, Items
<1>2. /\ LastRedone(c)[i] \in Items
      /\ LastRedone(c)[i] = i \/ LastRedone(c)[i][1] = c
  BY <1>1, LastRedoneIsGood
<1>3. LastRedone(c)[i][1] = c => LastRedone(c)[i] \in MadeBy(c, made)
  BY <1>2 DEF MadeBy, Items
<1> QED BY <1>1, <1>2, <1>3 DEF DocsInv

LEMMA ReturningIsKnown ==
  ASSUME NEW c, NEW change \in Changes(doc[c].items), NEW others
  PROVE  /\ Returning(c, change, others) \subseteq doc[c].items
         /\ \A i \in Returning(c, change, others) : Redone(c, i) = {} /\ i \in change.del
  BY DEF Returning, ToRedo, Changes

\* Undo and redo: a change taken back.
TakenBackAs(c, change, others, new, after) ==
  /\ new = NewIds(c, Returning(c, change, others))
  /\ Library(c, new)
  /\ after = Settled(doc[c].items \cup ToRange(new), doc[c].gone \cup ToDelete(c, change),
                     made', chain')
  /\ Transacts(c, after)

LEMMA TakingBackMakes ==
  ASSUME LibraryInv(made, chain), DocsInv, NEW c \in Clients,
         NEW change \in Changes(doc[c].items), NEW others, NEW new, NEW after,
         TakenBackAs(c, change, others, new, after)
  PROVE  Makes(c, ToRange(new), ToDelete(c, change), after)
<1> DEFINE back == Returning(c, change, others)
           added == ToRange(new)
<1>1. doc[c] \in Decks(made)
  BY DEF DocsInv
<1>2. back \in SUBSET doc[c].items /\ \A i \in back : Redone(c, i) = {}
  BY ReturningIsKnown
<1>3. new = NewIds(c, back) /\ Library(c, new)
  BY DEF TakenBackAs
<1> HIDE DEF back
<1>4. /\ LibraryInv(made', chain') /\ Grows(made, chain, made', chain')
      /\ Brings(c, back, new)
  <2>1. back \in SUBSET doc[c].items
    BY <1>2
  <2>2. \A i \in back : Redone(c, i) = {}
    BY <1>2
  <2>3. new = NewIds(c, back)
    BY <1>3
  <2>4. Library(c, new)
    BY <1>3
  <2> HIDE DEF added
  <2> QED BY <1>1, <2>1, <2>2, <2>3, <2>4, LibraryWithBack
<1>5. \A j \in ToRange(new) : j[1] = c
  <2>1. back \in SUBSET Items
    BY <1>1, <1>2 DEF Decks, Items
  <2>2. Fresh(c, ToRange(new))
    BY <2>1, <1>3, NewIdsAreFresh DEF LibraryInv
  <2> QED BY <2>2, FreshIsNew DEF LibraryInv
<1>6. \A j \in ToRange(new) : made'[j].of \in doc[c].items
  BY <1>1, <1>2, <1>4 DEF Decks, Brings
<1>7. ToDelete(c, change) \subseteq doc[c].items
  BY ToDeleteIsKnown
<1>8. after = Settled(doc[c].items \cup ToRange(new), doc[c].gone \cup ToDelete(c, change),
                      made', chain')
  BY DEF TakenBackAs
<1>9. DOMAIN made' = Items \cup ToRange(new) /\ ToRange(new) \cap Items = {}
  BY <1>4 DEF Brings
<1> HIDE DEF added
<1> QED BY <1>4, <1>5, <1>6, <1>7, <1>8, <1>9 DEF Makes

\* The change taken back is one of the stack, unless there is none to take back.
UndoTakes(c) ==
  \E top, others, new, after :
    /\ top \in DOMAIN past[c]
    /\ TakenBackAs(c, past[c][top], others, new, after)
    /\ past' = [past EXCEPT ![c] = SubSeq(@, 1, top - 1)]
    /\ future' = [future EXCEPT ![c] =
                    IF after = doc[c] THEN @ ELSE Append(@, Change(doc[c], after))]
RedoTakes(c) ==
  \E top, others, new, after :
    /\ top \in DOMAIN future[c]
    /\ TakenBackAs(c, future[c][top], others, new, after)
    /\ future' = [future EXCEPT ![c] = SubSeq(@, 1, top - 1)]
    /\ past' = [past EXCEPT ![c] =
                  IF after = doc[c] THEN @ ELSE Append(@, Change(doc[c], after))]

\* Of the changes that can be taken back the last is one.
LEMMA TopIsOne ==
  ASSUME NEW S, NEW stack \in Seq(S), NEW able, able \subseteq DOMAIN stack, able # {}
  PROVE  (CHOOSE n \in able : \A m \in able : m <= n) \in able
<1>1. able \in SUBSET (1..Len(stack)) /\ Len(stack) \in Nat
  OBVIOUS
<1>2. \E n \in able : \A m \in able : m <= n
  BY <1>1, Greatest
<1> QED BY <1>2

LEMMA UndoIs ==
  ASSUME HistoryInv, NEW c \in Clients, Undo(c)
  PROVE  \/ /\ UNCHANGED <<library, doc, network, future>>
            /\ past' = [past EXCEPT ![c] = <<>>]
         \/ UndoTakes(c)
<1> DEFINE Others(n) == ToSet(SubSeq(past[c], 1, n - 1)) \cup ToSet(future[c])
           able == {n \in DOMAIN past[c] : Performs(c, past[c][n], Others(n))}
           top  == CHOOSE n \in able : \A m \in able : m <= n
<1>1. \/ /\ UNCHANGED <<library, doc, network, future>>
         /\ past' = [past EXCEPT ![c] = <<>>]
      \/ /\ able # {} /\ TakesBack(c, past[c][top], Others(top), future)
         /\ past' = [past EXCEPT ![c] = SubSeq(@, 1, top - 1)]
  BY DEF Undo, Pop
<1>2. able # {} => top \in able
  <2>1. able \subseteq DOMAIN past[c]
    OBVIOUS
  <2> HIDE DEF able
  <2> QED BY <2>1, TopIsOne DEF HistoryInv
<1>3. able \subseteq DOMAIN past[c]
  OBVIOUS
<1> HIDE DEF Others, able, top
<1>4. ASSUME able # {}, TakesBack(c, past[c][top], Others(top), future),
             past' = [past EXCEPT ![c] = SubSeq(@, 1, top - 1)]
      PROVE  UndoTakes(c)
  BY <1>2, <1>3, <1>4 DEF UndoTakes, TakesBack, TakenBackAs
<1> QED BY <1>1, <1>4

LEMMA RedoIs ==
  ASSUME HistoryInv, NEW c \in Clients, Redo(c)
  PROVE  \/ /\ UNCHANGED <<library, doc, network, past>>
            /\ future' = [future EXCEPT ![c] = <<>>]
         \/ RedoTakes(c)
<1> DEFINE Others(n) == ToSet(SubSeq(future[c], 1, n - 1)) \cup ToSet(past[c])
           able == {n \in DOMAIN future[c] : Performs(c, future[c][n], Others(n))}
           top  == CHOOSE n \in able : \A m \in able : m <= n
<1>1. \/ /\ UNCHANGED <<library, doc, network, past>>
         /\ future' = [future EXCEPT ![c] = <<>>]
      \/ /\ able # {} /\ TakesBack(c, future[c][top], Others(top), past)
         /\ future' = [future EXCEPT ![c] = SubSeq(@, 1, top - 1)]
  BY DEF Redo, Pop
<1>2. able # {} => top \in able
  <2>1. able \subseteq DOMAIN future[c]
    OBVIOUS
  <2> HIDE DEF able
  <2> QED BY <2>1, TopIsOne DEF HistoryInv
<1>3. able \subseteq DOMAIN future[c]
  OBVIOUS
<1> HIDE DEF Others, able, top
<1>4. ASSUME able # {}, TakesBack(c, future[c][top], Others(top), past),
             future' = [future EXCEPT ![c] = SubSeq(@, 1, top - 1)]
      PROVE  RedoTakes(c)
  BY <1>2, <1>3, <1>4 DEF RedoTakes, TakesBack, TakenBackAs
<1> QED BY <1>1, <1>4

----------------------------------------------------------------------------
(* Every step keeps the agreement.                                          *)

LEMMA EditStep ==
  ASSUME Inv, NEW c \in Clients, Edit(c)
  PROVE  Inv'
<1>1. PICK new, gone, after : /\ Makes(c, new, gone, after) /\ Transacts(c, after)
                              /\ Captured(c, Change(doc[c], after))
  BY EditMakes DEF EditIs, Inv
<1>2. LibraryInv(made', chain')
  BY <1>1 DEF Makes
<1>3. DocsInv' /\ AgreeInv'
  BY <1>1, TransactionKeepsDocs DEF Inv
<1>4. HistoryInv'
  BY <1>1, EditKeepsHistory DEF Inv
<1> QED BY <1>2, <1>3, <1>4 DEF Inv

\* The history on the other side holds what taking the change back has changed.
LEMMA TakingBackChanges ==
  ASSUME Inv, NEW c \in Clients, NEW change \in Changes(doc[c].items), NEW others,
         NEW new, NEW after, TakenBackAs(c, change, others, new, after)
  PROVE  /\ LibraryInv(made', chain') /\ DocsInv' /\ AgreeInv'
         /\ Change(doc[c], after) \in Changes(after.items)
         /\ doc[c].items \subseteq after.items
         /\ doc'[c] = after /\ \A d \in Clients \ {c} : doc'[d] = doc[d]
<1>1. Makes(c, ToRange(new), ToDelete(c, change), after)
  BY TakingBackMakes DEF Inv
<1>2. Transacts(c, after)
  BY DEF TakenBackAs
<1>3. LibraryInv(made', chain')
  BY <1>1 DEF Makes
<1>4. DocsInv' /\ AgreeInv'
  BY <1>1, <1>2, TransactionKeepsDocs DEF Inv
<1>5. doc[c].items \subseteq after.items /\ after.gone \subseteq after.items
  BY <1>1, WhatItLeaves DEF Inv
<1>6. Change(doc[c], after) \in Changes(after.items)
  BY <1>5 DEF Change, Changes
<1>7. doc'[c] = after /\ \A d \in Clients \ {c} : doc'[d] = doc[d]
  BY <1>2 DEF Transacts, Inv, DocsInv
<1> QED BY <1>3, <1>4, <1>5, <1>6, <1>7

\* A history that is shortened, or that one change is added to.
LEMMA Shortened ==
  ASSUME NEW S, NEW stack \in Seq(S), NEW top \in DOMAIN stack
  PROVE  SubSeq(stack, 1, top - 1) \in Seq(S) /\ stack[top] \in S
  OBVIOUS

LEMMA Lengthened ==
  ASSUME NEW S, NEW T, S \subseteq T, NEW stack \in Seq(S), NEW change \in T, NEW added \in BOOLEAN
  PROVE  (IF added THEN Append(stack, change) ELSE stack) \in Seq(T)
<1>1. stack \in Seq(T)
  OBVIOUS
<1> QED BY <1>1

LEMMA UndoStep ==
  ASSUME Inv, NEW c \in Clients, Undo(c)
  PROVE  Inv'
<1>1. CASE /\ UNCHANGED <<library, doc, network, future>>
           /\ past' = [past EXCEPT ![c] = <<>>]
  <2>1. <<>> \in Seq(Changes(doc[c].items))
    OBVIOUS
  <2>2. HistoryInv'
    BY <1>1, <2>1 DEF HistoryInv, Inv
  <2> QED BY <1>1, <2>2 DEF Inv, DocsInv, AgreeInv, library, network, Items
<1>2. CASE UndoTakes(c)
  <2>1. PICK top, others, new, after :
          /\ top \in DOMAIN past[c]
          /\ TakenBackAs(c, past[c][top], others, new, after)
          /\ past' = [past EXCEPT ![c] = SubSeq(@, 1, top - 1)]
          /\ future' = [future EXCEPT ![c] =
                          IF after = doc[c] THEN @ ELSE Append(@, Change(doc[c], after))]
    BY <1>2 DEF UndoTakes
  <2>2. /\ past[c] \in Seq(Changes(doc[c].items)) /\ future[c] \in Seq(Changes(doc[c].items))
        /\ DOMAIN past = Clients /\ DOMAIN future = Clients
    BY DEF Inv, HistoryInv
  <2>3. SubSeq(past[c], 1, top - 1) \in Seq(Changes(doc[c].items))
        /\ past[c][top] \in Changes(doc[c].items)
    BY <2>1, <2>2, Shortened
  <2>4. /\ LibraryInv(made', chain') /\ DocsInv' /\ AgreeInv'
        /\ Change(doc[c], after) \in Changes(after.items)
        /\ doc[c].items \subseteq after.items
        /\ doc'[c] = after /\ \A d \in Clients \ {c} : doc'[d] = doc[d]
    BY <2>1, <2>3, TakingBackChanges
  <2>5. Changes(doc[c].items) \subseteq Changes(after.items)
        /\ Seq(Changes(doc[c].items)) \subseteq Seq(Changes(after.items))
    BY <2>4, ChangesGrow DEF Changes
  <2>6. past'[c] \in Seq(Changes(after.items)) /\ future'[c] \in Seq(Changes(after.items))
    <3>1. past'[c] = SubSeq(past[c], 1, top - 1)
      BY <2>1, <2>2
    <3> DEFINE added == after # doc[c]
               change == Change(doc[c], after)
    <3>2. future'[c] = IF added THEN Append(future[c], change) ELSE future[c]
      BY <2>1, <2>2
    <3>3. change \in Changes(after.items) /\ added \in BOOLEAN
      BY <2>4
    <3> HIDE DEF added, change
    <3>4. future'[c] \in Seq(Changes(after.items))
      BY <2>2, <2>5, <3>2, <3>3, Lengthened
    <3> QED BY <2>3, <2>5, <3>1, <3>4
  <2>7. HistoryInv'
    BY <2>1, <2>2, <2>4, <2>6 DEF HistoryInv, Inv
  <2> QED BY <2>4, <2>7 DEF Inv
<1> QED BY <1>1, <1>2, UndoIs DEF Inv

LEMMA RedoStep ==
  ASSUME Inv, NEW c \in Clients, Redo(c)
  PROVE  Inv'
<1>1. CASE /\ UNCHANGED <<library, doc, network, past>>
           /\ future' = [future EXCEPT ![c] = <<>>]
  <2>1. <<>> \in Seq(Changes(doc[c].items))
    OBVIOUS
  <2>2. HistoryInv'
    BY <1>1, <2>1 DEF HistoryInv, Inv
  <2> QED BY <1>1, <2>2 DEF Inv, DocsInv, AgreeInv, library, network, Items
<1>2. CASE RedoTakes(c)
  <2>1. PICK top, others, new, after :
          /\ top \in DOMAIN future[c]
          /\ TakenBackAs(c, future[c][top], others, new, after)
          /\ future' = [future EXCEPT ![c] = SubSeq(@, 1, top - 1)]
          /\ past' = [past EXCEPT ![c] =
                        IF after = doc[c] THEN @ ELSE Append(@, Change(doc[c], after))]
    BY <1>2 DEF RedoTakes
  <2>2. /\ past[c] \in Seq(Changes(doc[c].items)) /\ future[c] \in Seq(Changes(doc[c].items))
        /\ DOMAIN past = Clients /\ DOMAIN future = Clients
    BY DEF Inv, HistoryInv
  <2>3. SubSeq(future[c], 1, top - 1) \in Seq(Changes(doc[c].items))
        /\ future[c][top] \in Changes(doc[c].items)
    BY <2>1, <2>2, Shortened
  <2>4. /\ LibraryInv(made', chain') /\ DocsInv' /\ AgreeInv'
        /\ Change(doc[c], after) \in Changes(after.items)
        /\ doc[c].items \subseteq after.items
        /\ doc'[c] = after /\ \A d \in Clients \ {c} : doc'[d] = doc[d]
    BY <2>1, <2>3, TakingBackChanges
  <2>5. Changes(doc[c].items) \subseteq Changes(after.items)
        /\ Seq(Changes(doc[c].items)) \subseteq Seq(Changes(after.items))
    BY <2>4, ChangesGrow DEF Changes
  <2>6. past'[c] \in Seq(Changes(after.items)) /\ future'[c] \in Seq(Changes(after.items))
    <3>1. future'[c] = SubSeq(future[c], 1, top - 1)
      BY <2>1, <2>2
    <3> DEFINE added == after # doc[c]
               change == Change(doc[c], after)
    <3>2. past'[c] = IF added THEN Append(past[c], change) ELSE past[c]
      BY <2>1, <2>2
    <3>3. change \in Changes(after.items) /\ added \in BOOLEAN
      BY <2>4
    <3> HIDE DEF added, change
    <3>4. past'[c] \in Seq(Changes(after.items))
      BY <2>2, <2>5, <3>2, <3>3, Lengthened
    <3> QED BY <2>3, <2>5, <3>1, <3>4
  <2>7. HistoryInv'
    BY <2>1, <2>2, <2>4, <2>6 DEF HistoryInv, Inv
  <2> QED BY <2>4, <2>7 DEF Inv
<1> QED BY <1>1, <1>2, RedoIs DEF Inv

\* Reading anew agrees with no frame yet.
LEMMA AgreesWithNone ==
  ASSUME NEW d, NEW n, NEW S, NEW frames \in Seq(S), NEW m, NEW ch, Agrees(d, n, frames, m, ch)
  PROVE  Agrees(d, 0, frames, m, ch)
  BY DEF Agrees

LEMMA ConnectStep ==
  ASSUME Inv, NEW c \in Clients, Connect(c)
  PROVE  Inv'
<1>1. /\ UNCHANGED <<library, sessions, log>>
      /\ link' = [link EXCEPT ![c] = "on"] /\ read' = [read EXCEPT ![c] = 0]
  BY DEF Connect
<1>2. DocsInv'
  BY <1>1 DEF Inv, DocsInv, library, sessions, Items
<1>3. ASSUME NEW d \in Clients PROVE Agrees(doc[d], read'[d], log, made, chain)
  BY <1>1, AgreesWithNone DEF Inv, AgreeInv, DocsInv
<1> QED BY <1>1, <1>2, <1>3 DEF Inv, HistoryInv, AgreeInv, library, sessions

LEMMA AnswerStep ==
  ASSUME Inv, NEW c \in Clients, Answer(c)
  PROVE  Inv'
<1>1. /\ UNCHANGED <<library, sessions, link, read>>
      /\ log' = log \/ log' = Append(log, doc[c])
  BY DEF Answer
<1>2. log \in Seq(Decks(made)) /\ doc[c] \in Decks(made)
  BY DEF Inv, DocsInv
<1>3. DocsInv'
  <2>1. Append(log, doc[c]) \in Seq(Decks(made))
    BY <1>2
  <2>2. log' \in Seq(Decks(made))
    BY <2>1, <1>1, <1>2
  <2>3. UNCHANGED <<made, doc, read, link>>
    BY <1>1 DEF library, sessions
  <2> QED BY <2>2, <2>3 DEF Inv, DocsInv, Items
<1>4. ASSUME NEW d \in Clients PROVE Agrees(doc[d], read[d], log', made, chain)
  <2>1. /\ doc[d] \in Decks(made) /\ read[d] \in Nat /\ SeedItems \subseteq DOMAIN made
        /\ WellMade(made, chain) /\ Grows(made, chain, made, chain)
        /\ Agrees(doc[d], read[d], log, made, chain)
    BY GrowsNot DEF Inv, DocsInv, AgreeInv, LibraryInv, Items
  <2>2. Agrees(doc[d], read[d], Append(log, doc[c]), made, chain)
    BY <2>1, <1>2, AgreesStill
  <2> QED BY <2>1, <2>2, <1>1
<1> QED BY <1>1, <1>3, <1>4 DEF Inv, HistoryInv, AgreeInv, library, sessions

LEMMA ReceiveStep ==
  ASSUME Inv, NEW c \in Clients, Receive(c)
  PROVE  Inv'
<1> DEFINE n == read[c]
           staged == Joined(doc[c], log[n + 1])
<1>1. /\ n < Len(log) /\ UNCHANGED <<library, past, future, log>>
      /\ \/ /\ doc' = [doc EXCEPT ![c] = staged]
            /\ read' = [read EXCEPT ![c] = @ + 1] /\ link' = link
         \/ /\ doc' = doc /\ link' = [link EXCEPT ![c] = "off"]
            /\ read' = [read EXCEPT ![c] = 0]
  BY DEF Receive
<1>2. /\ log \in Seq(Decks(made)) /\ doc[c] \in Decks(made) /\ n \in Nat
      /\ SeedItems \subseteq DOMAIN made /\ Agrees(doc[c], n, log, made, chain)
      /\ IdsAreNumbered(made) /\ WellMade(made, chain)
  BY DEF Inv, DocsInv, AgreeInv, LibraryInv, Items
<1>3. staged \in Decks(made) /\ Agrees(staged, n + 1, log, made, chain)
  <2>1. staged = Settled(doc[c].items \cup log[n + 1].items,
                         doc[c].gone \cup log[n + 1].gone, made, chain)
    BY DEF Joined
  <2> HIDE DEF staged, n
  <2> QED BY <2>1, <1>1, <1>2, AgreesWithOneMore
<1>4. doc[c].items \subseteq staged.items
  BY SettledIs DEF Joined
<1> HIDE DEF staged
<1>5. CASE /\ doc' = [doc EXCEPT ![c] = staged]
           /\ read' = [read EXCEPT ![c] = @ + 1] /\ link' = link
  <2>1. DocsInv'
    <3>1. doc' \in [Clients -> Decks(made)] /\ read' \in [Clients -> Nat]
      BY <1>3, <1>5 DEF Inv, DocsInv
    <3>2. \A d \in Clients : MadeBy(d, made) \subseteq doc'[d].items
      BY <1>4, <1>5 DEF Inv, DocsInv
    <3> QED BY <3>1, <3>2, <1>1, <1>5 DEF Inv, DocsInv, library, Items
  <2>2. ASSUME NEW d \in Clients PROVE Agrees(doc'[d], read'[d], log, made, chain)
    BY <1>3, <1>5 DEF Inv, DocsInv, AgreeInv
  <2>3. HistoryInv'
    <3>1. Seq(Changes(doc[c].items)) \subseteq Seq(Changes(staged.items))
      BY <1>4, ChangesGrow
    <3>2. doc'[c] = staged /\ \A d \in Clients \ {c} : doc'[d] = doc[d]
      BY <1>5 DEF Inv, DocsInv
    <3> QED BY <3>1, <3>2, <1>1 DEF Inv, HistoryInv
  <2> QED BY <2>1, <2>2, <2>3, <1>1 DEF Inv, AgreeInv, library
<1>6. CASE /\ doc' = doc /\ link' = [link EXCEPT ![c] = "off"]
           /\ read' = [read EXCEPT ![c] = 0]
  <2>1. DocsInv'
    BY <1>1, <1>6 DEF Inv, DocsInv, library, Items
  <2>2. ASSUME NEW d \in Clients PROVE Agrees(doc[d], read'[d], log, made, chain)
    BY <1>6, <1>2, AgreesWithNone DEF Inv, AgreeInv, DocsInv
  <2> QED BY <2>1, <2>2, <1>1, <1>6 DEF Inv, HistoryInv, AgreeInv, library
<1> QED BY <1>1, <1>5, <1>6

LEMMA NextKeepsInv ==
  ASSUME Inv, [Next]_vars
  PROVE  Inv'
<1>1. CASE UNCHANGED vars
  BY <1>1 DEF vars, library, sessions, network, Inv, DocsInv, HistoryInv, AgreeInv, Items
<1> QED BY <1>1, EditStep, UndoStep, RedoStep, ConnectStep, AnswerStep, ReceiveStep DEF Next


----------------------------------------------------------------------------
(* The deck of the file.                                                    *)

LEMMA SeedsAreFinite ==
  /\ IsFiniteSet(Seeds)
  /\ IsFiniteSet({PlaceOfSeed(x) : x \in Seeds})
<1> DEFINE K      == 1..SeedSlides
           slide  == [k \in K |-> SeedSlide(k)]
           shape  == [k \in K |-> SeedShape(k)]
           place  == [x \in Seeds |-> PlaceOfSeed(x)]
<1>1. IsFiniteSet(K)
  BY FS_Interval, SeedSlidesAssumption
<1>2. IsFiniteSet({slide[k] : k \in K}) /\ IsFiniteSet({shape[k] : k \in K})
  BY <1>1, ImageIsFinite
<1>3. Seeds = {slide[k] : k \in K} \cup {shape[k] : k \in K}
  BY DEF Seeds
<1>4. IsFiniteSet(Seeds)
  BY <1>2, <1>3, FS_Union
<1>5. IsFiniteSet({place[x] : x \in Seeds})
  BY <1>4, ImageIsFinite
<1>6. {place[x] : x \in Seeds} = {PlaceOfSeed(x) : x \in Seeds}
  OBVIOUS
<1> QED BY <1>4, <1>5, <1>6

\* The ids of the file's slides and shapes, and the list a place of theirs is in.
LEMMA SeedIds ==
  /\ \A x \in Seeds : x \in {0} \X Nat /\ x[2] > 1
  /\ \A x \in Seeds : SeedList(x) = Slides \/ SeedList(x) \in Seeds
<1>1. \A k \in 1..SeedSlides : k \in Nat /\ k > 0
  BY SeedSlidesAssumption
<1>2. ASSUME NEW x \in Seeds
      PROVE  \E k \in 1..SeedSlides : x = SeedSlide(k) \/ x = SeedShape(k)
  BY <1>2 DEF Seeds
<1>3. ASSUME NEW x \in Seeds
      PROVE  x \in {0} \X Nat /\ x[2] > 1
  BY <1>1, <1>2 DEF SeedSlide, SeedShape
<1>4. ASSUME NEW x \in Seeds, x \notin SeedSlideIds
      PROVE  <<0, x[2] - 2>> \in Seeds
  <2>1. PICK k \in 1..SeedSlides : x = SeedShape(k)
    BY <1>2, <1>4 DEF SeedSlideIds
  <2>2. x[2] - 2 = 4 * k
    BY <1>1, <2>1 DEF SeedShape
  <2>3. <<0, x[2] - 2>> = SeedSlide(k)
    BY <2>2 DEF SeedSlide
  <2> QED BY <2>3 DEF Seeds
<1> QED BY <1>3, <1>4 DEF SeedList

\* The library of the file: an entry and a place of each slide and shape.
LEMMA SeedLibrary ==
  ASSUME Init
  PROVE  /\ DOMAIN made = SeedItems /\ IsFiniteSet(SeedItems)
         /\ \A i \in SeedItems : i \in {0} \X Nat /\ i[2] > 1
         /\ \A i \in Seeds : made[i].kind = "entry" /\ made[i].of = i
         /\ \A i \in SeedItems \ Seeds :
              /\ made[i].kind = "place" /\ made[i].of \in Seeds /\ i = PlaceOfSeed(made[i].of)
              /\ made[i].within = Slides \/ made[i].within \in Seeds
         /\ \A i \in SeedItems : made[i].redoes = Nothing
         /\ DOMAIN chain = Seeds /\ \A x \in Seeds : chain[x] = <<x>>
<1> DEFINE places == {PlaceOfSeed(x) : x \in Seeds}
<1>1. \A x \in Seeds : x \in {0} \X Nat /\ x[2] > 1
  BY SeedIds
<1>2. ASSUME NEW i \in places
      PROVE  /\ i \in {0} \X Nat /\ i[2] > 1
             /\ <<0, i[2] - 1>> \in Seeds /\ i = PlaceOfSeed(<<0, i[2] - 1>>)
  <2>1. PICK x \in Seeds : i = PlaceOfSeed(x)
    BY <1>2
  <2>2. PICK n \in Nat : x = <<0, n>> /\ n > 1
    BY <1>1
  <2>3. i = <<0, n + 1>> /\ (n + 1) - 1 = n
    BY <2>1, <2>2 DEF PlaceOfSeed
  <2> QED BY <2>1, <2>2, <2>3
<1>3. DOMAIN made = Seeds \cup places
  BY DEF Init
<1>4. \A i \in Seeds : made[i] = Entry(i, Nothing)
  BY <1>3 DEF Init
<1>5. \A i \in places : i \notin Seeds =>
        made[i] = Place(<<0, i[2] - 1>>, SeedList(<<0, i[2] - 1>>), Nothing)
  BY <1>3 DEF Init
<1>6. IsFiniteSet(DOMAIN made)
  BY <1>3, SeedsAreFinite, FS_Union
<1>7. DOMAIN chain = Seeds /\ \A x \in Seeds : chain[x] = <<x>>
  BY DEF Init
<1>8. SeedItems = Seeds \cup places
  BY DEF SeedItems
<1> HIDE DEF places
<1>9. ASSUME NEW i \in Seeds
      PROVE  made[i].kind = "entry" /\ made[i].of = i /\ made[i].redoes = Nothing
  <2>1. made[i] = Entry(i, Nothing)
    BY <1>4
  <2> QED BY <2>1 DEF Entry
<1>10. ASSUME NEW i \in places, i \notin Seeds
       PROVE  /\ made[i].kind = "place" /\ made[i].of \in Seeds /\ i = PlaceOfSeed(made[i].of)
              /\ made[i].within = Slides \/ made[i].within \in Seeds
              /\ made[i].redoes = Nothing
  <2> DEFINE x == <<0, i[2] - 1>>
  <2>1. made[i] = Place(x, SeedList(x), Nothing)
    BY <1>5, <1>10
  <2>2. x \in Seeds /\ i = PlaceOfSeed(x)
    BY <1>2
  <2> HIDE DEF x
  <2>3. /\ made[i].kind = "place" /\ made[i].of = x /\ made[i].within = SeedList(x)
        /\ made[i].redoes = Nothing
    BY <2>1 DEF Place
  <2> QED BY <2>2, <2>3, SeedIds
<1>11. \A i \in SeedItems : i \in {0} \X Nat /\ i[2] > 1
  BY <1>1, <1>2, <1>8
<1>12. \A i \in SeedItems : made[i].redoes = Nothing
  BY <1>8, <1>9, <1>10
<1> QED BY <1>3, <1>6, <1>7, <1>8, <1>9, <1>10, <1>11, <1>12

LEMMA InitLibrary ==
  ASSUME Init
  PROVE  LibraryInv(made, chain)
<1>1. \A i \in DOMAIN made : i \in {0} \X Nat /\ i[2] > 1
  BY SeedLibrary
<1>2. IdsAreNumbered(made)
  <2>1. \A c \in Clients : MadeBy(c, made) = {}
    BY <1>1, ClientsAssumption DEF MadeBy
  <2>2. Nothing \notin DOMAIN made /\ Slides \notin DOMAIN made
    BY <1>1 DEF Nothing, Slides
  <2>3. IsFiniteSet(DOMAIN made) /\ DOMAIN made \subseteq ({0} \cup Clients) \X Nat
    BY <1>1, SeedLibrary
  <2> QED BY <2>1, <2>2, <2>3 DEF IdsAreNumbered
<1>3. WellMade(made, chain)
  <2>1. Seeds \subseteq DOMAIN made /\ DOMAIN chain = Seeds
    BY SeedLibrary DEF SeedItems
  <2>2. ASSUME NEW x \in Seeds
        PROVE  /\ chain[x] \in Seq(DOMAIN made) /\ x \in ToSet(chain[x])
               /\ \A i \in ToSet(chain[x]) : made[i].kind = "entry" /\ made[i].of = x
    <3>1. chain[x] = <<x>> /\ made[x].kind = "entry" /\ made[x].of = x
      BY SeedLibrary
    <3>2. ToSet(chain[x]) = {x}
      BY <3>1 DEF ToSet
    <3> QED BY <3>1, <3>2, <2>1
  <2>3. ASSUME NEW i \in DOMAIN made
        PROVE  /\ made[i].kind \in {"entry", "place"} /\ made[i].of \in DOMAIN chain
               /\ made[i].redoes \in DOMAIN made \cup {Nothing}
               /\ made[i].kind = "place" =>
                    \/ made[i].within = Slides
                    \/ made[i].within \in DOMAIN made /\ made[made[i].within].kind = "entry"
    <3>1. CASE i \in Seeds
      BY <3>1, <2>1, SeedLibrary
    <3>2. CASE i \notin Seeds
      BY <3>2, <2>1, SeedLibrary
    <3> QED BY <3>1, <3>2
  <2> QED BY <2>1, <2>2, <2>3 DEF WellMade
<1>4. ASSUME NEW c \in Clients PROVE Follows(c, made)
  <2>1. \A i \in DOMAIN made : RedoneIn(c, i, made) = {}
    BY <1>2, SeedLibrary DEF RedoneIn, IdsAreNumbered
  <2>2. \A f : FollowOf(c, f, made) <=> f = [i \in DOMAIN made |-> i]
    <3>1. ASSUME NEW f
          PROVE  [i \in DOMAIN made |-> IF RedoneIn(c, i, made) = {} THEN i
                                        ELSE f[CHOOSE j \in RedoneIn(c, i, made) : TRUE]]
                   = [i \in DOMAIN made |-> i]
      BY <2>1
    <3> QED BY <3>1 DEF FollowOf
  <2>3. \A f : f = [i \in DOMAIN made |-> i] => Good(c, f, made)
    BY DEF Good
  <2> QED BY <2>2, <2>3 DEF Follows
<1> QED BY <1>2, <1>3, <1>4 DEF LibraryInv

LEMMA InitInv == ASSUME Init PROVE Inv
<1> DEFINE d == Document(Items, {})
<1>1. LibraryInv(made, chain) /\ Items = SeedItems
  BY InitLibrary, SeedLibrary DEF Items
<1>2. d.items = Items /\ d.gone = {}
  BY DEF Document
<1>3. d \in Decks(made)
  <2>1. \A i \in Items : made[i].of \in Items
    BY <1>1 DEF LibraryInv, WellMade, Items
  <2> QED BY <2>1 DEF Decks, Document, Items
<1>4. /\ doc = [c \in Clients |-> d] /\ log = <<>> /\ read = [c \in Clients |-> 0]
      /\ link = [c \in Clients |-> "on"]
      /\ past = [c \in Clients |-> <<>>] /\ future = [c \in Clients |-> <<>>]
  BY DEF Init
<1> HIDE DEF d
<1>5. DocsInv
  <2>1. log \in Seq(Decks(made))
    BY <1>4
  <2> QED BY <1>1, <1>2, <1>3, <1>4, <2>1 DEF DocsInv, MadeBy, Items
<1>6. HistoryInv
  BY <1>4 DEF HistoryInv
<1>7. Agrees(d, 0, <<>>, made, chain)
  <2>1. Hidden(Items, made, chain) = {}
    <3>1. ASSUME NEW i \in Items, NEW j PROVE ~Before(chain[made[i].of], i, j)
      <4>1. made[i].of \in Seeds
        BY SeedLibrary, InitLibrary DEF Items, LibraryInv, WellMade
      <4>2. chain[made[i].of] = <<made[i].of>>
        BY <4>1, SeedLibrary
      <4> QED BY <4>2 DEF Before
    <3> QED BY <3>1, HiddenIs
  <2>2. Closed(d, made, chain)
    BY <1>2, <2>1 DEF Closed
  <2>3. SeedItems \subseteq d.items /\ d.items \subseteq Told(<<>>).items
    BY <1>1, <1>2, ToldIs
  <2> QED BY <1>2, <2>2, <2>3 DEF Agrees
<1>8. AgreeInv
  BY <1>4, <1>7 DEF AgreeInv
<1> QED BY <1>1, <1>5, <1>6, <1>8 DEF Inv

----------------------------------------------------------------------------

LEMMA InvAgree == ASSUME Inv PROVE ReadersAgree
<1>1. ASSUME NEW c \in Clients, read[c] = Len(log)
      PROVE  doc[c] = Document(Told(log).items,
                               Settled(Told(log).items, Told(log).gone, made, chain).gone)
  BY <1>1, ThoseWhoAgree DEF Inv, DocsInv, AgreeInv
<1> QED BY <1>1 DEF ReadersAgree

\* Whoever has read the whole log has the same document: for any file, and any
\* number of edits, moves, undos, redos, refused frames and reconnections of the
\* two people, in whatever order they meet.
THEOREM ThoseWhoHaveReadAgree == Spec => []ReadersAgree
<1>1. Init => Inv
  BY InitInv
<1>2. Inv /\ [Next]_vars => Inv'
  BY NextKeepsInv
<1>3. Inv => ReadersAgree
  BY InvAgree
<1> QED BY <1>1, <1>2, <1>3, PTL DEF Spec

----------------------------------------------------------------------------
(* Decks that stay whole: as long as nothing is replaced.                   *)

\* The objects: each has one entry, which names it, and at most one place.
OneOfEach(m, ch) ==
  /\ \A i \in DOMAIN m : /\ m[i].of \in DOMAIN m
                         /\ m[m[i].of].kind = "entry" /\ m[m[i].of].of = m[i].of
                         /\ m[i].kind \in {"entry", "place"}
                         /\ m[i].kind = "entry" => i \in DOMAIN ch /\ ch[i] = <<i>> /\ m[i].of = i
  /\ \A i, j \in DOMAIN m :
       m[i].kind = "place" /\ m[j].kind = "place" /\ m[i].of = m[j].of => i = j

\* Items with the place of each object among them, and no other place.
KnownTogether(items, m) ==
  \A i \in DOMAIN m : m[i].kind = "place" => (i \in items <=> m[i].of \in items)

\* A document where the place goes with the entry.
GoneTogether(items, gone, m) ==
  \A i \in items : m[i].kind = "place" /\ m[i].of \in gone => i \in gone

\* The same up to what goes with a list.
GoneWithList(items, gone, m) ==
  \A i \in items : m[i].kind = "place" /\ m[i].of \in gone => i \in gone \/ m[i].within \in gone

Sound(m) == {d \in [items : SUBSET DOMAIN m, gone : SUBSET DOMAIN m] :
               /\ d.gone \subseteq d.items
               /\ KnownTogether(d.items, m)
               /\ GoneTogether(d.items, d.gone, m)}

\* Changes that put in whole objects.
SoundChanges(m) == {x \in [ins : SUBSET DOMAIN m, del : SUBSET DOMAIN m] : KnownTogether(x.ins, m)}

Whole == /\ OneOfEach(made, chain)
         /\ doc \in [Clients -> Sound(made)] /\ log \in Seq(Sound(made))
         /\ \A c \in Clients : link[c] = "on"
         /\ \A c \in Clients : /\ past[c] \in Seq(SoundChanges(made))
                               /\ future[c] \in Seq(SoundChanges(made))

WholeInv == NothingReplaced => Whole

\* What a sound document lists has its content.
LEMMA LivePlaceHasEntry ==
  ASSUME OneOfEach(made, chain), NEW d \in Sound(made), NEW i \in Live(d), IsPlace(i)
  PROVE  Has(d, made[i].of)
<1> DEFINE x == made[i].of
<1>1. i \in DOMAIN made /\ i \in d.items /\ i \notin d.gone
  BY DEF Sound, Live
<1>2. x \in DOMAIN made /\ made[x].kind = "entry"
  BY <1>1 DEF OneOfEach
<1>3. chain[x] = <<x>>
  BY <1>2 DEF OneOfEach
<1>4. x \in d.items
  BY <1>1 DEF Sound, KnownTogether, IsPlace
<1>5. x \notin d.gone
  BY <1>1 DEF Sound, GoneTogether, IsPlace
<1>6. x \in ToSet(chain[x])
  BY <1>3 DEF ToSet
<1>7. x \in EntriesOf(d, x)
  BY <1>4, <1>5, <1>6 DEF EntriesOf, Live
<1> QED BY <1>7 DEF Has

\* A sound document is a whole deck.
LEMMA SoundIsWhole ==
  ASSUME OneOfEach(made, chain), NEW d \in Sound(made)
  PROVE  IsWhole(d)
<1>1. ASSUME NEW i \in Places(d, Slides)
      PROVE  Has(d, made[i].of)
  BY <1>1, LivePlaceHasEntry DEF Places
<1>2. ASSUME NEW s, NEW x \in ShapesOn(d, s)
      PROVE  Has(d, x)
  <2>1. PICK j \in Places(d, EntryOf(d, s)) : x = made[j].of
    BY <1>2 DEF ShapesOn
  <2> QED BY <2>1, LivePlaceHasEntry DEF Places
<1> QED BY <1>1, <1>2 DEF IsWhole, SlideIsWhole

\* With one entry each nothing is hidden, and settling makes a document sound.
LEMMA SettledIsSound ==
  ASSUME NEW m, NEW ch, OneOfEach(m, ch),
         NEW items \in SUBSET DOMAIN m, NEW gone \in SUBSET items,
         KnownTogether(items, m), GoneWithList(items, gone, m)
  PROVE  Settled(items, gone, m, ch) \in Sound(m)
<1>1. Hidden(items, m, ch) = {}
  <2> SUFFICES ASSUME NEW i \in items, m[i].kind = "entry",
                      NEW n \in DOMAIN ch[m[i].of], NEW o \in DOMAIN ch[m[i].of], n < o
               PROVE  FALSE
    BY DEF Hidden
  <2>1. ch[m[i].of] = <<i>>
    BY DEF OneOfEach
  <2>2. n = 1 /\ o = 1
    BY <2>1
  <2> QED BY <2>2
<1> DEFINE with == {i \in items : m[i].kind = "place" /\ m[i].within \in gone}
<1>2. Settled(items, gone, m, ch) = Document(items, gone \cup with)
  BY <1>1 DEF Settled
<1>3. GoneTogether(items, gone \cup with, m)
  <2> SUFFICES ASSUME NEW i \in items, m[i].kind = "place", m[i].of \in gone \cup with
               PROVE  i \in gone \cup with
    BY DEF GoneTogether
  <2>1. m[m[i].of].kind = "entry"
    BY DEF OneOfEach
  <2>2. m[i].of \in gone
    BY <2>1
  <2> QED BY <2>2 DEF GoneWithList
<1> DEFINE d == [items |-> items, gone |-> gone \cup with]
<1>4. d.items = items /\ d.gone = gone \cup with
  OBVIOUS
<1>5. d \in [items : SUBSET DOMAIN m, gone : SUBSET DOMAIN m] /\ gone \cup with \subseteq items
  OBVIOUS
<1>6. d \in Sound(m)
  <2> HIDE DEF d, with
  <2> QED BY <1>3, <1>4, <1>5 DEF Sound
<1> QED BY <1>2, <1>6 DEF Document

\* What was known or gone together still is: nobody knows a new object yet.
LEMMA StaysTogether ==
  ASSUME NEW m, NEW m2, DOMAIN m \subseteq DOMAIN m2, \A i \in DOMAIN m : m2[i] = m[i],
         \A i \in DOMAIN m2 \ DOMAIN m : m2[i].kind = "place" => m2[i].of \notin DOMAIN m
  PROVE  /\ \A items \in SUBSET DOMAIN m : KnownTogether(items, m) => KnownTogether(items, m2)
         /\ Sound(m) \subseteq Sound(m2) /\ SoundChanges(m) \subseteq SoundChanges(m2)
<1>1. ASSUME NEW items \in SUBSET DOMAIN m, KnownTogether(items, m)
      PROVE  KnownTogether(items, m2)
  <2> SUFFICES ASSUME NEW i \in DOMAIN m2, m2[i].kind = "place"
               PROVE  i \in items <=> m2[i].of \in items
    BY DEF KnownTogether
  <2>1. CASE i \in DOMAIN m
    BY <1>1, <2>1 DEF KnownTogether
  <2>2. CASE i \notin DOMAIN m
    BY <2>2
  <2> QED BY <2>1, <2>2
<1>2. ASSUME NEW d \in Sound(m)
      PROVE  d \in Sound(m2)
  <2>1. d.items \in SUBSET DOMAIN m /\ d.gone \subseteq d.items /\ KnownTogether(d.items, m)
    BY DEF Sound
  <2>2. KnownTogether(d.items, m2)
    BY <1>1, <2>1
  <2>3. GoneTogether(d.items, d.gone, m2)
    BY <2>1 DEF Sound, GoneTogether
  <2>4. d \in [items : SUBSET DOMAIN m2, gone : SUBSET DOMAIN m2]
    BY DEF Sound
  <2> QED BY <2>1, <2>2, <2>3, <2>4 DEF Sound
<1>3. ASSUME NEW x \in SoundChanges(m)
      PROVE  x \in SoundChanges(m2)
  <2>1. x.ins \in SUBSET DOMAIN m /\ KnownTogether(x.ins, m)
    BY DEF SoundChanges
  <2>2. KnownTogether(x.ins, m2)
    BY <1>1, <2>1
  <2>3. x \in [ins : SUBSET DOMAIN m2, del : SUBSET DOMAIN m2]
    BY DEF SoundChanges
  <2> QED BY <2>2, <2>3 DEF SoundChanges
<1> QED BY <1>1, <1>2, <1>3

\* What a transaction changes puts in whole objects, and so do two such changes.
LEMMA ChangeIsSound ==
  ASSUME NEW m, NEW d \in Sound(m), NEW after \in Sound(m)
  PROVE  Change(d, after) \in SoundChanges(m)
<1>1. Change(d, after) \in [ins : SUBSET DOMAIN m, del : SUBSET DOMAIN m]
  BY DEF Change, Sound
<1>2. KnownTogether(after.items \ d.items, m)
  <2> SUFFICES ASSUME NEW i \in DOMAIN m, m[i].kind = "place"
               PROVE  i \in after.items \ d.items <=> m[i].of \in after.items \ d.items
    BY DEF KnownTogether
  <2> QED BY DEF Sound, KnownTogether
<1>3. Change(d, after).ins = after.items \ d.items
  BY DEF Change
<1> QED BY <1>1, <1>2, <1>3 DEF SoundChanges

LEMMA MergedIsSound ==
  ASSUME NEW m, NEW x \in SoundChanges(m), NEW y \in SoundChanges(m)
  PROVE  [ins |-> x.ins \cup y.ins, del |-> x.del \cup y.del] \in SoundChanges(m)
<1> DEFINE ins == x.ins \cup y.ins
           del == x.del \cup y.del
<1>1. ins \in SUBSET DOMAIN m /\ del \in SUBSET DOMAIN m
  BY DEF SoundChanges
<1>2. KnownTogether(ins, m)
  BY DEF SoundChanges, KnownTogether
<1> HIDE DEF ins, del
<1>3. [ins |-> ins, del |-> del] \in SoundChanges(m)
  BY <1>1, <1>2 DEF SoundChanges
<1> QED BY <1>3 DEF ins, del

\* A new object has its one entry and its one place.
LEMMA OneOfEachNew ==
  ASSUME OneOfEach(made, chain),
         NEW e, NEW p, NEW w, e # p, e \notin Items, p \notin Items
  PROVE  OneOfEach(WithObject(e, p, w), With(chain, e, <<e>>))
<1> DEFINE m  == WithObject(e, p, w)
           ch == With(chain, e, <<e>>)
<1>1. /\ DOMAIN m = Items \cup {e, p}
      /\ m[e] = Entry(e, Nothing) /\ m[p] = Place(e, w, Nothing)
      /\ \A i \in Items : m[i] = made[i]
  BY DEF WithObject, With, Items
<1>2. /\ m[e].kind = "entry" /\ m[e].of = e
      /\ m[p].kind = "place" /\ m[p].of = e
  BY <1>1 DEF Entry, Place
<1>3. ch[e] = <<e>> /\ e \in DOMAIN ch
  BY DEF With
<1>4. \A i \in DOMAIN chain : i # e => i \in DOMAIN ch /\ ch[i] = chain[i]
  BY DEF With
<1> HIDE DEF m, ch
<1>5. ASSUME NEW i \in DOMAIN m
      PROVE  /\ m[i].of \in DOMAIN m
             /\ m[m[i].of].kind = "entry" /\ m[m[i].of].of = m[i].of
             /\ m[i].kind \in {"entry", "place"}
             /\ m[i].kind = "entry" => i \in DOMAIN ch /\ ch[i] = <<i>> /\ m[i].of = i
  <2>1. CASE i \in {e, p}
    BY <2>1, <1>1, <1>2, <1>3
  <2>2. CASE i \in Items
    BY <2>2, <1>1, <1>4 DEF OneOfEach, Items
  <2> QED BY <2>1, <2>2, <1>1
<1>6. ASSUME NEW i \in DOMAIN m, NEW j \in DOMAIN m,
             m[i].kind = "place", m[j].kind = "place", m[i].of = m[j].of
      PROVE  i = j
  <2>1. i # e /\ j # e
    BY <1>2, <1>6
  <2>2. \A k \in Items : m[k].of \in Items
    BY <1>1 DEF OneOfEach, Items
  <2>3. CASE i \in Items /\ j \in Items
    BY <2>3, <1>1, <1>6 DEF OneOfEach, Items
  <2>4. CASE i = p \/ j = p
    BY <2>1, <2>2, <2>4, <1>1, <1>2, <1>6
  <2> QED BY <2>1, <2>3, <2>4, <1>1
<1> QED BY <1>5, <1>6 DEF OneOfEach, m, ch

\* Its author knows both.
LEMMA AuthorKnowsBoth ==
  ASSUME OneOfEach(made, chain), NEW d \in Sound(made),
         NEW e, NEW p, NEW w, e # p, e \notin Items, p \notin Items
  PROVE  /\ d.items \cup {e, p} \subseteq DOMAIN WithObject(e, p, w)
         /\ d.gone \subseteq d.items \cup {e, p}
         /\ KnownTogether(d.items \cup {e, p}, WithObject(e, p, w))
         /\ GoneWithList(d.items \cup {e, p}, d.gone, WithObject(e, p, w))
<1> DEFINE m     == WithObject(e, p, w)
           items == d.items \cup {e, p}
<1>1. /\ DOMAIN m = Items \cup {e, p}
      /\ m[e].kind = "entry" /\ m[p].of = e
      /\ \A i \in Items : m[i] = made[i]
  <2>1. /\ DOMAIN m = Items \cup {e, p}
        /\ m[e] = Entry(e, Nothing) /\ m[p] = Place(e, w, Nothing)
        /\ \A i \in Items : m[i] = made[i]
    BY DEF WithObject, With, Items
  <2> QED BY <2>1 DEF Entry, Place
<1> HIDE DEF m
<1>2. d.items \subseteq Items /\ d.gone \subseteq d.items
  BY DEF Sound, Items
<1>3. \A i \in Items : made[i].of \in Items
  BY DEF OneOfEach, Items
<1>4. KnownTogether(items, m)
  <2> SUFFICES ASSUME NEW i \in DOMAIN m, m[i].kind = "place"
               PROVE  i \in items <=> m[i].of \in items
    BY DEF KnownTogether
  <2>1. CASE i \in Items
    BY <2>1, <1>1, <1>3 DEF Sound, KnownTogether, Items
  <2>2. CASE i \in {e, p}
    BY <2>2, <1>1
  <2> QED BY <2>1, <2>2, <1>1
<1>5. GoneWithList(items, d.gone, m)
  <2> SUFFICES ASSUME NEW i \in items, m[i].kind = "place", m[i].of \in d.gone
               PROVE  i \in d.gone
    BY DEF GoneWithList
  <2>1. CASE i \in d.items
    BY <2>1, <1>1, <1>2 DEF Sound, GoneTogether
  <2>2. CASE i \in {e, p}
    BY <2>2, <1>1, <1>2
  <2> QED BY <2>1, <2>2
<1> QED BY <1>1, <1>2, <1>4, <1>5 DEF m

----------------------------------------------------------------------------
(* Edits that replace nothing.                                              *)

\* The library before a step that leaves nothing replaced.
LEMMA NothingWasReplaced ==
  ASSUME Grows(made, chain, made', chain'), NothingReplaced'
  PROVE  NothingReplaced
  BY DEF NothingReplaced, Grows, Items, IsPlace

\* An edit that leaves a sound document.
LEMMA EditKeepsWhole ==
  ASSUME Inv, Whole, NEW c \in Clients, NEW after, OneOfEach(made', chain'),
         Sound(made) \subseteq Sound(made'), SoundChanges(made) \subseteq SoundChanges(made'),
         after \in Sound(made'), Transacts(c, after), Captured(c, Change(doc[c], after))
  PROVE  Whole'
<1>1. doc' = [doc EXCEPT ![c] = after] /\ log' = Append(log, after) /\ link' = link
  BY DEF Transacts
<1>2. doc' \in [Clients -> Sound(made')] /\ log' \in Seq(Sound(made'))
  <2>1. doc \in [Clients -> Sound(made')] /\ log \in Seq(Sound(made'))
    BY DEF Whole
  <2> QED BY <2>1, <1>1
<1> DEFINE S == SoundChanges(made')
           change == Change(doc[c], after)
<1>3. change \in S
  <2>1. doc[c] \in Sound(made')
    BY DEF Whole
  <2> QED BY <2>1, ChangeIsSound
<1>4. \A x, y \in S : [ins |-> x.ins \cup y.ins, del |-> x.del \cup y.del] \in S
  BY MergedIsSound
<1>5. \A d \in Clients : past[d] \in Seq(S) /\ future[d] \in Seq(S)
  BY DEF Whole
<1> HIDE DEF S, change
<1>6. /\ past'[c] \in Seq(S) /\ future'[c] = <<>>
      /\ \A d \in Clients \ {c} : past'[d] = past[d] /\ future'[d] = future[d]
  <2>1. Captured(c, change)
    BY DEF change
  <2>2. DOMAIN past = Clients /\ DOMAIN future = Clients
    BY DEF Inv, HistoryInv
  <2> QED BY <1>3, <1>4, <1>5, <2>1, <2>2, CapturedChanges
<1>7. \A d \in Clients : past'[d] \in Seq(S) /\ future'[d] \in Seq(S)
  <2>1. <<>> \in Seq(S)
    OBVIOUS
  <2> QED BY <2>1, <1>5, <1>6
<1> QED BY <1>1, <1>2, <1>7 DEF Whole, S

\* insert_slide and add_shape make an object.
LEMMA ObjectKeepsWhole ==
  ASSUME Inv, Whole, NEW c \in Clients, NEW w,
         made' = WithObject(NewId(c, 1), NewId(c, 2), w),
         chain' = With(chain, NewId(c, 1), <<NewId(c, 1)>>),
         Edits(c, {NewId(c, 1), NewId(c, 2)}, {})
  PROVE  Whole'
<1> DEFINE e == NewId(c, 1)
           p == NewId(c, 2)
           d == doc[c]
           items == d.items \cup {e, p}
<1>1. OneOfEach(made, chain) /\ d \in Sound(made)
  BY DEF Whole
<1>2. e # p /\ e \notin Items /\ p \notin Items
  BY SomeNewIds, FreshIsNew DEF Inv, LibraryInv
<1>3. PICK after : /\ after = Settled(items, d.gone \cup {}, made', chain')
                   /\ Transacts(c, after) /\ Captured(c, Change(d, after))
  BY EditsIs
<1>4. made' = WithObject(e, p, w) /\ chain' = With(chain, e, <<e>>)
  OBVIOUS
<1> HIDE DEF e, p
<1>5. OneOfEach(made', chain')
  BY <1>1, <1>2, <1>4, OneOfEachNew
<1>6. Sound(made) \subseteq Sound(made') /\ SoundChanges(made) \subseteq SoundChanges(made')
  <2>1. /\ DOMAIN made' = Items \cup {e, p}
        /\ made'[e].kind = "entry" /\ made'[p].of = e
        /\ \A i \in Items : made'[i] = made[i]
    <3>1. /\ DOMAIN made' = Items \cup {e, p}
          /\ made'[e] = Entry(e, Nothing) /\ made'[p] = Place(e, w, Nothing)
          /\ \A i \in Items : made'[i] = made[i]
      BY <1>2, <1>4 DEF WithObject, With, Items
    <3> QED BY <3>1 DEF Entry, Place
  <2>2. DOMAIN made \subseteq DOMAIN made' /\ \A i \in DOMAIN made : made'[i] = made[i]
    BY <2>1 DEF Items
  <2>3. \A i \in DOMAIN made' \ DOMAIN made : made'[i].kind = "place" => made'[i].of \notin DOMAIN made
    BY <2>1, <1>2 DEF Items
  <2> QED BY <2>2, <2>3, StaysTogether
<1>7. /\ items \in SUBSET DOMAIN made' /\ d.gone \in SUBSET items
      /\ KnownTogether(items, made') /\ GoneWithList(items, d.gone, made')
  <2>1. /\ items \subseteq DOMAIN WithObject(e, p, w) /\ d.gone \subseteq items
        /\ KnownTogether(items, WithObject(e, p, w))
        /\ GoneWithList(items, d.gone, WithObject(e, p, w))
    BY <1>1, <1>2, AuthorKnowsBoth
  <2> QED BY <2>1, <1>4
<1>8. d.gone \cup {} = d.gone
  OBVIOUS
<1>9. Settled(items, d.gone, made', chain') \in Sound(made')
  BY <1>5, <1>7, SettledIsSound
<1>10. after \in Sound(made')
  BY <1>3, <1>8, <1>9
<1> QED BY <1>3, <1>5, <1>6, <1>10, EditKeepsWhole

\* The entry of what is listed, or of a slide, is the one that names it.
LEMMA EntryNamesIt ==
  ASSUME OneOfEach(made, chain), NEW d, NEW i \in Items, Has(d, made[i].of)
  PROVE  /\ EntryOf(d, made[i].of) = made[i].of
         /\ made[i].of \in Live(d) /\ made[made[i].of].kind = "entry"
<1> DEFINE x == made[i].of
<1>1. x \in Items /\ made[x].kind = "entry" /\ chain[x] = <<x>>
  BY DEF OneOfEach, Items
<1>2. ToSet(chain[x]) = {x}
  BY <1>1 DEF ToSet
<1>3. EntriesOf(d, x) = {x} /\ x \in Live(d)
  BY <1>2 DEF Has, EntriesOf
<1> QED BY <1>1, <1>3 DEF EntryOf

\* A deletion that takes with each entry its place, or the list the place is in.
LEMMA DeletionKeepsWhole ==
  ASSUME Inv, Whole, NEW c \in Clients, NEW gone \in SUBSET doc[c].items,
         UNCHANGED library, Edits(c, {}, gone),
         \A i \in doc[c].items : made[i].kind = "place" /\ made[i].of \in gone
                                   => i \in gone \/ made[i].within \in gone
  PROVE  Whole'
<1> DEFINE d == doc[c]
<1>1. OneOfEach(made, chain) /\ d \in Sound(made)
  BY DEF Whole
<1>2. made' = made /\ chain' = chain
  BY DEF library
<1>3. /\ d.items \in SUBSET DOMAIN made /\ d.gone \cup gone \in SUBSET d.items
      /\ KnownTogether(d.items, made)
  BY <1>1 DEF Sound
<1>4. GoneWithList(d.items, d.gone \cup gone, made)
  BY <1>1 DEF Sound, GoneTogether, GoneWithList
<1>5. Settled(d.items, d.gone \cup gone, made, chain) \in Sound(made)
  BY <1>1, <1>3, <1>4, SettledIsSound
<1>6. PICK after : /\ after = Settled(d.items \cup {}, d.gone \cup gone, made', chain')
                   /\ Transacts(c, after) /\ Captured(c, Change(d, after))
  BY EditsIs
<1>7. d.items \cup {} = d.items
  OBVIOUS
<1>8. after \in Sound(made')
  BY <1>2, <1>5, <1>6, <1>7
<1>9. OneOfEach(made', chain') /\ Sound(made') = Sound(made) /\ SoundChanges(made') = SoundChanges(made)
  BY <1>1, <1>2
<1> QED BY <1>6, <1>8, <1>9, EditKeepsWhole

LEMMA DeleteSlideKeepsWhole ==
  ASSUME Inv, Whole, NEW c \in Clients, NEW s, DeleteSlide(c, s)
  PROVE  Whole'
<1> DEFINE d == doc[c]
<1>1. OneOfEach(made, chain) /\ d \in Sound(made)
  BY DEF Whole
<1>2. PICK p \in FirstPlaces(d, Slides, s) :
        Edits(c, {}, {p, EntryOf(d, s)} \cup {EntryOf(d, x) : x \in ShapesOn(d, s)})
  BY DEF DeleteSlide
<1> DEFINE gone == {p, EntryOf(d, s)} \cup {EntryOf(d, x) : x \in ShapesOn(d, s)}
<1>3. p \in Items /\ p \in d.items /\ made[p].kind = "place" /\ made[p].of = s
  BY <1>1, <1>2 DEF FirstPlaces, PlacesOf, Places, IsPlace, Live, Sound, Items
<1>5. EntryOf(d, s) = s /\ s \in d.items /\ s \in Items /\ made[s].kind = "entry"
  <2>1. Has(d, made[p].of)
    BY <1>3 DEF DeleteSlide, SlideIsWhole
  <2> QED BY <2>1, <1>1, <1>3, EntryNamesIt DEF Live, Sound, Items
<1>6. ASSUME NEW x \in ShapesOn(d, s)
      PROVE  /\ EntryOf(d, x) = x /\ x \in d.items /\ made[x].kind = "entry"
             /\ \E j \in Items : made[j].kind = "place" /\ made[j].of = x /\ made[j].within = s
  <2>1. PICK j \in Places(d, s) : made[j].of = x
    BY <1>5, <1>6 DEF ShapesOn
  <2>2. j \in Items /\ made[j].kind = "place" /\ made[j].within = s
    BY <1>1, <2>1 DEF Places, IsPlace, Live, Sound, Items
  <2>3. Has(d, made[j].of)
    BY <1>6, <2>1 DEF DeleteSlide, SlideIsWhole
  <2> QED BY <2>1, <2>2, <2>3, <1>1, EntryNamesIt DEF Live
<1>7. gone = {p, s} \cup ShapesOn(d, s)
  BY <1>5, <1>6
<1>8. gone \in SUBSET d.items
  BY <1>3, <1>5, <1>6, <1>7
<1>9. ASSUME NEW i \in d.items, made[i].kind = "place", made[i].of \in gone
      PROVE  i \in gone \/ made[i].within \in gone
  <2>1. i \in Items /\ made[made[i].of].kind = "entry"
    BY <1>1 , <1>9 DEF OneOfEach, Sound, Items
  <2>2. CASE made[i].of = s
    BY <2>1, <2>2, <1>1, <1>3, <1>7, <1>9 DEF OneOfEach, Items
  <2>3. CASE made[i].of \in ShapesOn(d, s)
    <3>1. PICK j \in Items : made[j].kind = "place" /\ made[j].of = made[i].of /\ made[j].within = s
      BY <2>3, <1>6
    <3>2. i = j
      BY <3>1, <2>1, <1>1, <1>9 DEF OneOfEach, Items
    <3> QED BY <3>1, <3>2, <1>7
  <2> QED BY <2>1, <2>2, <2>3, <1>3, <1>7, <1>9
<1>10. UNCHANGED library /\ Edits(c, {}, gone)
  BY <1>2 DEF DeleteSlide
<1> HIDE DEF gone
<1> QED BY <1>8, <1>9, <1>10, DeletionKeepsWhole

LEMMA RemoveShapeKeepsWhole ==
  ASSUME Inv, Whole, NEW c \in Clients, NEW s, NEW x, RemoveShape(c, s, x)
  PROVE  Whole'
<1> DEFINE d == doc[c]
           l == EntryOf(d, s)
<1>1. OneOfEach(made, chain) /\ d \in Sound(made)
  BY DEF Whole
<1>2. PICK p \in FirstPlaces(d, l, x) : Edits(c, {}, {p, EntryOf(d, x)})
  BY DEF RemoveShape
<1>3. p \in Items /\ p \in d.items /\ made[p].kind = "place" /\ made[p].of = x
  BY <1>1, <1>2 DEF FirstPlaces, PlacesOf, Places, IsPlace, Live, Sound, Items
<1> DEFINE gone == {p, EntryOf(d, x)}
<1>5. EntryOf(d, x) = x /\ x \in d.items /\ made[x].kind = "entry"
  <2>1. Has(d, made[p].of)
    BY <1>3 DEF RemoveShape
  <2> QED BY <2>1, <1>1, <1>3, EntryNamesIt DEF Live
<1>6. gone = {p, x}
  BY <1>5
<1>7. gone \in SUBSET d.items
  BY <1>3, <1>5, <1>6
<1>8. ASSUME NEW i \in d.items, made[i].kind = "place", made[i].of \in gone
      PROVE  i \in gone \/ made[i].within \in gone
  <2>1. i \in Items /\ made[made[i].of].kind = "entry"
    BY <1>1, <1>8 DEF OneOfEach, Sound, Items
  <2>2. made[i].of = x
    BY <2>1, <1>3, <1>6, <1>8
  <2> QED BY <2>1, <2>2, <1>1, <1>3, <1>6, <1>8 DEF OneOfEach, Items
<1>9. UNCHANGED library /\ Edits(c, {}, gone)
  BY <1>2 DEF RemoveShape
<1> HIDE DEF gone
<1> QED BY <1>7, <1>8, <1>9, DeletionKeepsWhole

\* A slide that is moved has two places, one of them gone.
LEMMA MoveReplaces ==
  ASSUME Inv, NEW c \in Clients, NEW s \in SlideIds, NEW to, MoveSlide(c, s, to)
  PROVE  ~NothingReplaced'
<1> DEFINE p == NewId(c, 1)
           d == doc[c]
<1>1. s \in DOMAIN chain
  BY DEF SlideIds, Inv, LibraryInv, WellMade, Items
<1>2. PICK old \in FirstPlaces(d, Slides, s) : made' = With(made, p, Place(s, Slides, Nothing))
  BY DEF MoveSlide
<1>3. old \in Items /\ made[old].kind = "place" /\ made[old].of = s
  BY <1>2 DEF FirstPlaces, PlacesOf, Places, IsPlace, Live, Inv, DocsInv, Decks, Items
<1>4. /\ Grows(made, chain, made', chain) /\ DOMAIN made' = Items \cup {p} /\ p \notin Items
      /\ made'[p].kind = "place" /\ made'[p].of = s
  <2> DEFINE m == made'
  <2>1. m = With(made, NewId(c, 1), Place(s, Slides, Nothing))
    BY <1>2
  <2>2. LibraryInv(made, chain)
    BY DEF Inv
  <2> HIDE DEF m
  <2>3. Grows(made, chain, m, chain) /\ HasPlace(m, s, NewId(c, 1))
    BY <1>1, <2>1, <2>2, LibraryWithPlace
  <2> QED BY <2>3 DEF m, p, HasPlace
<1>5. made'[old] = made[old]
  BY <1>3, <1>4 DEF Grows, Items
<1> HIDE DEF p
<1>6. \E i, j \in DOMAIN made' : /\ made'[i].kind = "place" /\ made'[j].kind = "place"
                                 /\ made'[i].of = made'[j].of /\ i # j
  BY <1>3, <1>4, <1>5
<1> QED BY <1>6 DEF NothingReplaced, Items, IsPlace

LEMMA EditKeepsWholeInv ==
  ASSUME Inv, WholeInv, NEW c \in Clients, Edit(c)
  PROVE  WholeInv'
<1> SUFFICES ASSUME NothingReplaced' PROVE Whole'
  BY DEF WholeInv
<1>1. Grows(made, chain, made', chain')
  BY EditMakes DEF EditIs, Makes, Inv
<1>2. Whole
  BY <1>1, NothingWasReplaced DEF WholeInv
<1>3. ASSUME NEW at, InsertSlide(c, at) PROVE Whole'
  BY <1>2, <1>3, ObjectKeepsWhole DEF InsertSlide
<1>4. ASSUME NEW s, AddShape(c, s) PROVE Whole'
  BY <1>2, <1>4, ObjectKeepsWhole DEF AddShape
<1> QED BY <1>2, <1>3, <1>4, DeleteSlideKeepsWhole, RemoveShapeKeepsWhole, MoveReplaces DEF Edit

----------------------------------------------------------------------------
(* Undo and redo that replace nothing, and so bring nothing back.           *)

\* Nothing has been brought back, so following what was leads nowhere.
LEMMA NoneIsRedone ==
  ASSUME LibraryInv(made, chain), NothingReplaced, NEW c \in Clients, NEW i \in Items
  PROVE  LastRedone(c)[i] = i
<1>1. RedoneIn(c, i, made) = {}
  BY DEF RedoneIn, NothingReplaced, LibraryInv, IdsAreNumbered, Items
<1>2. FollowOf(c, LastRedone(c), made)
  BY LastRedoneFollows DEF LibraryInv
<1> QED BY <1>1, <1>2, FollowOfIs DEF Items

LEMMA TakingBackKeepsWhole ==
  ASSUME Inv, WholeInv, NEW c \in Clients, NEW change \in Changes(doc[c].items), NEW others,
         NEW new, NEW after, TakenBackAs(c, change, others, new, after),
         NothingReplaced', Whole => change \in SoundChanges(made)
  PROVE  /\ Whole /\ OneOfEach(made', chain') /\ Sound(made) \subseteq Sound(made')
         /\ SoundChanges(made) \subseteq SoundChanges(made')
         /\ after \in Sound(made') /\ Change(doc[c], after) \in SoundChanges(made')
<1> DEFINE back == Returning(c, change, others)
           d == doc[c]
<1>1. /\ new = NewIds(c, back) /\ Library(c, new)
      /\ after = Settled(d.items \cup ToRange(new), d.gone \cup ToDelete(c, change), made', chain')
  BY DEF TakenBackAs
<1>2. d \in Decks(made) /\ back \in SUBSET d.items /\ \A i \in back : Redone(c, i) = {}
  BY ReturningIsKnown DEF Inv, DocsInv
<1> HIDE DEF back
<1>3. /\ Grows(made, chain, made', chain') /\ DOMAIN made' = Items \cup ToRange(new)
      /\ \A j \in ToRange(new) : /\ made'[j].redoes = Original(j, new)
                                 /\ Original(j, new) \in back
  <2>1. Grows(made, chain, made', chain') /\ Brings(c, back, new)
    BY <1>1, <1>2, LibraryWithBack DEF Inv
  <2> QED BY <2>1 DEF Brings
<1>4. NothingReplaced /\ Whole
  BY <1>3, NothingWasReplaced DEF WholeInv
<1>5. ToRange(new) = {}
  <2>1. \A j \in ToRange(new) : made'[j].redoes = Nothing
    BY <1>3 DEF NothingReplaced, Items
  <2>2. Nothing \notin back
    BY <1>2 DEF Inv, LibraryInv, IdsAreNumbered, Decks
  <2> QED BY <2>1, <2>2, <1>3
<1>6. DOMAIN new = {}
  BY <1>5 DEF ToRange
<1>7. /\ DOMAIN made' = DOMAIN made /\ \A i \in DOMAIN made : made'[i] = made[i]
      /\ DOMAIN chain' = DOMAIN chain /\ \A x \in DOMAIN chain : chain'[x] = chain[x]
  <2>1. DOMAIN chain' = DOMAIN chain /\ \A x \in DOMAIN chain : chain'[x] = chain[x]
    BY <1>1, <1>6 DEF Library
  <2>2. DOMAIN made' = DOMAIN made
    BY <1>3, <1>5 DEF Items
  <2> QED BY <2>1, <2>2, <1>3 DEF Grows
<1>8. OneOfEach(made', chain')
  BY <1>4, <1>7 DEF Whole, OneOfEach
<1>9. Sound(made) \subseteq Sound(made') /\ SoundChanges(made) \subseteq SoundChanges(made')
  BY <1>7, StaysTogether
<1>10. d \in Sound(made') /\ change \in SoundChanges(made')
  BY <1>4, <1>9 DEF Whole
<1>11. ToDelete(c, change) = change.ins \ d.gone /\ change.ins \subseteq d.items
  <2>1. change.ins \subseteq d.items /\ d.items \subseteq Items
    BY <1>2 DEF Changes, Decks, Items
  <2>2. \A i \in change.ins : LastRedone(c)[i] = i
    BY <2>1, <1>4, NoneIsRedone DEF Inv
  <2> QED BY <2>1, <2>2 DEF ToDelete
<1> DEFINE gone == d.gone \cup change.ins
<1>12. d.items \cup ToRange(new) = d.items /\ d.gone \cup ToDelete(c, change) = gone
  BY <1>5, <1>11
<1>13. /\ d.items \in SUBSET DOMAIN made' /\ gone \in SUBSET d.items
       /\ KnownTogether(d.items, made')
  BY <1>10, <1>11 DEF Sound
<1>14. GoneWithList(d.items, gone, made')
  <2> SUFFICES ASSUME NEW i \in d.items, made'[i].kind = "place", made'[i].of \in gone
               PROVE  i \in gone
    BY DEF GoneWithList
  <2>1. CASE made'[i].of \in d.gone
    BY <2>1, <1>10 DEF Sound, GoneTogether
  <2>2. CASE made'[i].of \in change.ins
    BY <2>2, <1>10, <1>13 DEF SoundChanges, KnownTogether
  <2> QED BY <2>1, <2>2
<1>15. Settled(d.items, gone, made', chain') \in Sound(made')
  <2> HIDE DEF gone
  <2> QED BY <1>8, <1>13, <1>14, SettledIsSound
<1>16. after \in Sound(made')
  BY <1>1, <1>12, <1>15
<1>17. Change(d, after) \in SoundChanges(made')
  BY <1>10, <1>16, ChangeIsSound
<1> QED BY <1>4, <1>8, <1>9, <1>16, <1>17

LEMMA UndoKeepsWholeInv ==
  ASSUME Inv, WholeInv, NEW c \in Clients, Undo(c)
  PROVE  WholeInv'
<1> SUFFICES ASSUME NothingReplaced' PROVE Whole'
  BY DEF WholeInv
<1>1. CASE /\ UNCHANGED <<library, doc, network, future>>
           /\ past' = [past EXCEPT ![c] = <<>>]
  <2>1. Whole
    BY <1>1 DEF WholeInv, NothingReplaced, library, Items, IsPlace
  <2>2. past'[c] = <<>> /\ \A d \in Clients \ {c} : past'[d] = past[d]
    BY <1>1 DEF Inv, HistoryInv
  <2>3. <<>> \in Seq(SoundChanges(made))
    OBVIOUS
  <2>4. UNCHANGED <<made, chain, doc, log, link, future>>
    BY <1>1 DEF library, network
  <2> QED BY <2>1, <2>2, <2>3, <2>4 DEF Whole
<1>2. CASE UndoTakes(c)
  <2>1. PICK top, others, new, after :
          /\ top \in DOMAIN past[c]
          /\ TakenBackAs(c, past[c][top], others, new, after)
          /\ past' = [past EXCEPT ![c] = SubSeq(@, 1, top - 1)]
          /\ future' = [future EXCEPT ![c] =
                          IF after = doc[c] THEN @ ELSE Append(@, Change(doc[c], after))]
    BY <1>2 DEF UndoTakes
  <2>2. past[c][top] \in Changes(doc[c].items) /\ DOMAIN past = Clients /\ DOMAIN future = Clients
    BY <2>1, Shortened DEF Inv, HistoryInv
  <2>3. ASSUME Whole PROVE past[c][top] \in SoundChanges(made)
    BY <2>1, <2>3, Shortened DEF Whole
  <2>4. /\ Whole /\ OneOfEach(made', chain') /\ Sound(made) \subseteq Sound(made')
        /\ SoundChanges(made) \subseteq SoundChanges(made')
        /\ after \in Sound(made') /\ Change(doc[c], after) \in SoundChanges(made')
    BY <2>1, <2>2, <2>3, TakingBackKeepsWhole
  <2>5. doc' = [doc EXCEPT ![c] = after] /\ log' = Append(log, after) /\ link' = link
    BY <2>1 DEF TakenBackAs, Transacts
  <2>6. doc' \in [Clients -> Sound(made')] /\ log' \in Seq(Sound(made'))
    <3>1. doc \in [Clients -> Sound(made')] /\ log \in Seq(Sound(made'))
      BY <2>4 DEF Whole
    <3> QED BY <3>1, <2>4, <2>5
  <2> DEFINE S == SoundChanges(made')
             change == Change(doc[c], after)
             added == after # doc[c]
  <2>7. top \in DOMAIN past[c] /\ \A d \in Clients : past[d] \in Seq(S) /\ future[d] \in Seq(S)
    BY <2>1, <2>4 DEF Whole
  <2>8. /\ past'[c] = SubSeq(past[c], 1, top - 1)
        /\ future'[c] = IF added THEN Append(future[c], change) ELSE future[c]
        /\ \A d \in Clients \ {c} : past'[d] = past[d] /\ future'[d] = future[d]
    BY <2>1, <2>2
  <2>9. change \in S /\ added \in BOOLEAN
    BY <2>4
  <2> HIDE DEF S, change, added
  <2>10. past'[c] \in Seq(S)
    BY <2>7, <2>8, Shortened
  <2>11. future'[c] \in Seq(S)
    BY <2>7, <2>8, <2>9, Lengthened
  <2>12. \A d \in Clients : past'[d] \in Seq(S) /\ future'[d] \in Seq(S)
    BY <2>7, <2>8, <2>10, <2>11
  <2> QED BY <2>4, <2>5, <2>6, <2>12 DEF Whole, S
<1> QED BY <1>1, <1>2, UndoIs DEF Inv

LEMMA RedoKeepsWholeInv ==
  ASSUME Inv, WholeInv, NEW c \in Clients, Redo(c)
  PROVE  WholeInv'
<1> SUFFICES ASSUME NothingReplaced' PROVE Whole'
  BY DEF WholeInv
<1>1. CASE /\ UNCHANGED <<library, doc, network, past>>
           /\ future' = [future EXCEPT ![c] = <<>>]
  <2>1. Whole
    BY <1>1 DEF WholeInv, NothingReplaced, library, Items, IsPlace
  <2>2. future'[c] = <<>> /\ \A d \in Clients \ {c} : future'[d] = future[d]
    BY <1>1 DEF Inv, HistoryInv
  <2>3. <<>> \in Seq(SoundChanges(made))
    OBVIOUS
  <2>4. UNCHANGED <<made, chain, doc, log, link, past>>
    BY <1>1 DEF library, network
  <2> QED BY <2>1, <2>2, <2>3, <2>4 DEF Whole
<1>2. CASE RedoTakes(c)
  <2>1. PICK top, others, new, after :
          /\ top \in DOMAIN future[c]
          /\ TakenBackAs(c, future[c][top], others, new, after)
          /\ future' = [future EXCEPT ![c] = SubSeq(@, 1, top - 1)]
          /\ past' = [past EXCEPT ![c] =
                          IF after = doc[c] THEN @ ELSE Append(@, Change(doc[c], after))]
    BY <1>2 DEF RedoTakes
  <2>2. future[c][top] \in Changes(doc[c].items) /\ DOMAIN past = Clients /\ DOMAIN future = Clients
    BY <2>1, Shortened DEF Inv, HistoryInv
  <2>3. ASSUME Whole PROVE future[c][top] \in SoundChanges(made)
    BY <2>1, <2>3, Shortened DEF Whole
  <2>4. /\ Whole /\ OneOfEach(made', chain') /\ Sound(made) \subseteq Sound(made')
        /\ SoundChanges(made) \subseteq SoundChanges(made')
        /\ after \in Sound(made') /\ Change(doc[c], after) \in SoundChanges(made')
    BY <2>1, <2>2, <2>3, TakingBackKeepsWhole
  <2>5. doc' = [doc EXCEPT ![c] = after] /\ log' = Append(log, after) /\ link' = link
    BY <2>1 DEF TakenBackAs, Transacts
  <2>6. doc' \in [Clients -> Sound(made')] /\ log' \in Seq(Sound(made'))
    <3>1. doc \in [Clients -> Sound(made')] /\ log \in Seq(Sound(made'))
      BY <2>4 DEF Whole
    <3> QED BY <3>1, <2>4, <2>5
  <2> DEFINE S == SoundChanges(made')
             change == Change(doc[c], after)
             added == after # doc[c]
  <2>7. top \in DOMAIN future[c] /\ \A d \in Clients : past[d] \in Seq(S) /\ future[d] \in Seq(S)
    BY <2>1, <2>4 DEF Whole
  <2>8. /\ future'[c] = SubSeq(future[c], 1, top - 1)
        /\ past'[c] = IF added THEN Append(past[c], change) ELSE past[c]
        /\ \A d \in Clients \ {c} : past'[d] = past[d] /\ future'[d] = future[d]
    BY <2>1, <2>2
  <2>9. change \in S /\ added \in BOOLEAN
    BY <2>4
  <2> HIDE DEF S, change, added
  <2>10. future'[c] \in Seq(S)
    BY <2>7, <2>8, Shortened
  <2>11. past'[c] \in Seq(S)
    BY <2>7, <2>8, <2>9, Lengthened
  <2>12. \A d \in Clients : past'[d] \in Seq(S) /\ future'[d] \in Seq(S)
    BY <2>7, <2>8, <2>10, <2>11
  <2> QED BY <2>4, <2>5, <2>6, <2>12 DEF Whole, S
<1> QED BY <1>1, <1>2, RedoIs DEF Inv

----------------------------------------------------------------------------
(* The network carries whole decks.                                         *)

\* Two sound documents make a sound one, so no frame is refused.
LEMMA JoinedIsSound ==
  ASSUME OneOfEach(made, chain), NEW d \in Sound(made), NEW frame \in Sound(made)
  PROVE  Joined(d, frame) \in Sound(made)
<1> DEFINE items == d.items \cup frame.items
           gone  == d.gone \cup frame.gone
<1>1. items \in SUBSET DOMAIN made /\ gone \in SUBSET items
  BY DEF Sound
<1>2. KnownTogether(items, made)
  BY DEF Sound, KnownTogether
<1>3. GoneWithList(items, gone, made)
  <2> SUFFICES ASSUME NEW i \in items, made[i].kind = "place", made[i].of \in gone
               PROVE  i \in gone
    BY DEF GoneWithList
  <2>1. i \in DOMAIN made
    BY <1>1
  <2>2. CASE made[i].of \in d.gone
    BY <2>1, <2>2 DEF Sound, KnownTogether, GoneTogether
  <2>3. CASE made[i].of \in frame.gone
    BY <2>1, <2>3 DEF Sound, KnownTogether, GoneTogether
  <2> QED BY <2>2, <2>3
<1> QED BY <1>1, <1>2, <1>3, SettledIsSound DEF Joined

LEMMA ReceiveKeepsWhole ==
  ASSUME Inv, Whole, NEW c \in Clients, Receive(c)
  PROVE  Whole'
<1> DEFINE staged == Joined(doc[c], log[read[c] + 1])
<1>1. log[read[c] + 1] \in Sound(made)
  BY DEF Inv, DocsInv, Whole, Receive
<1>2. staged \in Sound(made)
  BY <1>1, JoinedIsSound DEF Whole
<1>3. IsWhole(staged)
  BY <1>2, SoundIsWhole DEF Whole
<1> HIDE DEF staged
<1>4. doc' = [doc EXCEPT ![c] = staged] /\ UNCHANGED <<link, library, log, past, future>>
  BY <1>3 DEF Receive, staged
<1> QED BY <1>2, <1>4 DEF Whole, library

LEMMA AnswerKeepsWhole ==
  ASSUME Whole, NEW c \in Clients, Answer(c)
  PROVE  Whole'
<1>1. /\ UNCHANGED <<library, sessions, link>>
      /\ log' = log \/ log' = Append(log, doc[c])
  BY DEF Answer
<1>2. doc[c] \in Sound(made) /\ log \in Seq(Sound(made))
  BY DEF Whole
<1>3. Append(log, doc[c]) \in Seq(Sound(made))
  BY <1>2
<1>4. log' \in Seq(Sound(made))
  BY <1>1, <1>2, <1>3
<1>5. UNCHANGED <<made, chain, doc, past, future, link>>
  BY <1>1 DEF library, sessions
<1> QED BY <1>4, <1>5 DEF Whole

LEMMA NextKeepsWholeInv ==
  ASSUME Inv, WholeInv, [Next]_vars
  PROVE  WholeInv'
<1>1. CASE UNCHANGED vars
  <2>1. UNCHANGED <<made, chain, doc, past, future, link, log>>
    BY <1>1 DEF vars, library, sessions, network
  <2> QED BY <2>1 DEF WholeInv, NothingReplaced, Whole, Items, IsPlace
<1>2. ASSUME NEW c \in Clients, Connect(c) \/ Answer(c) \/ Receive(c)
      PROVE  WholeInv'
  <2> SUFFICES ASSUME NothingReplaced' PROVE Whole'
    BY DEF WholeInv
  <2>1. made' = made
    BY <1>2 DEF Connect, Answer, Receive, library
  <2>2. Whole
    BY <2>1 DEF WholeInv, NothingReplaced, Items, IsPlace
  <2>3. ~Connect(c)
    BY <2>2 DEF Connect, Whole
  <2> QED BY <1>2, <2>2, <2>3, AnswerKeepsWhole, ReceiveKeepsWhole
<1> QED BY <1>1, <1>2, EditKeepsWholeInv, UndoKeepsWholeInv, RedoKeepsWholeInv DEF Next

LEMMA InitWholeInv == ASSUME Init PROVE WholeInv
<1>1. OneOfEach(made, chain)
  <2>1. \A i \in Seeds : /\ made[i].kind = "entry" /\ made[i].of = i
                         /\ i \in DOMAIN chain /\ chain[i] = <<i>>
    BY SeedLibrary
  <2>2. \A i \in DOMAIN made \ Seeds :
          made[i].kind = "place" /\ made[i].of \in Seeds /\ i = PlaceOfSeed(made[i].of)
    BY SeedLibrary
  <2>3. Seeds \subseteq DOMAIN made
    BY SeedLibrary DEF SeedItems
  <2>4. ASSUME NEW i \in DOMAIN made, NEW j \in DOMAIN made,
               made[i].kind = "place", made[j].kind = "place", made[i].of = made[j].of
        PROVE  i = j
    <3>1. i \notin Seeds /\ j \notin Seeds
      BY <2>1, <2>4
    <3> QED BY <3>1, <2>2, <2>4
  <2>5. ASSUME NEW i \in DOMAIN made
        PROVE  /\ made[i].of \in DOMAIN made
               /\ made[made[i].of].kind = "entry" /\ made[made[i].of].of = made[i].of
               /\ made[i].kind \in {"entry", "place"}
               /\ made[i].kind = "entry" => i \in DOMAIN chain /\ chain[i] = <<i>> /\ made[i].of = i
    <3>1. CASE i \in Seeds
      BY <3>1, <2>1, <2>3
    <3>2. CASE i \notin Seeds
      <4>1. made[i].kind = "place" /\ made[i].of \in Seeds
        BY <3>2, <2>2
      <4> QED BY <4>1, <2>1, <2>3
    <3> QED BY <3>1, <3>2
  <2> QED BY <2>4, <2>5 DEF OneOfEach
<1>2. Document(Items, {}) \in Sound(made)
  <2>1. \A i \in DOMAIN made : made[i].of \in DOMAIN made
    BY <1>1 DEF OneOfEach
  <2> QED BY <2>1 DEF Sound, Document, Items, KnownTogether, GoneTogether
<1>3. /\ doc = [c \in Clients |-> Document(Items, {})] /\ log = <<>>
      /\ link = [c \in Clients |-> "on"]
      /\ past = [c \in Clients |-> <<>>] /\ future = [c \in Clients |-> <<>>]
  BY DEF Init
<1>4. log \in Seq(Sound(made)) /\ <<>> \in Seq(SoundChanges(made))
  BY <1>3
<1>5. Whole
  BY <1>1, <1>2, <1>3, <1>4 DEF Whole
<1> QED BY <1>5 DEF WholeInv

LEMMA InvIsWhole == ASSUME WholeInv PROVE DecksStayWhole
<1>1. ASSUME NothingReplaced, NEW c \in Clients PROVE IsWhole(doc[c]) /\ link[c] = "on"
  BY <1>1, SoundIsWhole DEF WholeInv, Whole
<1> QED BY <1>1 DEF DecksStayWhole

\* As long as no slide has been moved and no undo or redo has brought anything
\* back, everybody has a deck that can be shown and refuses nothing the other did:
\* for any file, any number of edits, undos and redos, and both typing at once.
THEOREM SharedDecksStayWhole == Spec => []DecksStayWhole
<1>1. Init => Inv /\ WholeInv
  BY InitInv, InitWholeInv
<1>2. Inv /\ WholeInv /\ [Next]_vars => (Inv /\ WholeInv)'
  BY NextKeepsInv, NextKeepsWholeInv
<1>3. Inv /\ WholeInv => DecksStayWhole
  BY InvIsWhole
<1> QED BY <1>1, <1>2, <1>3, PTL DEF Spec

----------------------------------------------------------------------------
(* What was brought back, and what the histories hold.                      *)

\* In the order in which items were told, those of the file first: i was told
\* when j was not.
At(n, frames) == IF n = 0 THEN SeedItems ELSE frames[n].items
Earlier(i, j, frames) ==
  \E n \in 0..Len(frames) : i \in At(n, frames) /\ \A k \in 0..n : j \notin At(k, frames)

LEMMA EarlierStill ==
  ASSUME NEW S, NEW frames \in Seq(S), NEW frame, NEW i, NEW j, Earlier(i, j, frames)
  PROVE  Earlier(i, j, Append(frames, frame))
<1> DEFINE frames2 == Append(frames, frame)
<1>1. PICK n \in 0..Len(frames) : i \in At(n, frames) /\ \A k \in 0..n : j \notin At(k, frames)
  BY DEF Earlier
<1>2. Len(frames) \in Nat /\ Len(frames2) = Len(frames) + 1
      /\ \A k \in 1..Len(frames) : frames2[k] = frames[k]
  OBVIOUS
<1> HIDE DEF frames2
<1>3. \A k \in 0..n : At(k, frames2) = At(k, frames)
  BY <1>2 DEF At
<1>4. n \in 0..Len(frames2) /\ n \in 0..n
  BY <1>2
<1> QED BY <1>1, <1>3, <1>4 DEF Earlier, frames2

\* What was told was told before what is made now.
LEMMA EarlierThanNew ==
  ASSUME NEW m, NEW frames \in Seq(Decks(m)), SeedItems \subseteq DOMAIN m, NEW frame,
         NEW i \in Told(frames).items, NEW j, j \notin DOMAIN m
  PROVE  Earlier(i, j, Append(frames, frame))
<1>1. PICK n \in 0..Len(frames) : i \in At(n, frames)
  <2>1. CASE i \in SeedItems
    <3>1. 0 \in 0..Len(frames)
      OBVIOUS
    <3> QED BY <2>1, <3>1 DEF At
  <2>2. CASE i \notin SeedItems
    <3>1. PICK n \in DOMAIN frames : i \in frames[n].items
      BY <2>2, ToldIs
    <3>2. n \in 0..Len(frames) /\ n # 0
      BY <3>1
    <3> QED BY <3>1, <3>2 DEF At
  <2> QED BY <2>1, <2>2
<1>2. \A k \in 0..n : j \notin At(k, frames)
  <2> SUFFICES ASSUME NEW k \in 0..n PROVE j \notin At(k, frames)
    OBVIOUS
  <2>1. CASE k = 0
    BY <2>1 DEF At
  <2>2. CASE k # 0
    <3>1. k \in DOMAIN frames
      BY <2>2, <1>1
    <3>2. frames[k] \in Decks(m)
      BY <3>1
    <3> QED BY <2>2, <3>2 DEF At, Decks
  <2> QED BY <2>1, <2>2
<1>3. Earlier(i, j, frames)
  BY <1>1, <1>2 DEF Earlier
<1> QED BY <1>3, EarlierStill

\* There is no end of later items.
LEMMA NoneIsLatest ==
  ASSUME NEW S, NEW frames \in Seq(S), NEW T, T # {},
         \A i \in T : \E j \in T : Earlier(i, j, frames)
  PROVE  FALSE
<1> DEFINE Absent(j, n) == \A k \in 0..(n - 1) : j \notin At(k, frames)
           N == {n \in 1..(Len(frames) + 1) : \E j \in T : Absent(j, n)}
<1>1. Len(frames) \in Nat /\ Len(frames) + 1 \in Nat
  OBVIOUS
<1>2. ASSUME NEW i \in T
      PROVE  \E n \in 0..Len(frames) : i \in At(n, frames) /\ n + 1 \in N
  <2>1. PICK j \in T : Earlier(i, j, frames)
    OBVIOUS
  <2>2. PICK n \in 0..Len(frames) : i \in At(n, frames) /\ \A k \in 0..n : j \notin At(k, frames)
    BY <2>1 DEF Earlier
  <2>3. n + 1 \in 1..(Len(frames) + 1) /\ 0..((n + 1) - 1) = 0..n
    BY <1>1
  <2>4. Absent(j, n + 1)
    BY <2>2, <2>3
  <2> QED BY <2>1, <2>2, <2>3, <2>4
<1>3. N \in SUBSET (1..(Len(frames) + 1)) /\ N # {}
  BY <1>2
<1>4. PICK n \in N : \A o \in N : o <= n
  <2> HIDE DEF N
  <2> QED BY <1>1, <1>3, Greatest
<1>5. PICK i \in T : Absent(i, n)
  OBVIOUS
<1>6. PICK o \in 0..Len(frames) : i \in At(o, frames) /\ o + 1 \in N
  BY <1>2
<1>7. n \in Nat /\ o \in Nat /\ o + 1 <= n
  <2>1. n \in 1..(Len(frames) + 1)
    OBVIOUS
  <2> HIDE DEF N
  <2>2. o + 1 <= n
    BY <1>4, <1>6
  <2> QED BY <2>1, <2>2, <1>1
<1>8. o \in 0..(n - 1)
  BY <1>7
<1> QED BY <1>5, <1>6, <1>8

\* What brings an item back is of the same object, and made by a client that
\* knew it to be gone, after it.
BroughtBack(m, docs, frames) ==
  \A j \in DOMAIN m : m[j].redoes # Nothing =>
    /\ m[m[j].redoes].of = m[j].of
    /\ j[1] \in Clients /\ m[j].redoes \in docs[j[1]].gone
    /\ Earlier(m[j].redoes, j, frames)

\* A change of c's history puts in what c made, and what it deleted is gone and
\* was not brought back since.
Ours(c, x, d, m) ==
  /\ \A i \in x.ins : i[1] = c
  /\ x.del \subseteq d.gone
  /\ \A k \in x.del \ x.ins : RedoneIn(c, k, m) = {}

\* No two changes have deleted the same.
Apart(x, y) == x.del \cap y.del = {}
InOrder(c, stack, other, d, m) ==
  /\ \A n \in DOMAIN stack : Ours(c, stack[n], d, m)
  /\ \A n \in DOMAIN other : Ours(c, other[n], d, m)
  /\ \A n, o \in DOMAIN stack : n # o => Apart(stack[n], stack[o])
  /\ \A n, o \in DOMAIN other : n # o => Apart(other[n], other[o])
  /\ \A n \in DOMAIN stack, o \in DOMAIN other : Apart(stack[n], other[o])

UndoInv == /\ BroughtBack(made, doc, log)
           /\ \A c \in Clients : InOrder(c, past[c], future[c], doc[c], made)

LEMMA EitherWay ==
  ASSUME NEW c, NEW stack, NEW other, NEW d, NEW m, InOrder(c, stack, other, d, m)
  PROVE  InOrder(c, other, stack, d, m)
  BY DEF InOrder, Apart

\* A stack that loses changes, and one that a change is put on or merged into.
Merged(x, y) == [ins |-> x.ins \cup y.ins, del |-> x.del \cup y.del]
Loses(stack2, stack) == \A n \in DOMAIN stack2 : n \in DOMAIN stack /\ stack2[n] = stack[n]
Gains(stack2, stack, change) ==
  \E at : /\ \A n \in DOMAIN stack2 : n # at => n \in DOMAIN stack /\ stack2[n] = stack[n]
          /\ at \in DOMAIN stack2 => \/ stack2[at] = change
                                     \/ at \in DOMAIN stack /\ stack2[at] = Merged(stack[at], change)

LEMMA CapturedGains ==
  ASSUME DOMAIN past = Clients, DOMAIN future = Clients,
         NEW c \in Clients, NEW S, past[c] \in Seq(S), NEW change, Captured(c, change)
  PROVE  /\ Gains(past'[c], past[c], change) /\ Loses(future'[c], future[c])
         /\ \A d \in Clients \ {c} : past'[d] = past[d] /\ future'[d] = future[d]
<1>1. future'[c] = <<>> /\ \A d \in Clients \ {c} : future'[d] = future[d]
  BY DEF Captured
<1>2. Loses(future'[c], future[c])
  BY <1>1 DEF Loses
<1> DEFINE stack == past[c]
           top   == stack[Len(stack)]
<1>3. CASE past' = [past EXCEPT ![c] = Append(@, change)]
  <2>1. past'[c] = Append(stack, change)
    BY <1>3
  <2> HIDE DEF stack
  <2>2. /\ \A n \in DOMAIN Append(stack, change) :
             n # Len(stack) + 1 => n \in DOMAIN stack /\ Append(stack, change)[n] = stack[n]
        /\ Append(stack, change)[Len(stack) + 1] = change
    BY DEF stack
  <2>3. Gains(past'[c], stack, change)
    BY <2>1, <2>2 DEF Gains
  <2> QED BY <1>1, <1>2, <1>3, <2>3 DEF stack
<1>4. CASE /\ stack # <<>>
           /\ past' = [past EXCEPT ![c] = [@ EXCEPT ![Len(stack)] = Merged(top, change)]]
  <2>1. past'[c] = [stack EXCEPT ![Len(stack)] = Merged(top, change)]
    BY <1>4
  <2>2. Len(stack) \in DOMAIN stack
    BY <1>4
  <2> HIDE DEF stack
  <2>3. Gains(past'[c], stack, change)
    BY <2>1, <2>2 DEF Gains
  <2> QED BY <1>1, <1>2, <1>4, <2>3 DEF stack
<1> QED BY <1>3, <1>4 DEF Captured, Merged

LEMMA AppendedGains ==
  ASSUME NEW S, NEW stack \in Seq(S), NEW change, NEW added \in BOOLEAN
  PROVE  Gains(IF added THEN Append(stack, change) ELSE stack, stack, change)
<1>1. CASE added
  <2>1. /\ \A n \in DOMAIN Append(stack, change) :
             n # Len(stack) + 1 => n \in DOMAIN stack /\ Append(stack, change)[n] = stack[n]
        /\ Append(stack, change)[Len(stack) + 1] = change
    OBVIOUS
  <2>2. Gains(Append(stack, change), stack, change)
    BY <2>1 DEF Gains
  <2> QED BY <1>1, <2>2
<1>2. CASE ~added
  <2>1. Len(stack) + 1 \notin DOMAIN stack
    OBVIOUS
  <2>2. Gains(stack, stack, change)
    BY <2>1 DEF Gains
  <2> QED BY <1>2, <2>2
<1> QED BY <1>1, <1>2

LEMMA ShortenedLoses ==
  ASSUME NEW S, NEW stack \in Seq(S), NEW top \in DOMAIN stack
  PROVE  /\ Loses(SubSeq(stack, 1, top - 1), stack)
         /\ top \notin DOMAIN SubSeq(stack, 1, top - 1)
<1>1. \A n \in DOMAIN SubSeq(stack, 1, top - 1) :
        n \in DOMAIN stack /\ SubSeq(stack, 1, top - 1)[n] = stack[n]
  OBVIOUS
<1>2. top \notin DOMAIN SubSeq(stack, 1, top - 1)
  OBVIOUS
<1> QED BY <1>1, <1>2 DEF Loses

\* A change of c, which brings the items back back.
Takes(c, d, m, change, back, after, m2) ==
  /\ d.gone \subseteq after.gone /\ change.del = after.gone \ d.gone
  /\ \A i \in change.ins : i[1] = c
  /\ \A k \in after.gone : RedoneIn(c, k, m2) # {} => RedoneIn(c, k, m) # {} \/ k \in back
  /\ \A k \in change.del : RedoneIn(c, k, m) = {} /\ k \notin back

\* When it is put on one stack, and no change left has deleted what comes back, the
\* histories stay in order.
LEMMA HistoryStaysInOrder ==
  ASSUME NEW c, NEW stack, NEW other, NEW d, NEW m, InOrder(c, stack, other, d, m),
         NEW change, NEW after, NEW m2, NEW back, Takes(c, d, m, change, back, after, m2),
         NEW stack2, NEW other2, Gains(stack2, stack, change), Loses(other2, other),
         \A n \in DOMAIN stack : stack[n].del \cap back = {},
         \A n \in DOMAIN other2 : other[n].del \cap back = {}
  PROVE  InOrder(c, stack2, other2, after, m2)
<1>0. /\ d.gone \subseteq after.gone /\ change.del = after.gone \ d.gone
      /\ \A i \in change.ins : i[1] = c
      /\ \A k \in after.gone : RedoneIn(c, k, m2) # {} => RedoneIn(c, k, m) # {} \/ k \in back
      /\ \A k \in change.del : RedoneIn(c, k, m) = {} /\ k \notin back
  BY DEF Takes
<1>1. Ours(c, change, after, m2)
  BY <1>0 DEF Ours
<1>2. ASSUME NEW x, Ours(c, x, d, m), x.del \cap back = {}
      PROVE  Ours(c, x, after, m2) /\ Apart(x, change) /\ Apart(change, x)
             /\ Ours(c, Merged(x, change), after, m2)
  <2>1. Ours(c, x, after, m2)
    BY <1>0, <1>2 DEF Ours
  <2>2. Apart(x, change) /\ Apart(change, x)
    BY <1>0, <1>2 DEF Ours, Apart
  <2>3. Merged(x, change).ins = x.ins \cup change.ins /\ Merged(x, change).del = x.del \cup change.del
    BY DEF Merged
  <2>4. Ours(c, Merged(x, change), after, m2)
    BY <1>1, <2>1, <2>3 DEF Ours
  <2> QED BY <2>1, <2>2, <2>4
<1>3. \A n \in DOMAIN stack : /\ Ours(c, stack[n], after, m2)
                              /\ Apart(stack[n], change) /\ Apart(change, stack[n])
                              /\ Ours(c, Merged(stack[n], change), after, m2)
  BY <1>2 DEF InOrder
<1>4. \A n \in DOMAIN other2 : /\ n \in DOMAIN other /\ other2[n] = other[n]
                               /\ Ours(c, other2[n], after, m2)
                               /\ Apart(other2[n], change) /\ Apart(change, other2[n])
  BY <1>2 DEF InOrder, Loses
<1>5. PICK at : /\ \A n \in DOMAIN stack2 : n # at => n \in DOMAIN stack /\ stack2[n] = stack[n]
                /\ at \in DOMAIN stack2 => \/ stack2[at] = change
                                           \/ /\ at \in DOMAIN stack
                                              /\ stack2[at] = Merged(stack[at], change)
  BY DEF Gains
<1>6. \A n \in DOMAIN stack2 : Ours(c, stack2[n], after, m2)
  BY <1>1, <1>3, <1>5
<1>7. \A x, y : Apart(x, y) /\ Apart(change, y) => Apart(Merged(x, change), y) /\ Apart(y, Merged(x, change))
  BY DEF Apart, Merged
<1>8. ASSUME NEW n \in DOMAIN stack2, NEW o \in DOMAIN stack2, n # o
      PROVE  Apart(stack2[n], stack2[o])
  <2>1. \A k, l \in DOMAIN stack : k # l => Apart(stack[k], stack[l])
    BY DEF InOrder
  <2>2. CASE n # at /\ o # at
    BY <1>5, <1>8, <2>1, <2>2
  <2>3. CASE n = at
    <3>1. o \in DOMAIN stack /\ stack2[o] = stack[o] /\ Apart(change, stack[o])
      BY <1>3, <1>5, <1>8, <2>3
    <3>2. CASE stack2[at] = change
      BY <2>3, <3>1, <3>2
    <3>3. CASE at \in DOMAIN stack /\ stack2[at] = Merged(stack[at], change)
      BY <1>7, <1>8, <2>1, <2>3, <3>1, <3>3
    <3> QED BY <1>5, <2>3, <3>2, <3>3
  <2>4. CASE o = at
    <3>1. n \in DOMAIN stack /\ stack2[n] = stack[n] /\ Apart(change, stack[n]) /\ Apart(stack[n], change)
      BY <1>3, <1>5, <1>8, <2>4
    <3>2. CASE stack2[at] = change
      BY <2>4, <3>1, <3>2
    <3>3. CASE at \in DOMAIN stack /\ stack2[at] = Merged(stack[at], change)
      BY <1>7, <1>8, <2>1, <2>4, <3>1, <3>3
    <3> QED BY <1>5, <2>4, <3>2, <3>3
  <2> QED BY <2>2, <2>3, <2>4
<1>9. ASSUME NEW n \in DOMAIN stack2, NEW o \in DOMAIN other2
      PROVE  Apart(stack2[n], other2[o])
  <2>1. \A k \in DOMAIN stack : Apart(stack[k], other2[o])
    BY <1>4 DEF InOrder
  <2>2. Apart(change, other2[o])
    BY <1>4
  <2> QED BY <1>5, <1>7, <2>1, <2>2
<1>10. \A n, o \in DOMAIN other2 : n # o => Apart(other2[n], other2[o])
  BY <1>4 DEF InOrder
<1> QED BY <1>4, <1>6, <1>8, <1>9, <1>10 DEF InOrder

\* Nothing else changes that: changes are dropped, and more is gone.
LEMMA HistoryStays ==
  ASSUME NEW c, NEW stack, NEW other, NEW d, NEW m, InOrder(c, stack, other, d, m),
         NEW after, d.gone \subseteq after.gone, NEW m2,
         \A k \in d.gone : RedoneIn(c, k, m2) = RedoneIn(c, k, m),
         NEW stack2, NEW other2, Loses(stack2, stack), Loses(other2, other)
  PROVE  InOrder(c, stack2, other2, after, m2)
<1>1. \A x : Ours(c, x, d, m) => Ours(c, x, after, m2)
  BY DEF Ours
<1>2. /\ \A n \in DOMAIN stack2 : n \in DOMAIN stack /\ stack2[n] = stack[n]
      /\ \A n \in DOMAIN other2 : n \in DOMAIN other /\ other2[n] = other[n]
  BY DEF Loses
<1> QED BY <1>1, <1>2 DEF InOrder

\* A transaction keeps that of what was brought back, and brings back only what its
\* client knew to be gone.
LEMMA TransactionKeepsBack ==
  ASSUME Inv, BroughtBack(made, doc, log), NEW c \in Clients, NEW new, NEW gone, NEW after,
         Makes(c, new, gone, after), Transacts(c, after),
         \A j \in new : made'[j].redoes # Nothing =>
           made'[j].redoes \in doc[c].gone /\ made[made'[j].redoes].of = made'[j].of
  PROVE  BroughtBack(made', doc', log')
<1>1. /\ doc'[c] = after /\ \A d \in Clients \ {c} : doc'[d] = doc[d]
      /\ log' = Append(log, after) /\ log \in Seq(Decks(made)) /\ SeedItems \subseteq Items
      /\ doc[c] \in Decks(made)
  BY DEF Transacts, Inv, DocsInv
<1>2. /\ DOMAIN made' = Items \cup new /\ \A i \in Items : made'[i] = made[i]
      /\ \A j \in new : j[1] = c
  BY DEF Makes, Grows, Items
<1>3. doc[c].gone \subseteq after.gone
  BY WhatItLeaves DEF Inv
<1>4. doc[c].gone \subseteq doc[c].items /\ doc[c].items \subseteq Items
      /\ doc[c].items \subseteq Told(log).items
  BY <1>1 DEF Decks, Inv, AgreeInv, Agrees, Items
<1> SUFFICES ASSUME NEW j \in DOMAIN made', made'[j].redoes # Nothing
             PROVE  /\ made'[made'[j].redoes].of = made'[j].of
                    /\ j[1] \in Clients /\ made'[j].redoes \in doc'[j[1]].gone
                    /\ Earlier(made'[j].redoes, j, log')
  BY DEF BroughtBack
<1>5. CASE j \in Items
  <2> DEFINE i == made[j].redoes
  <2>1. made'[j].redoes = i /\ i # Nothing
    BY <1>2, <1>5
  <2>2. made[i].of = made[j].of /\ j[1] \in Clients /\ i \in doc[j[1]].gone /\ Earlier(i, j, log)
    BY <1>5, <2>1 DEF BroughtBack, Items
  <2>3. i \in Items
    BY <2>2 DEF Inv, DocsInv, Decks, Items
  <2>4. i \in doc'[j[1]].gone
    BY <1>1, <1>3, <2>2
  <2>5. Earlier(i, j, log')
    BY <1>1, <2>2, EarlierStill
  <2> HIDE DEF i
  <2> QED BY <1>2, <1>5, <2>1, <2>2, <2>3, <2>4, <2>5
<1>6. CASE j \in new /\ j \notin Items
  <2> DEFINE i == made'[j].redoes
  <2>1. i \in doc[c].gone /\ made[i].of = made'[j].of
    BY <1>6
  <2>2. j \notin DOMAIN made /\ SeedItems \subseteq DOMAIN made /\ i \in Told(log).items
    BY <1>1, <1>4, <1>6, <2>1 DEF Items
  <2> HIDE DEF i
  <2>3. Earlier(i, j, log')
    BY <1>1, <2>2, EarlierThanNew
  <2>4. i \in Items /\ j[1] = c
    BY <1>2, <1>4, <1>6, <2>1
  <2> QED BY <1>1, <1>2, <1>3, <2>1, <2>3, <2>4 DEF i
<1> QED BY <1>2, <1>5, <1>6

\* What c has brought back before and after a transaction.
LEMMA RedoneAfter ==
  ASSUME Inv, NEW c \in Clients, NEW new, NEW gone, NEW after, Makes(c, new, gone, after),
         NEW d, NEW k
  PROVE  /\ RedoneIn(d, k, made) \subseteq RedoneIn(d, k, made')
         /\ \A j \in RedoneIn(d, k, made') :
              j \in RedoneIn(d, k, made) \/ (j \in new /\ made'[j].redoes = k /\ d = c)
<1>1. /\ DOMAIN made' = Items \cup new /\ \A i \in Items : made'[i] = made[i]
      /\ \A j \in new : j[1] = c
  BY DEF Makes, Grows, Items
<1> QED BY <1>1 DEF RedoneIn, Items

\* A transaction of c: its own histories, and those of the others.
LEMMA TransactionKeepsOrder ==
  ASSUME Inv, UndoInv, NEW c \in Clients, NEW new, NEW gone, NEW after,
         Makes(c, new, gone, after), Transacts(c, after),
         NEW back, \A j \in new : made'[j].redoes \in back \cup {Nothing},
         back \subseteq doc[c].gone,
         NEW stack, NEW other, InOrder(c, stack, other, doc[c], made),
         NEW stack2, NEW other2, Gains(stack2, stack, Change(doc[c], after)), Loses(other2, other),
         \A n \in DOMAIN stack : stack[n].del \cap back = {},
         \A n \in DOMAIN other2 : other[n].del \cap back = {}
  PROVE  InOrder(c, stack2, other2, after, made')
<1> DEFINE change == Change(doc[c], after)
<1>1. /\ change.del = after.gone \ doc[c].gone /\ change.ins = after.items \ doc[c].items
  BY DEF Change
<1>2. /\ doc[c].gone \subseteq after.gone /\ after.gone \subseteq after.items
      /\ after.items = doc[c].items \cup new
  BY WhatItLeaves DEF Inv
<1>3. \A j \in new : j[1] = c
  BY DEF Makes
<1>4. \A i \in change.ins : i[1] = c
  BY <1>1, <1>2, <1>3
<1>5. Nothing \notin after.gone
  <2>1. doc[c].items \cup new \subseteq DOMAIN made'
    BY WhatItLeaves DEF Inv
  <2>2. Nothing \notin DOMAIN made'
    BY DEF Makes, LibraryInv, IdsAreNumbered
  <2> QED BY <1>2, <2>1, <2>2
<1>6. \A k \in after.gone : RedoneIn(c, k, made') # {} => RedoneIn(c, k, made) # {} \/ k \in back
  BY <1>5, RedoneAfter
<1>7. \A k \in change.del : RedoneIn(c, k, made) = {} /\ k \notin back
  <2> SUFFICES ASSUME NEW k \in change.del, NEW j \in RedoneIn(c, k, made)
               PROVE  FALSE
    BY <1>1
  <2>1. k # Nothing /\ k \notin doc[c].gone
    BY <1>1, <1>5
  <2>2. j \in DOMAIN made /\ made[j].redoes = k /\ j[1] = c
    BY DEF RedoneIn
  <2> QED BY <2>1, <2>2 DEF UndoInv, BroughtBack
<1> HIDE DEF change
<1>8. Gains(stack2, stack, change)
  BY DEF change
<1>9. Takes(c, doc[c], made, change, back, after, made')
  BY <1>1, <1>2, <1>4, <1>6, <1>7 DEF Takes
<1> QED BY <1>8, <1>9, HistoryStaysInOrder

LEMMA OthersStayInOrder ==
  ASSUME Inv, UndoInv, NEW c \in Clients, NEW new, NEW gone, NEW after,
         Makes(c, new, gone, after), Transacts(c, after),
         NEW d \in Clients \ {c}, past'[d] = past[d], future'[d] = future[d]
  PROVE  InOrder(d, past'[d], future'[d], doc'[d], made')
<1>1. doc'[d] = doc[d]
  BY DEF Transacts, Inv, DocsInv
<1>2. \A k : RedoneIn(d, k, made') = RedoneIn(d, k, made)
  BY RedoneAfter
<1>3. InOrder(d, past[d], future[d], doc[d], made)
  BY DEF UndoInv
<1>4. Loses(past[d], past[d]) /\ Loses(future[d], future[d])
  BY DEF Loses
<1> HIDE DEF UndoInv
<1>5. doc[d].gone \subseteq doc'[d].gone /\ \A k \in doc[d].gone : RedoneIn(d, k, made') = RedoneIn(d, k, made)
  BY <1>1, <1>2
<1>6. Loses(past'[d], past[d]) /\ Loses(future'[d], future[d])
  BY <1>4
<1> QED BY <1>3, <1>5, <1>6, HistoryStays

LEMMA EditKeepsUndo ==
  ASSUME Inv, UndoInv, NEW c \in Clients, Edit(c)
  PROVE  UndoInv'
<1>1. PICK new, gone, after : /\ Makes(c, new, gone, after) /\ Replaces(c, new, gone, after)
                              /\ Transacts(c, after) /\ Captured(c, Change(doc[c], after))
  BY EditMakes DEF EditIs, Inv
<1>2. \A j \in new : made'[j].redoes = Nothing
  BY <1>1 DEF Replaces
<1>3. BroughtBack(made', doc', log')
  BY <1>1, <1>2, TransactionKeepsBack DEF UndoInv
<1>4. /\ Gains(past'[c], past[c], Change(doc[c], after)) /\ Loses(future'[c], future[c])
      /\ \A d \in Clients \ {c} : past'[d] = past[d] /\ future'[d] = future[d]
  <2>1. DOMAIN past = Clients /\ DOMAIN future = Clients /\ past[c] \in Seq(Changes(doc[c].items))
    BY DEF Inv, HistoryInv
  <2> QED BY <1>1, <2>1, CapturedGains
<1>5. InOrder(c, past'[c], future'[c], after, made')
  <2>1. InOrder(c, past[c], future[c], doc[c], made)
    BY DEF UndoInv
  <2>2. \A j \in new : made'[j].redoes \in {} \cup {Nothing}
    BY <1>2
  <2>3. /\ \A n \in DOMAIN past[c] : past[c][n].del \cap {} = {}
        /\ \A n \in DOMAIN future'[c] : future[c][n].del \cap {} = {}
        /\ {} \subseteq doc[c].gone
    OBVIOUS
  <2> QED BY <1>1, <1>4, <2>1, <2>2, <2>3, TransactionKeepsOrder
<1>6. doc'[c] = after
  BY <1>1 DEF Transacts, Inv, DocsInv
<1>7. \A d \in Clients \ {c} : InOrder(d, past'[d], future'[d], doc'[d], made')
  BY <1>1, <1>4, OthersStayInOrder
<1> QED BY <1>3, <1>5, <1>6, <1>7 DEF UndoInv

\* What comes back was deleted by the change taken back, of an object there is.
LEMMA TakingBackBrings ==
  ASSUME Inv, NEW c \in Clients, NEW change \in Changes(doc[c].items), NEW others,
         NEW new, NEW after, TakenBackAs(c, change, others, new, after)
  PROVE  Brings(c, Returning(c, change, others), new)
<1> DEFINE back == Returning(c, change, others)
<1>1. doc[c] \in Decks(made) /\ LibraryInv(made, chain)
  BY DEF Inv, DocsInv
<1>2. back \subseteq doc[c].items /\ \A i \in back : Redone(c, i) = {}
  BY ReturningIsKnown
<1>3. new = NewIds(c, back) /\ Library(c, new)
  BY DEF TakenBackAs
<1> HIDE DEF back
<1>4. Brings(c, back, new)
  BY <1>1, <1>2, <1>3, LibraryWithBack
<1> QED BY <1>4 DEF back

LEMMA TakingBackKeepsOrder ==
  ASSUME Inv, UndoInv, NEW c \in Clients, NEW stack, NEW other, NEW top \in DOMAIN stack,
         InOrder(c, stack, other, doc[c], made), stack[top] \in Changes(doc[c].items),
         NEW others, NEW new, NEW after, TakenBackAs(c, stack[top], others, new, after),
         NEW stack2, NEW other2, Loses(stack2, stack), top \notin DOMAIN stack2,
         Gains(other2, other, Change(doc[c], after))
  PROVE  /\ BroughtBack(made', doc', log')
         /\ InOrder(c, other2, stack2, after, made')
<1> DEFINE back == Returning(c, stack[top], others)
<1>1. Makes(c, ToRange(new), ToDelete(c, stack[top]), after) /\ Transacts(c, after)
  BY TakingBackMakes DEF Inv, TakenBackAs
<1>2. Brings(c, back, new)
  BY TakingBackBrings
<1>3. back \subseteq stack[top].del
  BY ReturningIsKnown
<1>4. stack[top].del \subseteq doc[c].gone
  BY DEF InOrder, Ours
<1>5. \A n \in DOMAIN other : other[n].del \cap back = {}
  BY <1>3 DEF InOrder, Apart
<1>6. \A n \in DOMAIN stack2 : stack[n].del \cap back = {}
  BY <1>3 DEF InOrder, Apart, Loses
<1> HIDE DEF back
<1>7. \A j \in ToRange(new) : /\ made'[j].redoes \in back
                              /\ made[made'[j].redoes].of = made'[j].of
  BY <1>2 DEF Brings
<1>8. BroughtBack(made', doc', log')
  BY <1>1, <1>3, <1>4, <1>7, TransactionKeepsBack DEF UndoInv
<1>9. InOrder(c, other, stack, doc[c], made)
  BY EitherWay
<1>10. InOrder(c, other2, stack2, after, made')
  BY <1>1, <1>3, <1>4, <1>5, <1>6, <1>7, <1>9, TransactionKeepsOrder
<1> QED BY <1>8, <1>10

LEMMA UndoKeepsUndo ==
  ASSUME Inv, UndoInv, NEW c \in Clients, Undo(c)
  PROVE  UndoInv'
<1>0. /\ past[c] \in Seq(Changes(doc[c].items)) /\ future[c] \in Seq(Changes(doc[c].items))
      /\ DOMAIN past = Clients /\ DOMAIN future = Clients
  BY DEF Inv, HistoryInv
<1>1. CASE /\ UNCHANGED <<library, doc, network, future>>
           /\ past' = [past EXCEPT ![c] = <<>>]
  <2>1. made' = made /\ doc' = doc /\ log' = log /\ future' = future
    BY <1>1 DEF library, network
  <2>2. \A d \in Clients : Loses(past'[d], past[d]) /\ Loses(future'[d], future[d])
    BY <1>0, <1>1, <2>1 DEF Loses
  <2>3. \A d \in Clients : InOrder(d, past'[d], future'[d], doc[d], made)
    BY <2>2, HistoryStays DEF UndoInv
  <2> QED BY <2>1, <2>3 DEF UndoInv
<1>2. CASE UndoTakes(c)
  <2>1. PICK top, others, new, after :
          /\ top \in DOMAIN past[c]
          /\ TakenBackAs(c, past[c][top], others, new, after)
          /\ past' = [past EXCEPT ![c] = SubSeq(@, 1, top - 1)]
          /\ future' = [future EXCEPT ![c] =
                          IF after = doc[c] THEN @ ELSE Append(@, Change(doc[c], after))]
    BY <1>2 DEF UndoTakes
  <2>2. past'[c] = SubSeq(past[c], 1, top - 1) /\ \A d \in Clients \ {c} : past'[d] = past[d]
    BY <1>0, <2>1
  <2> DEFINE added == after # doc[c]
             change == Change(doc[c], after)
  <2>3. future'[c] = (IF added THEN Append(future[c], change) ELSE future[c])
        /\ \A d \in Clients \ {c} : future'[d] = future[d]
    BY <1>0, <2>1
  <2>4. Loses(past'[c], past[c]) /\ top \notin DOMAIN past'[c] /\ past[c][top] \in Changes(doc[c].items)
    BY <1>0, <2>1, <2>2, Shortened, ShortenedLoses
  <2>5. Gains(future'[c], future[c], change)
    <3>1. added \in BOOLEAN
      OBVIOUS
    <3> HIDE DEF added, change
    <3> QED BY <1>0, <2>3, <3>1, AppendedGains
  <2> HIDE DEF added
  <2>6. InOrder(c, past[c], future[c], doc[c], made)
    BY DEF UndoInv
  <2>7. BroughtBack(made', doc', log') /\ InOrder(c, future'[c], past'[c], after, made')
    BY <2>1, <2>4, <2>5, <2>6, TakingBackKeepsOrder
  <2>8. Makes(c, ToRange(new), ToDelete(c, past[c][top]), after) /\ Transacts(c, after)
    BY <2>1, <2>4, TakingBackMakes DEF Inv, TakenBackAs
  <2>9. \A d \in Clients \ {c} : InOrder(d, past'[d], future'[d], doc'[d], made')
    BY <2>2, <2>3, <2>8, OthersStayInOrder
  <2>10. doc'[c] = after
    BY <2>8 DEF Transacts, Inv, DocsInv
  <2> QED BY <2>7, <2>9, <2>10, EitherWay DEF UndoInv
<1> QED BY <1>1, <1>2, UndoIs DEF Inv

LEMMA RedoKeepsUndo ==
  ASSUME Inv, UndoInv, NEW c \in Clients, Redo(c)
  PROVE  UndoInv'
<1>0. /\ past[c] \in Seq(Changes(doc[c].items)) /\ future[c] \in Seq(Changes(doc[c].items))
      /\ DOMAIN past = Clients /\ DOMAIN future = Clients
  BY DEF Inv, HistoryInv
<1>1. CASE /\ UNCHANGED <<library, doc, network, past>>
           /\ future' = [future EXCEPT ![c] = <<>>]
  <2>1. made' = made /\ doc' = doc /\ log' = log /\ past' = past
    BY <1>1 DEF library, network
  <2>2. \A d \in Clients : Loses(past'[d], past[d]) /\ Loses(future'[d], future[d])
    BY <1>0, <1>1, <2>1 DEF Loses
  <2>3. \A d \in Clients : InOrder(d, past'[d], future'[d], doc[d], made)
    BY <2>2, HistoryStays DEF UndoInv
  <2> QED BY <2>1, <2>3 DEF UndoInv
<1>2. CASE RedoTakes(c)
  <2>1. PICK top, others, new, after :
          /\ top \in DOMAIN future[c]
          /\ TakenBackAs(c, future[c][top], others, new, after)
          /\ future' = [future EXCEPT ![c] = SubSeq(@, 1, top - 1)]
          /\ past' = [past EXCEPT ![c] =
                          IF after = doc[c] THEN @ ELSE Append(@, Change(doc[c], after))]
    BY <1>2 DEF RedoTakes
  <2>2. future'[c] = SubSeq(future[c], 1, top - 1) /\ \A d \in Clients \ {c} : future'[d] = future[d]
    BY <1>0, <2>1
  <2> DEFINE added == after # doc[c]
             change == Change(doc[c], after)
  <2>3. past'[c] = (IF added THEN Append(past[c], change) ELSE past[c])
        /\ \A d \in Clients \ {c} : past'[d] = past[d]
    BY <1>0, <2>1
  <2>4. Loses(future'[c], future[c]) /\ top \notin DOMAIN future'[c] /\ future[c][top] \in Changes(doc[c].items)
    BY <1>0, <2>1, <2>2, Shortened, ShortenedLoses
  <2>5. Gains(past'[c], past[c], change)
    <3>1. added \in BOOLEAN
      OBVIOUS
    <3> HIDE DEF added, change
    <3> QED BY <1>0, <2>3, <3>1, AppendedGains
  <2> HIDE DEF added
  <2>6. InOrder(c, future[c], past[c], doc[c], made)
    BY EitherWay DEF UndoInv
  <2>7. BroughtBack(made', doc', log') /\ InOrder(c, past'[c], future'[c], after, made')
    BY <2>1, <2>4, <2>5, <2>6, TakingBackKeepsOrder
  <2>8. Makes(c, ToRange(new), ToDelete(c, future[c][top]), after) /\ Transacts(c, after)
    BY <2>1, <2>4, TakingBackMakes DEF Inv, TakenBackAs
  <2>9. \A d \in Clients \ {c} : InOrder(d, past'[d], future'[d], doc'[d], made')
    BY <2>2, <2>3, <2>8, OthersStayInOrder
  <2>10. doc'[c] = after
    BY <2>8 DEF Transacts, Inv, DocsInv
  <2> QED BY <2>7, <2>9, <2>10 DEF UndoInv
<1> QED BY <1>1, <1>2, RedoIs DEF Inv

\* What the network does: documents join what was told, and are told.
NetworkSays ==
  /\ UNCHANGED <<made, chain, past, future>>
  /\ \A d \in Clients : doc'[d] = doc[d] \/ \E n \in DOMAIN log : doc'[d] = Joined(doc[d], log[n])
  /\ log' = log \/ \E d \in Clients : log' = Append(log, doc[d])

LEMMA NetworkIs ==
  ASSUME Inv, NEW c \in Clients, Connect(c) \/ Answer(c) \/ Receive(c) \/ UNCHANGED vars
  PROVE  NetworkSays
<1>1. CASE Connect(c)
  BY <1>1 DEF Connect, library, sessions, NetworkSays
<1>2. CASE Answer(c)
  BY <1>2 DEF Answer, library, sessions, NetworkSays
<1>3. CASE Receive(c)
  <2>1. log \in Seq(Decks(made)) /\ read[c] \in Nat /\ doc \in [Clients -> Decks(made)]
    BY DEF Inv, DocsInv
  <2>2. read[c] < Len(log) /\ UNCHANGED <<made, chain, past, future, log>>
    BY <1>3 DEF Receive, library
  <2>3. read[c] + 1 \in DOMAIN log
    BY <2>1, <2>2
  <2>4. doc' = doc \/ doc' = [doc EXCEPT ![c] = Joined(doc[c], log[read[c] + 1])]
    BY <1>3 DEF Receive
  <2> QED BY <2>1, <2>2, <2>3, <2>4 DEF NetworkSays
<1>4. CASE UNCHANGED vars
  BY <1>4 DEF vars, library, sessions, network, NetworkSays
<1> QED BY <1>1, <1>2, <1>3, <1>4

LEMMA NetworkKeepsUndo ==
  ASSUME Inv, UndoInv, NetworkSays
  PROVE  UndoInv'
<1>1. made' = made /\ past' = past /\ future' = future
  BY DEF NetworkSays
<1>2. \A d \in Clients : doc[d].gone \subseteq doc'[d].gone
  <2>1. \A d, frame : d.gone \subseteq Joined(d, frame).gone
    BY SettledIs DEF Joined
  <2> QED BY <2>1 DEF NetworkSays
<1>3. \A i, j : Earlier(i, j, log) => Earlier(i, j, log')
  <2>1. log \in Seq(Decks(made))
    BY DEF Inv, DocsInv
  <2> QED BY <2>1, EarlierStill DEF NetworkSays
<1>4. BroughtBack(made', doc', log')
  <2>1. BroughtBack(made, doc, log)
    BY DEF UndoInv
  <2> QED BY <2>1, <1>1, <1>2, <1>3 DEF BroughtBack
<1>5. ASSUME NEW d \in Clients PROVE InOrder(d, past'[d], future'[d], doc'[d], made')
  <2>1. InOrder(d, past[d], future[d], doc[d], made)
    BY DEF UndoInv
  <2>2. Loses(past[d], past[d]) /\ Loses(future[d], future[d])
    BY DEF Loses
  <2>3. InOrder(d, past[d], future[d], doc'[d], made)
    BY <1>2, <2>1, <2>2, HistoryStays
  <2> QED BY <2>3, <1>1
<1> QED BY <1>4, <1>5 DEF UndoInv

LEMMA NextKeepsUndo ==
  ASSUME Inv, UndoInv, [Next]_vars
  PROVE  UndoInv'
<1>1. CASE UNCHANGED vars
  <2>1. NetworkSays
    BY <1>1 DEF vars, library, sessions, network, NetworkSays
  <2> QED BY <2>1, NetworkKeepsUndo
<1>2. CASE Next
  <2>1. PICK c \in Clients : Edit(c) \/ Undo(c) \/ Redo(c) \/ Connect(c) \/ Answer(c) \/ Receive(c)
    BY <1>2 DEF Next
  <2> QED BY <2>1, EditKeepsUndo, UndoKeepsUndo, RedoKeepsUndo, NetworkIs, NetworkKeepsUndo
<1> QED BY <1>1, <1>2

LEMMA InitUndo == ASSUME Init PROVE UndoInv
<1>1. \A i \in DOMAIN made : made[i].redoes = Nothing
  BY SeedLibrary
<1>2. past = [c \in Clients |-> <<>>] /\ future = [c \in Clients |-> <<>>]
  BY DEF Init
<1>3. BroughtBack(made, doc, log)
  BY <1>1 DEF BroughtBack
<1>4. ASSUME NEW c \in Clients PROVE InOrder(c, past[c], future[c], doc[c], made)
  BY <1>2 DEF InOrder
<1> QED BY <1>3, <1>4 DEF UndoInv

----------------------------------------------------------------------------
(* The places of the slides.                                                *)

\* Some of the places, own, are those that are there as long as the slide's content
\* was never deleted.  Whoever knows a slide knows one of them; and where one is
\* gone the slide is gone, or there is a later one.
Kept(own, d, m, frames) ==
  /\ \A i \in SlidePlaces(m) : m[i].of \in d.items => \E x \in own \cap d.items : m[x].of = m[i].of
  /\ \A x \in own \cap d.gone :
       \/ m[x].of \in d.gone
       \/ \E y \in own \cap d.items : m[y].of = m[x].of /\ Earlier(x, y, frames)
Heirs(own, m, docs, frames) ==
  /\ own \subseteq SlidePlaces(m)
  /\ \A j \in own : m[j].redoes # Nothing => m[j].redoes \in own
  /\ \A c \in Clients : Kept(own, docs[c], m, frames)
  /\ \A n \in DOMAIN frames : Kept(own, frames[n], m, frames)

\* A change that has put one of them in has put in the slide, or taken another one away.
Paired(own, change, m) ==
  \A i \in change.ins \cap own :
    \/ m[i].of \in change.ins
    \/ \E k \in (change.del \ change.ins) \cap own : m[k].of = m[i].of
AllPaired(own, stack, m) == \A n \in DOMAIN stack : Paired(own, stack[n], m)

PlacesInv == \E own : /\ Heirs(own, made, doc, log)
                      /\ \A c \in Clients : AllPaired(own, past[c], made) /\ AllPaired(own, future[c], made)

\* So a slide that is not gone has a place: there is no last one that is gone.
LEMMA LiveSlideHasPlace ==
  ASSUME NEW S, log \in Seq(S), NEW own, own \subseteq SlidePlaces(made),
         NEW d, Kept(own, d, made, log), NEW s \in SlideIds, s \in Live(d)
  PROVE  PlacesOf(d, Slides, s) # {}
<1> DEFINE T == {x \in own \cap d.items : made[x].of = s}
<1> SUFFICES ASSUME PlacesOf(d, Slides, s) = {}
             PROVE  FALSE
  OBVIOUS
<1>1. PICK i \in SlidePlaces(made) : made[i].of = s
  BY DEF SlideIds, SlidePlaces, IsPlace, Items
<1>2. T # {}
  BY <1>1 DEF Kept, Live
<1>3. ASSUME NEW x \in T PROVE \E y \in T : Earlier(x, y, log)
  <2>1. x \in SlidePlaces(made) /\ x \in d.items /\ made[x].of = s
    OBVIOUS
  <2>2. x \in d.gone
    BY <2>1 DEF PlacesOf, Places, Live, IsPlace, SlidePlaces
  <2>3. s \notin d.gone
    BY DEF Live
  <2>4. PICK y \in own \cap d.items : made[y].of = made[x].of /\ Earlier(x, y, log)
    BY <2>1, <2>2, <2>3 DEF Kept
  <2> QED BY <2>1, <2>4
<1> HIDE DEF T
<1> QED BY <1>2, <1>3, NoneIsLatest

\* A slide's place goes only when it is deleted: it hides nothing, and its list stays.
LEMMA SlidePlaceGoes ==
  ASSUME NEW m, NEW ch, IdsAreNumbered(m), NEW items, items \subseteq DOMAIN m,
         NEW gone, gone \subseteq items, NEW x \in SlidePlaces(m),
         x \in Settled(items, gone, m, ch).gone
  PROVE  x \in gone
<1>1. Hidden(items, m, ch) \subseteq items /\ x \notin Hidden(items, m, ch)
  BY DEF Hidden, SlidePlaces
<1>2. Slides \notin gone \cup Hidden(items, m, ch)
  BY <1>1 DEF IdsAreNumbered
<1>3. m[x].within = Slides
  BY DEF SlidePlaces
<1>4. \/ x \in gone \cup Hidden(items, m, ch)
      \/ m[x].within \in gone \cup Hidden(items, m, ch)
  BY SettledIs
<1> QED BY <1>1, <1>2, <1>3, <1>4

\* Two documents that keep their places make one that does.
LEMMA JoinedKeeps ==
  ASSUME NEW m, NEW ch, IdsAreNumbered(m), NEW own, own \subseteq SlidePlaces(m), NEW frames,
         NEW d \in Decks(m), NEW e \in Decks(m), Kept(own, d, m, frames), Kept(own, e, m, frames),
         NEW joined, joined = Settled(d.items \cup e.items, d.gone \cup e.gone, m, ch)
  PROVE  Kept(own, joined, m, frames)
<1>1. joined.items = d.items \cup e.items /\ d.gone \cup e.gone \subseteq joined.gone
  BY SettledIs
<1>2. \A x \in own \cap joined.gone : x \in d.gone \cup e.gone
  <2> DEFINE items == d.items \cup e.items
             gone  == d.gone \cup e.gone
  <2>1. items \subseteq DOMAIN m /\ gone \subseteq items
    BY DEF Decks
  <2> HIDE DEF items, gone
  <2>2. \A x \in own \cap joined.gone : x \in SlidePlaces(m) /\ x \in Settled(items, gone, m, ch).gone
    BY DEF items, gone
  <2>3. \A x \in own \cap joined.gone : x \in gone
    BY <2>1, <2>2, SlidePlaceGoes
  <2> QED BY <2>3 DEF gone
<1> QED BY <1>1, <1>2 DEF Kept

\* They keep them when more is told.
LEMMA KeepsStill ==
  ASSUME NEW own, NEW d, NEW m, NEW S, NEW frames \in Seq(S), Kept(own, d, m, frames), NEW frame
  PROVE  Kept(own, d, m, Append(frames, frame))
<1>1. \A i, j : Earlier(i, j, frames) => Earlier(i, j, Append(frames, frame))
  BY EarlierStill
<1> QED BY <1>1 DEF Kept

\* And when the library grows by places of known slides and of new ones.
LEMMA OthersKeep ==
  ASSUME NEW m, NEW ch, NEW m2, NEW ch2, Grows(m, ch, m2, ch2),
         \A i \in SlidePlaces(m2) \ DOMAIN m :
           m2[i].of \notin DOMAIN m \/ \E j \in SlidePlaces(m) : m[j].of = m2[i].of,
         NEW own, own \subseteq SlidePlaces(m), NEW added, added \cap DOMAIN m = {},
         NEW d \in Decks(m), NEW frames, Kept(own, d, m, frames)
  PROVE  Kept(own \cup added, d, m2, frames)
<1>1. d.items \subseteq DOMAIN m /\ d.gone \subseteq d.items
  BY DEF Decks
<1>2. DOMAIN m \subseteq DOMAIN m2 /\ \A i \in DOMAIN m : m2[i] = m[i]
  BY DEF Grows
<1>3. \A x \in own : x \in DOMAIN m
  BY DEF SlidePlaces
<1>4. ASSUME NEW i \in SlidePlaces(m2), m2[i].of \in d.items
      PROVE  \E x \in (own \cup added) \cap d.items : m2[x].of = m2[i].of
  <2>1. \E j \in SlidePlaces(m) : m[j].of = m2[i].of
    BY <1>1, <1>2, <1>4 DEF SlidePlaces
  <2>2. \E x \in own \cap d.items : m[x].of = m2[i].of
    BY <1>4, <2>1 DEF Kept
  <2> QED BY <2>2, <1>2, <1>3
<1>5. ASSUME NEW x \in (own \cup added) \cap d.gone
      PROVE  \/ m2[x].of \in d.gone
             \/ \E y \in (own \cup added) \cap d.items : m2[y].of = m2[x].of /\ Earlier(x, y, frames)
  <2>1. x \in own /\ x \in d.gone
    BY <1>1
  <2>2. \/ m[x].of \in d.gone
        \/ \E y \in own \cap d.items : m[y].of = m[x].of /\ Earlier(x, y, frames)
    BY <2>1 DEF Kept
  <2> QED BY <2>1, <2>2, <1>2, <1>3
<1> QED BY <1>4, <1>5 DEF Kept

\* A transaction, with which of the places it makes are added: of new slides, or of
\* slides that have places; where one is deleted the slide is gone, or one is added.
Adds(c, new, gone, after, own, added) ==
  /\ added \subseteq new \cap SlidePlaces(made')
  /\ \A j \in added : made'[j].redoes \in own \cup {Nothing}
  /\ \A j \in new \cap SlidePlaces(made') :
       \/ j \in added /\ made'[j].of \in new
       \/ \E i \in SlidePlaces(made) : made[i].of = made'[j].of
  /\ \A j \in added : \/ made'[j].of \in new
                      \/ \E k \in (gone \ doc[c].gone) \cap own : made[k].of = made'[j].of
  /\ \A x \in (gone \ doc[c].gone) \cap own :
       made[x].of \in after.gone \/ \E j \in added : made'[j].of = made[x].of

LEMMA TransactionKeepsHeirs ==
  ASSUME Inv, NEW c \in Clients, NEW new, NEW gone, NEW after,
         Makes(c, new, gone, after), Transacts(c, after),
         NEW own, Heirs(own, made, doc, log), NEW added, Adds(c, new, gone, after, own, added)
  PROVE  Heirs(own \cup added, made', doc', log')
<1> DEFINE own2 == own \cup added
           d    == doc[c]
<1>1. /\ doc'[c] = after /\ \A e \in Clients \ {c} : doc'[e] = doc[e]
      /\ log' = Append(log, after) /\ log \in Seq(Decks(made)) /\ SeedItems \subseteq DOMAIN made
      /\ \A e \in Clients : doc[e] \in Decks(made)
  BY DEF Transacts, Inv, DocsInv, Items
<1>2. /\ DOMAIN made' = Items \cup new /\ new \cap Items = {} /\ \A i \in Items : made'[i] = made[i]
      /\ Grows(made, chain, made', chain')
  BY DEF Makes, Grows, Items
<1>3. /\ after.items = d.items \cup new /\ d.gone \cup gone \subseteq after.gone
      /\ d.items \subseteq Items /\ d.gone \subseteq d.items
      /\ d.items \subseteq Told(log).items
  BY <1>1, WhatItLeaves DEF Inv, AgreeInv, Agrees, Decks, Items
<1>4. /\ own \subseteq SlidePlaces(made) /\ \A x \in own : x \in Items
      /\ \A j \in own : made[j].redoes # Nothing => made[j].redoes \in own
  BY DEF Heirs, SlidePlaces, Items
<1>5. /\ added \subseteq new \cap SlidePlaces(made')
      /\ \A j \in added : made'[j].redoes \in own \cup {Nothing}
      /\ \A j \in new \cap SlidePlaces(made') :
           \/ j \in added /\ made'[j].of \in new
           \/ \E i \in SlidePlaces(made) : made[i].of = made'[j].of
      /\ \A x \in (gone \ d.gone) \cap own :
           made[x].of \in after.gone \/ \E j \in added : made'[j].of = made[x].of
  BY DEF Adds
<1>6. own2 \subseteq SlidePlaces(made')
  <2>1. SlidePlaces(made) \subseteq SlidePlaces(made')
    BY <1>2 DEF SlidePlaces, Items
  <2> QED BY <2>1, <1>4, <1>5
<1>7. \A j \in own2 : made'[j].redoes # Nothing => made'[j].redoes \in own2
  BY <1>2, <1>4, <1>5
<1>8. ASSUME NEW e \in Decks(made), Kept(own, e, made, log)
      PROVE  Kept(own2, e, made', log')
  <2>1. \A i \in SlidePlaces(made') \ DOMAIN made :
           made'[i].of \notin DOMAIN made \/ \E j \in SlidePlaces(made) : made[j].of = made'[i].of
    BY <1>2, <1>5 DEF SlidePlaces, Items
  <2>2. added \cap DOMAIN made = {}
    BY <1>2, <1>5 DEF Items
  <2>3. Kept(own2, e, made', log)
    <3> HIDE DEF Heirs
    <3> QED BY <1>2, <1>4, <1>8, <2>1, <2>2, OthersKeep
  <2> HIDE DEF own2
  <2> QED BY <1>1, <2>3, KeepsStill
<1>9. Kept(own, d, made, log)
  BY DEF Heirs
<1>10. Kept(own2, after, made', log')
  <2>1. ASSUME NEW i \in SlidePlaces(made'), made'[i].of \in after.items
        PROVE  \E x \in own2 \cap after.items : made'[x].of = made'[i].of
    <3>1. CASE i \in added
      BY <1>3, <1>5, <3>1
    <3>2. CASE i \notin added
      <4>1. PICK j \in SlidePlaces(made) : made[j].of = made'[i].of
        <5>1. CASE i \in new
          BY <1>5, <3>2, <5>1
        <5>2. CASE i \in Items
          <6>1. i \in SlidePlaces(made) /\ made[i].of = made'[i].of
            BY <1>2, <5>2 DEF SlidePlaces, Items
          <6> QED BY <6>1
        <5> QED BY <1>2, <5>1, <5>2 DEF SlidePlaces
      <4>2. made[j].of \in Items
        BY DEF Inv, LibraryInv, WellMade, SlidePlaces, Items
      <4>3. made[j].of \in d.items
        BY <1>2, <1>3, <2>1, <4>1, <4>2
      <4>4. PICK x \in own \cap d.items : made[x].of = made[j].of
        BY <1>9, <4>3 DEF Kept
      <4>5. made'[x] = made[x]
        BY <1>2, <1>4
      <4> QED BY <1>3, <4>1, <4>4, <4>5
    <3> QED BY <3>1, <3>2
  <2>2. ASSUME NEW x \in own2 \cap after.gone
        PROVE  \/ made'[x].of \in after.gone
               \/ \E y \in own2 \cap after.items : made'[y].of = made'[x].of /\ Earlier(x, y, log')
    <3>1. x \in d.gone \cup gone
      <4>1. IdsAreNumbered(made')
        BY DEF Makes, LibraryInv
      <4>2. d.items \cup new \subseteq DOMAIN made' /\ d.gone \cup gone \subseteq d.items \cup new
        BY WhatItLeaves DEF Inv
      <4>3. x \in SlidePlaces(made')
        BY <1>6
      <4>4. x \in Settled(d.items \cup new, d.gone \cup gone, made', chain').gone
        BY DEF Makes
      <4> HIDE DEF own2
      <4> QED BY <4>1, <4>2, <4>3, <4>4, SlidePlaceGoes
    <3>2. CASE x \in d.gone
      <4>1. x \in own /\ made'[x] = made[x]
        BY <1>2, <1>3, <1>5, <3>2
      <4>2. \/ made[x].of \in d.gone
            \/ \E y \in own \cap d.items : made[y].of = made[x].of /\ Earlier(x, y, log)
        BY <1>9, <3>2, <4>1 DEF Kept
      <4>3. \A y : Earlier(x, y, log) => Earlier(x, y, log')
        BY <1>1, EarlierStill
      <4>4. \A y \in own : made'[y] = made[y]
        BY <1>2, <1>4
      <4> QED BY <1>3, <4>1, <4>2, <4>3, <4>4
    <3>3. CASE x \in own /\ x \notin d.gone
      <4>1. x \in (gone \ d.gone) \cap own /\ made'[x] = made[x]
        BY <1>2, <1>4, <3>1, <3>3
      <4>2. CASE made[x].of \in after.gone
        BY <4>1, <4>2
      <4>3. CASE made[x].of \notin after.gone
        <5>1. PICK j \in added : made'[j].of = made[x].of
          BY <1>5, <4>1, <4>3
        <5>2. x \in d.items
          BY <4>1 DEF Makes
        <5>3. j \notin DOMAIN made /\ j \in after.items
          BY <1>2, <1>3, <1>5, <5>1 DEF Items
        <5>4. Earlier(x, j, log')
          <6>1. x \in Told(log).items
            BY <1>3, <5>2
          <6> QED BY <1>1, <5>3, <6>1, EarlierThanNew
        <5> QED BY <4>1, <5>1, <5>3, <5>4
      <4> QED BY <4>2, <4>3
    <3>4. CASE x \in added
      <4>1. x \notin Items /\ x \notin d.gone
        BY <1>2, <1>3, <1>5, <3>4
      <4>2. gone \subseteq d.items
        BY DEF Makes
      <4> QED BY <1>3, <3>1, <4>1, <4>2
    <3> QED BY <3>2, <3>3, <3>4
  <2> QED BY <2>1, <2>2 DEF Kept
<1>11. \A e \in Clients : Kept(own2, doc'[e], made', log')
  <2>1. \A e \in Clients : Kept(own, doc[e], made, log)
    BY DEF Heirs
  <2> HIDE DEF own2
  <2> QED BY <2>1, <1>1, <1>8, <1>10
<1>12. \A n \in DOMAIN log' : Kept(own2, log'[n], made', log')
  <2>1. \A n \in DOMAIN log : Kept(own, log[n], made, log) /\ log[n] \in Decks(made)
    BY <1>1 DEF Heirs
  <2>2. \A n \in DOMAIN log' : (n \in DOMAIN log /\ log'[n] = log[n]) \/ log'[n] = after
    BY <1>1
  <2> HIDE DEF own2
  <2> QED BY <2>1, <2>2, <1>8, <1>10
<1> QED BY <1>6, <1>7, <1>11, <1>12 DEF Heirs

\* What the changes of the histories have put in stays paired, and so does what the
\* transaction has put in.
LEMMA PairedStill ==
  ASSUME NEW m, NEW m2, DOMAIN m \subseteq DOMAIN m2, \A i \in DOMAIN m : m2[i] = m[i],
         NEW own, own \subseteq DOMAIN m, NEW added, added \cap DOMAIN m = {},
         NEW x, x.ins \subseteq DOMAIN m, Paired(own, x, m)
  PROVE  Paired(own \cup added, x, m2)
<1> SUFFICES ASSUME NEW i \in x.ins \cap (own \cup added)
             PROVE  \/ m2[i].of \in x.ins
                    \/ \E k \in (x.del \ x.ins) \cap (own \cup added) : m2[k].of = m2[i].of
  BY DEF Paired
<1>1. i \in x.ins \cap own
  OBVIOUS
<1>2. \/ m[i].of \in x.ins
      \/ \E k \in (x.del \ x.ins) \cap own : m[k].of = m[i].of
  BY <1>1 DEF Paired
<1> QED BY <1>1, <1>2

LEMMA ChangeIsPaired ==
  ASSUME Inv, NEW c \in Clients, NEW new, NEW gone, NEW after, Makes(c, new, gone, after),
         NEW own, Heirs(own, made, doc, log), NEW added, Adds(c, new, gone, after, own, added)
  PROVE  /\ Paired(own \cup added, Change(doc[c], after), made')
         /\ Change(doc[c], after).ins = new
<1> DEFINE d == doc[c]
           change == Change(d, after)
<1>1. /\ after.items = d.items \cup new /\ d.gone \cup gone \subseteq after.gone
      /\ d.items \subseteq Items
  BY WhatItLeaves DEF Inv, DocsInv, Decks, Items
<1>2. new \cap Items = {} /\ \A i \in Items : made'[i] = made[i]
  BY DEF Makes, Grows, Items
<1>3. change.ins = new /\ change.del = after.gone \ d.gone
  BY <1>1, <1>2 DEF Change
<1>4. \A x \in own : x \in Items
  BY DEF Heirs, SlidePlaces, Items
<1>5. /\ added \subseteq new
      /\ \A j \in added : \/ made'[j].of \in new
                          \/ \E k \in (gone \ d.gone) \cap own : made[k].of = made'[j].of
  BY DEF Adds
<1> HIDE DEF change
<1>6. ASSUME NEW j \in change.ins \cap (own \cup added)
      PROVE  \/ made'[j].of \in change.ins
             \/ \E k \in (change.del \ change.ins) \cap (own \cup added) : made'[k].of = made'[j].of
  <2>1. j \in added
    BY <1>2, <1>3, <1>4
  <2>2. CASE made'[j].of \in new
    BY <1>3, <2>2
  <2>3. CASE made'[j].of \notin new
    <3>1. PICK k \in (gone \ d.gone) \cap own : made[k].of = made'[j].of
      BY <1>5, <2>1, <2>3
    <3>2. k \in Items /\ k \in change.del \ change.ins /\ made'[k] = made[k]
      BY <1>1, <1>2, <1>3, <1>4, <3>1
    <3> QED BY <3>1, <3>2
  <2> QED BY <2>2, <2>3
<1>7. Paired(own \cup added, change, made')
  BY <1>6 DEF Paired
<1> QED BY <1>3, <1>7 DEF change

LEMMA MergedIsPaired ==
  ASSUME NEW own, NEW m, NEW x, Paired(own, x, m), NEW y, Paired(own, y, m), x.del \cap y.ins = {}
  PROVE  Paired(own, Merged(x, y), m)
<1> DEFINE z == Merged(x, y)
<1>1. z.ins = x.ins \cup y.ins /\ z.del = x.del \cup y.del
  BY DEF Merged
<1> HIDE DEF z
<1>2. ASSUME NEW i \in x.ins \cap own
      PROVE  m[i].of \in z.ins \/ \E k \in (z.del \ z.ins) \cap own : m[k].of = m[i].of
  <2>1. m[i].of \in x.ins \/ \E k \in (x.del \ x.ins) \cap own : m[k].of = m[i].of
    BY DEF Paired
  <2> QED BY <1>1, <2>1
<1>3. ASSUME NEW i \in y.ins \cap own
      PROVE  m[i].of \in z.ins \/ \E k \in (z.del \ z.ins) \cap own : m[k].of = m[i].of
  <2>1. m[i].of \in y.ins \/ \E k \in (y.del \ y.ins) \cap own : m[k].of = m[i].of
    BY DEF Paired
  <2>2. CASE m[i].of \in y.ins
    BY <1>1, <2>2
  <2>3. ASSUME NEW k \in (y.del \ y.ins) \cap own, m[k].of = m[i].of
        PROVE  m[i].of \in z.ins \/ \E l \in (z.del \ z.ins) \cap own : m[l].of = m[i].of
    <3>1. CASE k \in x.ins
      <4>1. m[k].of \in z.ins \/ \E l \in (z.del \ z.ins) \cap own : m[l].of = m[k].of
        BY <1>2, <2>3, <3>1
      <4> QED BY <2>3, <4>1
    <3>2. CASE k \notin x.ins
      BY <1>1, <2>3, <3>2
    <3> QED BY <3>1, <3>2
  <2> QED BY <2>1, <2>2, <2>3
<1>4. \A i \in z.ins \cap own : m[i].of \in z.ins \/ \E k \in (z.del \ z.ins) \cap own : m[k].of = m[i].of
  BY <1>1, <1>2, <1>3
<1> QED BY <1>4 DEF Paired, z

LEMMA GainsPaired ==
  ASSUME NEW own, NEW m, NEW stack, AllPaired(own, stack, m), NEW change, Paired(own, change, m),
         \A n \in DOMAIN stack : stack[n].del \cap change.ins = {},
         NEW stack2, Gains(stack2, stack, change)
  PROVE  AllPaired(own, stack2, m)
<1>1. PICK at : /\ \A n \in DOMAIN stack2 : n # at => n \in DOMAIN stack /\ stack2[n] = stack[n]
                /\ at \in DOMAIN stack2 => \/ stack2[at] = change
                                           \/ /\ at \in DOMAIN stack
                                              /\ stack2[at] = Merged(stack[at], change)
  BY DEF Gains
<1>2. \A n \in DOMAIN stack : Paired(own, stack[n], m) /\ Paired(own, Merged(stack[n], change), m)
  BY MergedIsPaired DEF AllPaired
<1> QED BY <1>1, <1>2 DEF AllPaired

\* A transaction keeps the places, with the histories as they are then.
LEMMA TransactionKeepsPlaces ==
  ASSUME Inv, NEW c \in Clients, NEW new, NEW gone, NEW after,
         Makes(c, new, gone, after), Transacts(c, after),
         NEW own, Heirs(own, made, doc, log),
         \A d \in Clients : AllPaired(own, past[d], made) /\ AllPaired(own, future[d], made),
         NEW added, Adds(c, new, gone, after, own, added),
         \A d \in Clients \ {c} : past'[d] = past[d] /\ future'[d] = future[d],
         \/ Gains(past'[c], past[c], Change(doc[c], after)) /\ Loses(future'[c], future[c])
         \/ Loses(past'[c], past[c]) /\ Gains(future'[c], future[c], Change(doc[c], after))
  PROVE  PlacesInv'
<1> DEFINE own2 == own \cup added
           change == Change(doc[c], after)
<1>1. Heirs(own2, made', doc', log')
  BY TransactionKeepsHeirs
<1>2. /\ DOMAIN made \subseteq DOMAIN made' /\ \A i \in DOMAIN made : made'[i] = made[i]
      /\ new \cap DOMAIN made = {}
  BY DEF Makes, Grows, Items
<1>3. own \subseteq SlidePlaces(made) /\ own \subseteq DOMAIN made
  <2>1. own \subseteq SlidePlaces(made)
    BY DEF Heirs
  <2> QED BY <2>1 DEF SlidePlaces
<1>4. Paired(own2, change, made') /\ change.ins = new
  BY ChangeIsPaired
<1>5. added \cap DOMAIN made = {}
  <2>1. added \subseteq new
    BY DEF Adds
  <2> QED BY <1>2, <2>1
<1>6. ASSUME NEW d \in Clients
      PROVE  /\ \A n \in DOMAIN past[d] : past[d][n].ins \subseteq DOMAIN made /\ past[d][n].del \subseteq DOMAIN made
             /\ \A n \in DOMAIN future[d] : future[d][n].ins \subseteq DOMAIN made /\ future[d][n].del \subseteq DOMAIN made
  <2>1. doc[d].items \subseteq DOMAIN made
    BY DEF Inv, DocsInv, Decks
  <2>2. past[d] \in Seq(Changes(doc[d].items)) /\ future[d] \in Seq(Changes(doc[d].items))
    BY DEF Inv, HistoryInv
  <2>3. /\ \A n \in DOMAIN past[d] : past[d][n] \in Changes(doc[d].items)
        /\ \A n \in DOMAIN future[d] : future[d][n] \in Changes(doc[d].items)
    BY <2>2
  <2> QED BY <2>1, <2>3 DEF Changes
<1> HIDE DEF own2, change
<1>7. \A x : x.ins \subseteq DOMAIN made /\ Paired(own, x, made) => Paired(own2, x, made')
  <2> SUFFICES ASSUME NEW x, x.ins \subseteq DOMAIN made, Paired(own, x, made)
               PROVE  Paired(own2, x, made')
    OBVIOUS
  <2> DEFINE m2 == made'
  <2>1. DOMAIN made \subseteq DOMAIN m2 /\ \A i \in DOMAIN made : m2[i] = made[i]
    BY <1>2
  <2> HIDE DEF m2
  <2>2. Paired(own \cup added, x, m2)
    BY <1>3, <1>5, <2>1, PairedStill
  <2> QED BY <2>2 DEF m2, own2
<1>8. \A d \in Clients : AllPaired(own2, past[d], made') /\ AllPaired(own2, future[d], made')
  BY <1>6, <1>7 DEF AllPaired
<1>9. /\ \A n \in DOMAIN past[c] : past[c][n].del \cap change.ins = {}
      /\ \A n \in DOMAIN future[c] : future[c][n].del \cap change.ins = {}
  BY <1>2, <1>4, <1>6
<1>10. \A stack, stack2 : AllPaired(own2, stack, made') /\ Loses(stack2, stack) => AllPaired(own2, stack2, made')
  BY DEF AllPaired, Loses
<1>11. AllPaired(own2, past'[c], made') /\ AllPaired(own2, future'[c], made')
  <2>1. CASE Gains(past'[c], past[c], change) /\ Loses(future'[c], future[c])
    BY <2>1, <1>4, <1>8, <1>9, <1>10, GainsPaired
  <2>2. CASE Loses(past'[c], past[c]) /\ Gains(future'[c], future[c], change)
    BY <2>2, <1>4, <1>8, <1>9, <1>10, GainsPaired
  <2> QED BY <2>1, <2>2 DEF change
<1>12. \A d \in Clients : AllPaired(own2, past'[d], made') /\ AllPaired(own2, future'[d], made')
  BY <1>8, <1>11
<1> QED BY <1>1, <1>12 DEF PlacesInv

LEMMA EditKeepsPlaces ==
  ASSUME Inv, PlacesInv, NEW c \in Clients, Edit(c)
  PROVE  PlacesInv'
<1>1. PICK new, gone, after : /\ Makes(c, new, gone, after) /\ Replaces(c, new, gone, after)
                              /\ Transacts(c, after) /\ Captured(c, Change(doc[c], after))
  BY EditMakes DEF EditIs, Inv
<1>2. PICK own : /\ Heirs(own, made, doc, log)
                 /\ \A d \in Clients : AllPaired(own, past[d], made) /\ AllPaired(own, future[d], made)
  BY DEF PlacesInv
<1> DEFINE added == {j \in new \cap SlidePlaces(made') :
                       \/ made'[j].of \in new
                       \/ \E k \in (gone \ doc[c].gone) \cap own : made[k].of = made'[j].of}
<1>3. Adds(c, new, gone, after, own, added)
  <2>1. own \subseteq SlidePlaces(made)
    BY <1>2 DEF Heirs
  <2>2. \A j \in added : made'[j].redoes = Nothing
    BY <1>1 DEF Replaces
  <2>3. ASSUME NEW j \in new \cap SlidePlaces(made')
        PROVE  \/ j \in added /\ made'[j].of \in new
               \/ \E i \in SlidePlaces(made) : made[i].of = made'[j].of
    BY <1>1 DEF Replaces
  <2>4. ASSUME NEW x \in (gone \ doc[c].gone) \cap own
        PROVE  made[x].of \in after.gone \/ \E j \in added : made'[j].of = made[x].of
    <3>1. x \in gone \cap SlidePlaces(made)
      BY <2>1
    <3>2. \/ made[x].of \in after.gone
          \/ \E j \in new \cap SlidePlaces(made') : made'[j].of = made[x].of
      BY <1>1, <3>1 DEF Replaces
    <3> QED BY <3>2
  <2>5. /\ added \subseteq new \cap SlidePlaces(made')
        /\ \A j \in added : \/ made'[j].of \in new
                            \/ \E k \in (gone \ doc[c].gone) \cap own : made[k].of = made'[j].of
    OBVIOUS
  <2> HIDE DEF added
  <2> QED BY <2>2, <2>3, <2>4, <2>5 DEF Adds
<1>4. /\ Gains(past'[c], past[c], Change(doc[c], after)) /\ Loses(future'[c], future[c])
      /\ \A d \in Clients \ {c} : past'[d] = past[d] /\ future'[d] = future[d]
  <2>1. DOMAIN past = Clients /\ DOMAIN future = Clients /\ past[c] \in Seq(Changes(doc[c].items))
    BY DEF Inv, HistoryInv
  <2> QED BY <1>1, <2>1, CapturedGains
<1> HIDE DEF added
<1> QED BY <1>1, <1>2, <1>3, <1>4, TransactionKeepsPlaces

\* Only a slide's place comes back to the order of the slides.
LEMMA ComesBackToTheOrder ==
  ASSUME LibraryInv(made, chain), NEW c \in Clients, NEW back \in SUBSET Items,
         NEW new, new = NewIds(c, back), NEW i \in back, IsPlace(i),
         NewList(c, made[i].within, new) = Slides
  PROVE  made[i].within = Slides
<1> DEFINE w    == made[i].within
           last == LastRedone(c)[w]
<1> SUFFICES ASSUME w # Slides
             PROVE  FALSE
  OBVIOUS
<1>1. i \in Items /\ WellMade(made, chain) /\ IdsAreNumbered(made)
  BY DEF LibraryInv
<1>2. w \in Items
  BY <1>1 DEF WellMade, IsPlace, Items
<1>3. last \in Items
  BY <1>2, LastRedoneIsGood
<1>4. Slides \notin Items
  BY <1>1 DEF IdsAreNumbered, Items
<1>5. DOMAIN new = back /\ \A k \in back : new[k] \in ToRange(new)
  BY <1>1, NewIdsAreFresh
<1>6. \A k \in back : new[k] # Slides
  <2>1. Slides \notin ToRange(new)
    <3>1. \A j \in ToRange(new) : j[1] = c
      BY <1>1, NewIdsAreFresh, FreshIsNew
    <3>2. Slides[1] = 0 /\ c # 0
      BY ClientsAssumption DEF Slides
    <3> QED BY <3>1, <3>2
  <2> QED BY <2>1, <1>5
<1>7. NewList(c, w, new) \in {w, last, new[last]} /\ (NewList(c, w, new) = new[last] => last \in back \/ NewList(c, w, new) \in {w, last})
  BY <1>5 DEF NewList
<1> HIDE DEF w, last
<1> QED BY <1>2, <1>3, <1>4, <1>6, <1>7 DEF w

\* What ends at one of the places has always been one, of the same slide.
LEMMA LastOfOwn ==
  ASSUME Inv, UndoInv, NEW c \in Clients, NEW own, Heirs(own, made, doc, log),
         NEW i \in Items, LastRedone(c)[i] \in own
  PROVE  i \in own /\ made[i].of = made[LastRedone(c)[i]].of
<1> DEFINE f == LastRedone(c)
           x == f[i]
           Fine(j) == j \in own /\ made[j].of = made[x].of
           T == {j \in Items : f[j] = x /\ ~Fine(j)}
<1> SUFFICES ASSUME ~Fine(i)
             PROVE  FALSE
  OBVIOUS
<1>1. \A j \in Items : f[j] = IF RedoneIn(c, j, made) = {} THEN j
                              ELSE f[CHOOSE k \in RedoneIn(c, j, made) : TRUE]
  <2>1. FollowOf(c, f, made)
    BY LastRedoneFollows DEF Inv, LibraryInv
  <2> HIDE DEF f
  <2> QED BY <2>1, FollowOfIs DEF Items
<1>2. x \in own
  OBVIOUS
<1>3. \A j \in own : made[j].redoes # Nothing => made[j].redoes \in own
  BY DEF Heirs
<1>4. Nothing \notin Items
  BY DEF Inv, LibraryInv, IdsAreNumbered, Items
<1>5. \A j \in Items : made[j].redoes # Nothing =>
        made[made[j].redoes].of = made[j].of /\ Earlier(made[j].redoes, j, log)
  BY DEF UndoInv, BroughtBack, Items
<1>6. i \in T
  OBVIOUS
<1> HIDE DEF f, x
<1>7. ASSUME NEW j \in T PROVE \E k \in T : Earlier(j, k, log)
  <2>1. j \in Items /\ f[j] = x /\ ~Fine(j)
    OBVIOUS
  <2>2. CASE RedoneIn(c, j, made) = {}
    BY <1>1, <1>2, <2>1, <2>2
  <2>3. CASE RedoneIn(c, j, made) # {}
    <3>1. PICK k \in RedoneIn(c, j, made) : f[j] = f[k]
      BY <1>1, <2>1, <2>3
    <3>2. k \in Items /\ made[k].redoes = j /\ j # Nothing
      BY <1>4, <2>1 DEF RedoneIn, Items
    <3>3. ~Fine(k)
      BY <1>3, <1>5, <2>1, <3>2
    <3>4. k \in T
      BY <2>1, <3>1, <3>2, <3>3
    <3> QED BY <1>5, <3>2, <3>4
  <2> QED BY <2>2, <2>3
<1>8. log \in Seq(Decks(made))
  BY DEF Inv, DocsInv
<1> HIDE DEF T
<1> QED BY <1>6, <1>7, <1>8, NoneIsLatest

\* Taking back a change of c that is paired takes no place away without the slide
\* or for another.
LEMMA TakingBackAdds ==
  ASSUME Inv, UndoInv, NEW c \in Clients, NEW own, Heirs(own, made, doc, log),
         NEW change \in Changes(doc[c].items), Ours(c, change, doc[c], made),
         Paired(own, change, made),
         NEW others, NEW new, NEW after, TakenBackAs(c, change, others, new, after)
  PROVE  \E added : Adds(c, ToRange(new), ToDelete(c, change), after, own, added)
<1> DEFINE back  == Returning(c, change, others)
           T     == ToRange(new)
           gone  == ToDelete(c, change)
           m2    == made'
           added == {j \in T \cap SlidePlaces(m2) :
                       /\ m2[j].redoes \in own
                       /\ \E k \in (gone \ doc[c].gone) \cap own : made[k].of = m2[j].of}
<1>1. doc[c] \in Decks(made) /\ LibraryInv(made, chain)
  BY DEF Inv, DocsInv
<1>2. back \subseteq doc[c].items /\ new = NewIds(c, back)
  BY ReturningIsKnown DEF TakenBackAs
<1>3. back \in SUBSET Items
  BY <1>1, <1>2 DEF Decks, Items
<1>4. Brings(c, back, new)
  BY TakingBackBrings
<1>5. Makes(c, T, gone, after)
  BY TakingBackMakes DEF Inv
<1>6. own \subseteq SlidePlaces(made)
  BY DEF Heirs
<1>7. doc[c].gone \cup gone \subseteq after.gone
  BY <1>5, WhatItLeaves DEF Inv
<1>8. ASSUME NEW j \in T
      PROVE  /\ Original(j, new) \in back /\ m2[j].of = made[Original(j, new)].of
             /\ m2[j].kind = made[Original(j, new)].kind /\ m2[j].redoes = Original(j, new)
             /\ IsPlace(Original(j, new)) =>
                  m2[j].within = NewList(c, made[Original(j, new)].within, new)
  BY <1>4 DEF Brings
<1>9. \A i \in back : new[i] \in T /\ Original(new[i], new) = i
  BY <1>4 DEF Brings
<1>9a. DOMAIN m2 = Items \cup T
  BY <1>4 DEF Brings
<1>b. \A i \in change.ins : i \in Items
  BY <1>1 DEF Decks, Changes, Items
<1>c. change.del \subseteq doc[c].gone /\ \A k \in change.del \ change.ins : RedoneIn(c, k, made) = {}
  BY DEF Ours
<1>d. back = Returning(c, change, others) /\ gone = ToDelete(c, change)
  OBVIOUS
<1> HIDE DEF back, T, gone, m2
<1>10. ASSUME NEW j \in T \cap SlidePlaces(m2)
       PROVE  \E i \in SlidePlaces(made) : made[i].of = m2[j].of
  <2> DEFINE i == Original(j, new)
  <2>1. i \in back /\ i \in Items /\ m2[j].of = made[i].of
    BY <1>3, <1>8
  <2>2. made[i].kind = "place" /\ IsPlace(i)
    BY <1>8 DEF SlidePlaces, IsPlace
  <2>3. NewList(c, made[i].within, new) = Slides
    BY <1>8, <2>2 DEF SlidePlaces
  <2> HIDE DEF i
  <2>4. made[i].within = Slides
    BY <1>1, <1>2, <1>3, <2>1, <2>2, <2>3, ComesBackToTheOrder
  <2> QED BY <2>1, <2>2, <2>4 DEF SlidePlaces, Items
<1>11. ASSUME NEW x \in (gone \ doc[c].gone) \cap own
       PROVE  made[x].of \in after.gone \/ \E j \in added : m2[j].of = made[x].of
  <2>1. PICK i \in change.ins : LastRedone(c)[i] = x
    BY <1>d DEF ToDelete
  <2>2. i \in own /\ made[i].of = made[x].of
    BY <1>b, <2>1, LastOfOwn
  <2>3. CASE made[i].of \in change.ins
    <3> DEFINE s == made[i].of
    <3>0. s \in change.ins /\ s \in Items
      BY <1>b, <2>3
    <3> HIDE DEF s
    <3>1. CASE RedoneIn(c, s, made) = {}
      <4>1. LastRedone(c)[s] = s
        <5>1. FollowOf(c, LastRedone(c), made)
          BY <1>1, LastRedoneFollows DEF LibraryInv
        <5> QED BY <3>0, <3>1, <5>1, FollowOfIs DEF Items
      <4>2. s \in gone \/ s \in doc[c].gone
        BY <1>d, <3>0, <4>1 DEF ToDelete
      <4> QED BY <1>7, <2>2, <4>2 DEF s
    <3>2. CASE RedoneIn(c, s, made) # {}
      <4>1. PICK j \in DOMAIN made : j[1] = c /\ made[j].redoes = s
        BY <3>2 DEF RedoneIn
      <4>2. s # Nothing
        BY <1>1, <3>0 DEF LibraryInv, IdsAreNumbered, Items
      <4>3. s \in doc[c].gone
        BY <4>1, <4>2 DEF UndoInv, BroughtBack
      <4> QED BY <1>7, <2>2, <4>3 DEF s
    <3> QED BY <3>1, <3>2
  <2>4. ASSUME NEW k \in (change.del \ change.ins) \cap own, made[k].of = made[i].of
        PROVE  \E j \in added : m2[j].of = made[x].of
    <3>1. IsPlace(k) /\ made[k].within = Slides /\ k \in Items
      BY <1>6 DEF SlidePlaces, IsPlace, Items
    <3>2. Redone(c, k) = {}
      BY <1>c DEF RedoneIn, Redone, Items
    <3>3. k \in back
      BY <1>d, <3>1, <3>2 DEF Returning, ToRedo
    <3> DEFINE j == new[k]
    <3>4. j \in T /\ Original(j, new) = k
      BY <1>9, <3>3
    <3> HIDE DEF j
    <3>5. NewList(c, made[k].within, new) = Slides
      BY <3>1 DEF NewList
    <3>6. m2[j].kind = "place" /\ m2[j].within = Slides /\ m2[j].of = made[x].of /\ m2[j].redoes = k
      BY <1>8, <2>2, <2>4, <3>1, <3>4, <3>5 DEF IsPlace
    <3>7. j \in SlidePlaces(m2)
      BY <1>9a, <3>4, <3>6 DEF SlidePlaces
    <3>8. j \in added
      BY <2>4, <3>4, <3>6, <3>7
    <3> QED BY <3>6, <3>8
  <2>5. \/ made[i].of \in change.ins
        \/ \E k \in (change.del \ change.ins) \cap own : made[k].of = made[i].of
    BY <2>1, <2>2 DEF Paired
  <2> QED BY <2>3, <2>4, <2>5
<1>12. /\ added \subseteq T \cap SlidePlaces(m2)
       /\ \A j \in added : /\ m2[j].redoes \in own
                           /\ \E k \in (gone \ doc[c].gone) \cap own : made[k].of = m2[j].of
  OBVIOUS
<1> HIDE DEF added
<1>13. Adds(c, T, gone, after, own, added)
  BY <1>10, <1>11, <1>12 DEF Adds, m2
<1> QED BY <1>13 DEF T, gone

\* An undo and a redo, c's change taken back from the top of a stack and put on the
\* other one.
LEMMA TakingBackKeepsPlaces ==
  ASSUME Inv, UndoInv, NEW c \in Clients, NEW own, Heirs(own, made, doc, log),
         \A d \in Clients : AllPaired(own, past[d], made) /\ AllPaired(own, future[d], made),
         NEW change \in Changes(doc[c].items), Ours(c, change, doc[c], made),
         Paired(own, change, made),
         NEW others, NEW new, NEW after, TakenBackAs(c, change, others, new, after),
         \A d \in Clients \ {c} : past'[d] = past[d] /\ future'[d] = future[d],
         \/ Gains(past'[c], past[c], Change(doc[c], after)) /\ Loses(future'[c], future[c])
         \/ Loses(past'[c], past[c]) /\ Gains(future'[c], future[c], Change(doc[c], after))
  PROVE  PlacesInv'
<1>1. Makes(c, ToRange(new), ToDelete(c, change), after)
  BY TakingBackMakes DEF Inv
<1>2. Transacts(c, after)
  BY DEF TakenBackAs
<1>3. PICK added : Adds(c, ToRange(new), ToDelete(c, change), after, own, added)
  BY TakingBackAdds
<1> HIDE DEF UndoInv
<1> QED BY <1>1, <1>2, <1>3, TransactionKeepsPlaces

\* Changes that are dropped, with nothing else.
LEMMA DroppingKeepsPlaces ==
  ASSUME PlacesInv, UNCHANGED <<library, doc, network>>,
         \A d \in Clients : Loses(past'[d], past[d]) /\ Loses(future'[d], future[d])
  PROVE  PlacesInv'
<1>1. made' = made /\ doc' = doc /\ log' = log
  BY DEF library, network
<1>2. PICK own : /\ Heirs(own, made, doc, log)
                 /\ \A d \in Clients : AllPaired(own, past[d], made) /\ AllPaired(own, future[d], made)
  BY DEF PlacesInv
<1>3. \A d \in Clients : AllPaired(own, past'[d], made) /\ AllPaired(own, future'[d], made)
  BY <1>2 DEF AllPaired, Loses
<1>4. /\ Heirs(own, made', doc', log')
      /\ \A d \in Clients : AllPaired(own, past'[d], made') /\ AllPaired(own, future'[d], made')
  BY <1>1, <1>2, <1>3
<1> QED BY <1>4 DEF PlacesInv

LEMMA UndoKeepsPlaces ==
  ASSUME Inv, UndoInv, PlacesInv, NEW c \in Clients, Undo(c)
  PROVE  PlacesInv'
<1>0. /\ past[c] \in Seq(Changes(doc[c].items)) /\ future[c] \in Seq(Changes(doc[c].items))
      /\ DOMAIN past = Clients /\ DOMAIN future = Clients
  BY DEF Inv, HistoryInv
<1>1. CASE /\ UNCHANGED <<library, doc, network, future>>
           /\ past' = [past EXCEPT ![c] = <<>>]
  <2>1. \A d \in Clients : Loses(past'[d], past[d]) /\ Loses(future'[d], future[d])
    BY <1>0, <1>1 DEF Loses
  <2> QED BY <1>1, <2>1, DroppingKeepsPlaces
<1>2. CASE UndoTakes(c)
  <2>1. PICK top, others, new, after :
          /\ top \in DOMAIN past[c]
          /\ TakenBackAs(c, past[c][top], others, new, after)
          /\ past' = [past EXCEPT ![c] = SubSeq(@, 1, top - 1)]
          /\ future' = [future EXCEPT ![c] =
                          IF after = doc[c] THEN @ ELSE Append(@, Change(doc[c], after))]
    BY <1>2 DEF UndoTakes
  <2>2. past'[c] = SubSeq(past[c], 1, top - 1) /\ \A d \in Clients \ {c} : past'[d] = past[d]
    BY <1>0, <2>1
  <2> DEFINE added == after # doc[c]
             change == Change(doc[c], after)
  <2>3. future'[c] = (IF added THEN Append(future[c], change) ELSE future[c])
        /\ \A d \in Clients \ {c} : future'[d] = future[d]
    BY <1>0, <2>1
  <2>4. Loses(past'[c], past[c]) /\ past[c][top] \in Changes(doc[c].items)
    BY <1>0, <2>1, <2>2, Shortened, ShortenedLoses
  <2>5. Gains(future'[c], future[c], change)
    <3>1. added \in BOOLEAN
      OBVIOUS
    <3> HIDE DEF added, change
    <3> QED BY <1>0, <2>3, <3>1, AppendedGains
  <2>6. PICK own : /\ Heirs(own, made, doc, log)
                   /\ \A d \in Clients : AllPaired(own, past[d], made) /\ AllPaired(own, future[d], made)
    BY DEF PlacesInv
  <2>7. Paired(own, past[c][top], made) /\ Ours(c, past[c][top], doc[c], made)
    BY <2>1, <2>6 DEF AllPaired, UndoInv, InOrder
  <2>8. \A d \in Clients \ {c} : past'[d] = past[d] /\ future'[d] = future[d]
    BY <2>2, <2>3
  <2> HIDE DEF added
  <2> QED BY <2>1, <2>4, <2>5, <2>6, <2>7, <2>8, TakingBackKeepsPlaces
<1> QED BY <1>1, <1>2, UndoIs DEF Inv

LEMMA RedoKeepsPlaces ==
  ASSUME Inv, UndoInv, PlacesInv, NEW c \in Clients, Redo(c)
  PROVE  PlacesInv'
<1>0. /\ past[c] \in Seq(Changes(doc[c].items)) /\ future[c] \in Seq(Changes(doc[c].items))
      /\ DOMAIN past = Clients /\ DOMAIN future = Clients
  BY DEF Inv, HistoryInv
<1>1. CASE /\ UNCHANGED <<library, doc, network, past>>
           /\ future' = [future EXCEPT ![c] = <<>>]
  <2>1. \A d \in Clients : Loses(past'[d], past[d]) /\ Loses(future'[d], future[d])
    BY <1>0, <1>1 DEF Loses
  <2> QED BY <1>1, <2>1, DroppingKeepsPlaces
<1>2. CASE RedoTakes(c)
  <2>1. PICK top, others, new, after :
          /\ top \in DOMAIN future[c]
          /\ TakenBackAs(c, future[c][top], others, new, after)
          /\ future' = [future EXCEPT ![c] = SubSeq(@, 1, top - 1)]
          /\ past' = [past EXCEPT ![c] =
                          IF after = doc[c] THEN @ ELSE Append(@, Change(doc[c], after))]
    BY <1>2 DEF RedoTakes
  <2>2. future'[c] = SubSeq(future[c], 1, top - 1) /\ \A d \in Clients \ {c} : future'[d] = future[d]
    BY <1>0, <2>1
  <2> DEFINE added == after # doc[c]
             change == Change(doc[c], after)
  <2>3. past'[c] = (IF added THEN Append(past[c], change) ELSE past[c])
        /\ \A d \in Clients \ {c} : past'[d] = past[d]
    BY <1>0, <2>1
  <2>4. Loses(future'[c], future[c]) /\ future[c][top] \in Changes(doc[c].items)
    BY <1>0, <2>1, <2>2, Shortened, ShortenedLoses
  <2>5. Gains(past'[c], past[c], change)
    <3>1. added \in BOOLEAN
      OBVIOUS
    <3> HIDE DEF added, change
    <3> QED BY <1>0, <2>3, <3>1, AppendedGains
  <2>6. PICK own : /\ Heirs(own, made, doc, log)
                   /\ \A d \in Clients : AllPaired(own, past[d], made) /\ AllPaired(own, future[d], made)
    BY DEF PlacesInv
  <2>7. Paired(own, future[c][top], made) /\ Ours(c, future[c][top], doc[c], made)
    BY <2>1, <2>6 DEF AllPaired, UndoInv, InOrder
  <2>8. \A d \in Clients \ {c} : past'[d] = past[d] /\ future'[d] = future[d]
    BY <2>2, <2>3
  <2> HIDE DEF added
  <2> QED BY <2>1, <2>4, <2>5, <2>6, <2>7, <2>8, TakingBackKeepsPlaces
<1> QED BY <1>1, <1>2, RedoIs DEF Inv

LEMMA NetworkKeepsPlaces ==
  ASSUME Inv, PlacesInv, NetworkSays
  PROVE  PlacesInv'
<1>1. made' = made /\ past' = past /\ future' = future
  BY DEF NetworkSays
<1>2. PICK own : /\ Heirs(own, made, doc, log)
                 /\ \A d \in Clients : AllPaired(own, past[d], made) /\ AllPaired(own, future[d], made)
  BY DEF PlacesInv
<1>3. /\ own \subseteq SlidePlaces(made)
      /\ \A j \in own : made[j].redoes # Nothing => made[j].redoes \in own
      /\ \A c \in Clients : Kept(own, doc[c], made, log)
      /\ \A n \in DOMAIN log : Kept(own, log[n], made, log)
  BY <1>2 DEF Heirs
<1>4. /\ log \in Seq(Decks(made)) /\ IdsAreNumbered(made)
      /\ \A c \in Clients : doc[c] \in Decks(made)
  BY DEF Inv, DocsInv, LibraryInv
<1>5. \A d : Kept(own, d, made, log) => Kept(own, d, made, log')
  <2>1. \A d, frame : Kept(own, d, made, log) => Kept(own, d, made, Append(log, frame))
    BY <1>4, KeepsStill
  <2> QED BY <2>1 DEF NetworkSays
<1>6. ASSUME NEW c \in Clients PROVE Kept(own, doc'[c], made, log)
  <2>1. CASE doc'[c] = doc[c]
    BY <1>3, <2>1
  <2>2. ASSUME NEW n \in DOMAIN log, doc'[c] = Joined(doc[c], log[n])
        PROVE  Kept(own, doc'[c], made, log)
    <3>1. log[n] \in Decks(made) /\ doc[c] \in Decks(made)
      BY <1>4
    <3>2. doc'[c] = Settled(doc[c].items \cup log[n].items, doc[c].gone \cup log[n].gone, made, chain)
      BY <2>2 DEF Joined
    <3>3. Kept(own, doc[c], made, log) /\ Kept(own, log[n], made, log)
      BY <1>3
    <3> QED BY <1>3, <1>4, <3>1, <3>2, <3>3, JoinedKeeps
  <2> QED BY <2>1, <2>2 DEF NetworkSays
<1>7. \A n \in DOMAIN log' : Kept(own, log'[n], made, log)
  <2>1. \A n \in DOMAIN log' : \/ n \in DOMAIN log /\ log'[n] = log[n]
                               \/ \E d \in Clients : log'[n] = doc[d]
    BY <1>4 DEF NetworkSays
  <2> QED BY <1>3, <2>1
<1>8. Heirs(own, made, doc', log')
  BY <1>3, <1>5, <1>6, <1>7 DEF Heirs
<1>9. /\ Heirs(own, made', doc', log')
      /\ \A d \in Clients : AllPaired(own, past'[d], made') /\ AllPaired(own, future'[d], made')
  BY <1>1, <1>2, <1>8
<1> QED BY <1>9 DEF PlacesInv

LEMMA NextKeepsPlaces ==
  ASSUME Inv, UndoInv, PlacesInv, [Next]_vars
  PROVE  PlacesInv'
<1>1. CASE UNCHANGED vars
  <2>1. NetworkSays
    BY <1>1 DEF vars, library, sessions, network, NetworkSays
  <2> QED BY <2>1, NetworkKeepsPlaces
<1>2. CASE Next
  <2>1. PICK c \in Clients : Edit(c) \/ Undo(c) \/ Redo(c) \/ Connect(c) \/ Answer(c) \/ Receive(c)
    BY <1>2 DEF Next
  <2> QED BY <2>1, EditKeepsPlaces, UndoKeepsPlaces, RedoKeepsPlaces, NetworkIs, NetworkKeepsPlaces
<1> QED BY <1>1, <1>2

\* In the beginning they are the places of the file.
LEMMA InitPlaces == ASSUME Init PROVE PlacesInv
<1> DEFINE own == SlidePlaces(made)
<1>1. \A i \in DOMAIN made : made[i].redoes = Nothing
  BY SeedLibrary
<1>2. past = [c \in Clients |-> <<>>] /\ future = [c \in Clients |-> <<>>] /\ log = <<>>
      /\ doc = [c \in Clients |-> Document(Items, {})]
  BY DEF Init
<1>3. own \subseteq Items
  BY DEF SlidePlaces, Items
<1> HIDE DEF own
<1>4. \A c \in Clients : doc[c].items = Items /\ doc[c].gone = {}
  BY <1>2 DEF Document
<1>5. \A c \in Clients : Kept(own, doc[c], made, log)
  BY <1>3, <1>4 DEF Kept, own
<1>6. Heirs(own, made, doc, log)
  BY <1>1, <1>2, <1>3, <1>5 DEF Heirs, own, Items
<1>7. \A c \in Clients : AllPaired(own, past[c], made) /\ AllPaired(own, future[c], made)
  BY <1>2 DEF AllPaired
<1> QED BY <1>6, <1>7 DEF PlacesInv

\* A slide whose content was never deleted has a place (move_slide, undo, redo and
\* the merge of updates).
THEOREM SlidesKeepTheirPlace == Spec => []NoSlideVanishes
<1>1. Init => Inv /\ UndoInv /\ PlacesInv
  BY InitInv, InitUndo, InitPlaces
<1>2. Inv /\ UndoInv /\ PlacesInv /\ [Next]_vars => (Inv /\ UndoInv /\ PlacesInv)'
  BY NextKeepsInv, NextKeepsUndo, NextKeepsPlaces
<1>3. Inv /\ PlacesInv => NoSlideVanishes
  <2> SUFFICES ASSUME Inv, PlacesInv, NEW c \in Clients, NEW s \in SlideIds, s \in Live(doc[c])
               PROVE  PlacesOf(doc[c], Slides, s) # {}
    BY DEF NoSlideVanishes
  <2>1. PICK own : Heirs(own, made, doc, log)
    BY DEF PlacesInv
  <2>2. log \in Seq(Decks(made)) /\ own \subseteq SlidePlaces(made) /\ Kept(own, doc[c], made, log)
    BY <2>1 DEF Heirs, Inv, DocsInv
  <2> QED BY <2>2, LiveSlideHasPlace
<1> QED BY <1>1, <1>2, <1>3, PTL DEF Spec
=============================================================================
