------------------------- MODULE Collaboration_proofs -------------------------
(* Proofs about Collaboration: whoever opened when another was there has,     *)
(* once nothing is on its way, all of the other's items, and what a replica   *)
(* holds back it could not take.                                              *)
(*                                                                            *)
(* The invariant: the items there are form a Library (numbered for each       *)
(* client without a hole, and made in some order, each after the one it was   *)
(* typed over); every client has what it made itself; what is held back is    *)
(* blocked; no question on its way asks for less than its author lacks; and   *)
(* who opened when another was there still has its question on its way, or    *)
(* what arrives from the other, frame after frame, goes on without a gap to   *)
(* the last item that one made (Promise).  The two clients of                 *)
(* ClientsAssumption are used twice: for two, one that lacks items of the     *)
(* other lacks nothing else, and one that leaves leaves nobody waiting.       *)
EXTENDS Collaboration, FiniteSetTheorems, SequenceTheorems, WellFoundedInduction, TLAPS

Numbered == Clients \X (Nat \ {0})

----------------------------------------------------------------------------
(* Numbers.                                                                 *)

NatIsLess == {ss \in Nat \X Nat : ss[1] < ss[2]}
LEMMA NatIsLessWellFounded == IsWellFoundedOn(NatIsLess, Nat)
<1>1. NatIsLess = OpToRel(<, Nat)
  BY DEF NatIsLess, OpToRel
<1> QED BY <1>1, NatLessThanWellFounded

\* A set of natural numbers has a least one.
LEMMA Least ==
  ASSUME NEW T \in SUBSET Nat, T # {}
  PROVE  \E x \in T : \A y \in T : x <= y
<1>1. PICK x \in T : \A y \in T : ~(<<y, x>> \in NatIsLess)
  BY NatIsLessWellFounded, WFMin
<1>2. ASSUME NEW y \in T PROVE x <= y
  <2>1. x \in Nat /\ y \in Nat
    OBVIOUS
  <2>2. ~(y < x)
    BY <2>1, <1>1 DEF NatIsLess
  <2> QED BY <2>1, <2>2
<1> QED BY <1>2

\* And a greatest one, when it has a bound.
LEMMA Greatest ==
  ASSUME NEW n \in Nat, NEW T \in SUBSET (0..n), T # {}
  PROVE  \E x \in T : \A y \in T : y <= x
<1> DEFINE U == {n - x : x \in T}
<1>1. \A x \in T : x \in Nat /\ n - x \in Nat
  OBVIOUS
<1>2. U \in SUBSET Nat /\ U # {}
  BY <1>1
<1> HIDE DEF U
<1>3. PICK u \in U : \A y \in U : u <= y
  BY <1>2, Least
<1>5. PICK x \in T : u = n - x
  BY DEF U
<1>6. ASSUME NEW y \in T PROVE y <= x
  <2>1. n - x <= n - y
    BY <1>3, <1>5 DEF U
  <2> QED BY <2>1, <1>1
<1> QED BY <1>6

----------------------------------------------------------------------------
(* How far a set of items reaches without a hole.                           *)

Clocks(items, c) == {i[2] : i \in {j \in items : j[1] = c}}
Reached(T) == {n \in T : 1..n \subseteq T}
Upto(items, c) == IF Clocks(items, c) = {} THEN -1 ELSE Cardinality(Reached(Clocks(items, c)))
Has(items, c, a) == \A m \in 1..a : <<c, m>> \in items
FiniteItems(items) == items \subseteq Numbered /\ IsFiniteSet(items)

LEMMA ReachedIs ==
  ASSUME NEW T \in SUBSET (Nat \ {0}), IsFiniteSet(T)
  PROVE  /\ Cardinality(Reached(T)) \in 0..Cardinality(T)
         /\ Reached(T) = 1..Cardinality(Reached(T))
<1>1. Cardinality(T) \in Nat
  BY FS_CardinalityType
<1>2. ASSUME NEW n \in Reached(T) PROVE n \in 0..Cardinality(T)
  <2>1. n \in Nat /\ 1..n \in SUBSET T
    BY DEF Reached
  <2>2. Cardinality(1..n) <= Cardinality(T)
    BY <2>1, FS_Subset
  <2>3. Cardinality(1..n) = n
    BY <2>1, FS_Interval
  <2>4. n <= Cardinality(T)
    BY <2>2, <2>3
  <2> QED BY <2>1, <2>4, <1>1
<1>3. IsFiniteSet(Reached(T)) /\ Cardinality(Reached(T)) <= Cardinality(T)
      /\ Cardinality(Reached(T)) \in Nat
  <2>1. Reached(T) \in SUBSET T
    BY DEF Reached
  <2> QED BY <2>1, FS_Subset, FS_CardinalityType
<1>4. CASE Reached(T) = {}
  <2>1. Cardinality(Reached(T)) = 0
    BY <1>4, FS_EmptySet
  <2> QED BY <2>1, <1>1, <1>4
<1>5. CASE Reached(T) # {}
  <2>1. Reached(T) \in SUBSET (0..Cardinality(T))
    BY <1>2
  <2>2. PICK x \in Reached(T) : \A y \in Reached(T) : y <= x
    BY <2>1, <1>1, <1>5, Greatest
  <2>3. x \in Nat /\ 1..x \subseteq T
    BY DEF Reached
  <2>4. Reached(T) \subseteq 1..x
    <3> SUFFICES ASSUME NEW y \in Reached(T) PROVE y \in 1..x
      OBVIOUS
    <3>1. y \in Nat \ {0} /\ y <= x
      BY <2>2 DEF Reached
    <3> QED BY <3>1, <2>3
  <2>5. 1..x \subseteq Reached(T)
    <3> SUFFICES ASSUME NEW y \in 1..x PROVE y \in Reached(T)
      OBVIOUS
    <3>1. y \in T /\ 1..y \subseteq 1..x
      BY <2>3
    <3> QED BY <3>1, <2>3 DEF Reached
  <2>6. Reached(T) = 1..x
    BY <2>4, <2>5
  <2>7. Cardinality(1..x) = x
    BY <2>3, FS_Interval
  <2> QED BY <2>6, <2>7, <1>3, <1>1
<1> QED BY <1>4, <1>5

LEMMA ClocksAre ==
  ASSUME NEW items, FiniteItems(items), NEW c \in Clients
  PROVE  /\ Clocks(items, c) \in SUBSET (Nat \ {0})
         /\ IsFiniteSet(Clocks(items, c))
         /\ Cardinality(Clocks(items, c)) <= Cardinality(items)
         /\ \A n : n \in Clocks(items, c) <=> <<c, n>> \in items
<1> DEFINE S == {j \in items : j[1] = c}
           f == [j \in S |-> j[2]]
<1>1. \A i \in items : i \in Numbered
  BY DEF FiniteItems
<1>2. IsFiniteSet(S) /\ Cardinality(S) <= Cardinality(items)
  <2>1. S \in SUBSET items /\ IsFiniteSet(items)
    BY DEF FiniteItems
  <2> QED BY <2>1, FS_Subset
<1>3. f \in Surjection(S, Clocks(items, c))
  BY DEF Surjection, Clocks
<1>4. IsFiniteSet(Clocks(items, c)) /\ Cardinality(Clocks(items, c)) <= Cardinality(S)
  BY <1>2, <1>3, FS_Surjection
<1>5. Cardinality(Clocks(items, c)) \in Nat /\ Cardinality(S) \in Nat /\ Cardinality(items) \in Nat
  BY <1>4, <1>2, FS_CardinalityType DEF FiniteItems
<1>6. Clocks(items, c) \in SUBSET (Nat \ {0})
  BY <1>1 DEF Clocks, Numbered
<1>7. \A n : n \in Clocks(items, c) <=> <<c, n>> \in items
  BY <1>1 DEF Clocks, Numbered
<1> HIDE DEF S
<1> QED BY <1>2, <1>4, <1>5, <1>6, <1>7

LEMMA UptoIs ==
  ASSUME NEW items, FiniteItems(items), NEW c \in Clients
  PROVE  /\ Upto(items, c) \in -1..Cardinality(items)
         /\ \A a \in Nat : Has(items, c, a) <=> (a = 0 \/ a <= Upto(items, c))
         /\ Upto(items, c) = -1 <=> Clocks(items, c) = {}
<1> DEFINE T == Clocks(items, c)
           x == Cardinality(Reached(T))
<1>1. /\ T \in SUBSET (Nat \ {0}) /\ IsFiniteSet(T) /\ Cardinality(T) <= Cardinality(items)
      /\ \A n : n \in T <=> <<c, n>> \in items
  BY ClocksAre
<1>2. x \in 0..Cardinality(T) /\ Reached(T) = 1..x
  BY <1>1, ReachedIs
<1>3. Cardinality(T) \in Nat /\ Cardinality(items) \in Nat
  BY <1>1, FS_CardinalityType DEF FiniteItems
<1>4. ASSUME NEW a \in Nat PROVE Has(items, c, a) <=> 1..a \subseteq T
  BY <1>1 DEF Has
<1>5. ASSUME NEW a \in Nat, a # 0 PROVE 1..a \subseteq T <=> a \in Reached(T)
  BY <1>5 DEF Reached
<1>6. Upto(items, c) = IF T = {} THEN -1 ELSE x
  BY DEF Upto
<1> HIDE DEF T, x
<1>7. Upto(items, c) \in -1..Cardinality(items)
  BY <1>1, <1>2, <1>3, <1>6
<1>8. ASSUME NEW a \in Nat PROVE Has(items, c, a) <=> (a = 0 \/ a <= Upto(items, c))
  <2>1. CASE a = 0
    BY <2>1 DEF Has
  <2>2. CASE a # 0
    <3>1. Has(items, c, a) <=> a \in 1..x
      BY <2>2, <1>4, <1>5, <1>2
    <3>2. CASE T = {}
      <4>1. ~(1..a \subseteq T)
        <5>1. a \in 1..a
          BY <2>2
        <5> QED BY <5>1, <3>2
      <4> QED BY <4>1, <1>4, <1>6, <3>2, <2>2
    <3>3. CASE T # {}
      BY <3>1, <3>3, <1>6, <1>2, <1>3, <2>2
    <3> QED BY <3>2, <3>3
  <2> QED BY <2>1, <2>2
<1>9. Upto(items, c) = -1 <=> T = {}
  BY <1>6, <1>2, <1>3
<1> QED BY <1>7, <1>8, <1>9 DEF T

\* More items reach at least as far.
LEMMA UptoGrows ==
  ASSUME NEW items, NEW more, FiniteItems(items), FiniteItems(more), items \subseteq more,
         NEW c \in Clients
  PROVE  Upto(items, c) <= Upto(more, c)
<1> DEFINE a == Upto(items, c)
           b == Upto(more, c)
<1> SUFFICES a <= b
  OBVIOUS
<1>1. a \in -1..Cardinality(items) /\ b \in -1..Cardinality(more)
  BY UptoIs
<1>2. Cardinality(items) \in Nat /\ Cardinality(more) \in Nat
  BY FS_CardinalityType DEF FiniteItems
<1>3. a \in Int /\ b \in Int /\ a >= -1 /\ b >= -1
  BY <1>1, <1>2
<1>4. CASE a >= 1
  <2>1. a \in Nat
    BY <1>3, <1>4
  <2>2. Has(items, c, a) <=> (a = 0 \/ a <= Upto(items, c))
    BY <2>1, UptoIs
  <2>3. Has(more, c, a)
    BY <2>1, <2>2, <1>3 DEF Has
  <2>4. Has(more, c, a) <=> (a = 0 \/ a <= Upto(more, c))
    BY <2>1, UptoIs
  <2>5. a = 0 \/ a <= b
    BY <2>3, <2>4
  <2> HIDE DEF a, b
  <2> QED BY <2>5, <1>4, <1>3
<1>5. CASE a = 0
  <2>1. Clocks(items, c) # {}
    BY <1>5, UptoIs
  <2>2. Clocks(more, c) # {}
    <3>1. Clocks(items, c) \subseteq Clocks(more, c)
      BY DEF Clocks
    <3> QED BY <3>1, <2>1
  <2>3. b # -1
    BY <2>2, UptoIs
  <2> HIDE DEF a, b
  <2> QED BY <2>3, <1>3, <1>5
<1>6. CASE a = -1
  <2> HIDE DEF a, b
  <2> QED BY <1>6, <1>3
<1> HIDE DEF a, b
<1>7. a = -1 \/ a = 0 \/ a >= 1
  BY <1>3
<1> QED BY <1>4, <1>5, <1>6, <1>7

----------------------------------------------------------------------------
(* The library: what was made, and what an update brings.                   *)

MadeBy(c, m) == {i \in DOMAIN m : i[1] = c}
Count(c, m) == Cardinality(MadeBy(c, m))

\* What was typed over is there, and came before.
Founded(m) ==
  /\ DOMAIN m \subseteq Numbered
  /\ \A i \in DOMAIN m :
       /\ m[i].over \in DOMAIN m \cup {Nothing}
       /\ m[i].over[1] = i[1] => m[i].over[2] < i[2]

\* Integrated, of the items m, as an operator.
Needs(m, items, i) == {j \in items : j[1] = i[1] /\ j[2] < i[2]} \cup ({m[i].over} \ {Nothing})
Ready(m, known, items, new) == {i \in items \ known : Needs(m, items, i) \subseteq known \cup new}
News(m, known, items) == {new \in SUBSET (items \ known) : new = Ready(m, known, items, new)}
Taken(m, known, items) == known \cup One(News(m, known, items))

LEMMA IntegratedIsTaken ==
  ASSUME NEW known \in SUBSET Items, NEW items \in SUBSET Items
  PROVE  Integrated[known][items] = Taken(made, known, items)
<1>1. Integrated[known] = [u \in SUBSET Items |-> Taken(made, known, u)]
  BY DEF Integrated, Taken, News, Ready, Needs
<1> QED BY <1>1

\* There is a set of items that waits for nothing but itself.
LEMMA SomeNews ==
  ASSUME NEW m, NEW known, NEW items
  PROVE  News(m, known, items) # {}
<1> DEFINE F(new) == Ready(m, known, items, new)
           P == {s \in SUBSET (items \ known) : s \subseteq F(s)}
           g == UNION P
<1>1. g \in SUBSET (items \ known)
  OBVIOUS
<1>2. \A s, t : s \subseteq t => F(s) \subseteq F(t)
  BY DEF Ready
<1>3. g \subseteq F(g)
  <2> SUFFICES ASSUME NEW i \in g PROVE i \in F(g)
    OBVIOUS
  <2>1. PICK s \in P : i \in s
    OBVIOUS
  <2>2. s \subseteq g
    OBVIOUS
  <2>3. i \in F(s) /\ F(s) \subseteq F(g)
    BY <2>1, <2>2, <1>2
  <2> HIDE DEF F, g, P
  <2> QED BY <2>3
<1>4. F(g) \subseteq g
  <2>1. F(g) \in SUBSET (items \ known)
    BY DEF Ready
  <2>2. F(g) \subseteq F(F(g))
    BY <1>2, <1>3
  <2> HIDE DEF F
  <2> QED BY <2>1, <2>2
<1>5. g = F(g)
  BY <1>3, <1>4
<1>6. g \in News(m, known, items)
  BY <1>1, <1>5 DEF News
<1> QED BY <1>6

LEMMA TakenIs ==
  ASSUME NEW m, NEW known, NEW items
  PROVE  /\ known \subseteq Taken(m, known, items)
         /\ Taken(m, known, items) \subseteq known \cup items
         /\ \A i \in items : Needs(m, items, i) \subseteq Taken(m, known, items)
                               => i \in Taken(m, known, items)
<1> DEFINE N == News(m, known, items)
           new == One(N)
<1>1. new \in N
  BY SomeNews DEF One
<1>2. new \in SUBSET (items \ known) /\ new = Ready(m, known, items, new)
  BY <1>1 DEF News
<1>3. Taken(m, known, items) = known \cup new
  BY DEF Taken
<1> HIDE DEF N, new
<1>4. ASSUME NEW i \in items, Needs(m, items, i) \subseteq known \cup new
      PROVE  i \in known \cup new
  <2>1. CASE i \in known
    BY <2>1
  <2>2. CASE i \notin known
    <3>1. i \in Ready(m, known, items, new)
      BY <2>2, <1>4 DEF Ready
    <3> QED BY <3>1, <1>2
  <2> QED BY <2>1, <2>2
<1> QED BY <1>2, <1>3, <1>4

\* Of another client's items nobody's are missing, so that its next ones are taken.
LEMMA TakesTheNext ==
  ASSUME NEW m, Founded(m), NEW known \in SUBSET DOMAIN m, NEW items \in SUBSET DOMAIN m,
         NEW d \in Clients, {i \in DOMAIN m : i[1] # d} \subseteq known,
         NEW a \in Nat, NEW b \in Nat, Has(known, d, a),
         \A n \in (a + 1)..b : <<d, n>> \in items
  PROVE  Has(Taken(m, known, items), d, b)
<1> DEFINE T == Taken(m, known, items)
           Bad == {n \in Nat : n \in 1..b /\ <<d, n>> \notin T}
<1>0. /\ known \subseteq T
      /\ \A i \in items : Needs(m, items, i) \subseteq T => i \in T
  BY TakenIs
<1> HIDE DEF T
<1> SUFFICES ASSUME Bad # {} PROVE FALSE
  BY DEF Has, T
<1>1. PICK n \in Bad : \A o \in Bad : n <= o
  <2>1. Bad \in SUBSET Nat
    OBVIOUS
  <2> HIDE DEF Bad
  <2> QED BY <2>1, Least
<1> DEFINE i == <<d, n>>
<1>2. n \in Nat \ {0} /\ n <= b /\ i \notin T
  OBVIOUS
<1>3. n \notin 1..a
  BY <1>0, <1>2 DEF Has
<1>4. n \in (a + 1)..b
  BY <1>2, <1>3
<1>5. i \in items
  BY <1>4
<1>6. \A o \in Nat \ {0} : o < n => <<d, o>> \in T
  <2> SUFFICES ASSUME NEW o \in Nat \ {0}, o < n, <<d, o>> \notin T PROVE FALSE
    OBVIOUS
  <2>1. o \in Bad
    BY <1>2
  <2>2. n <= o
    BY <2>1, <1>1
  <2> QED BY <2>2, <1>2
<1>7. ASSUME NEW j \in DOMAIN m, j[1] = d => j[2] < n
      PROVE  j \in T
  <2>1. CASE j[1] # d
    BY <2>1, <1>0
  <2>2. CASE j[1] = d
    <3>1. j \in Numbered
      BY DEF Founded
    <3>2. j = <<d, j[2]>> /\ j[2] \in Nat \ {0}
      BY <3>1, <2>2 DEF Numbered
    <3> QED BY <3>2, <1>6, <1>7, <2>2
  <2> QED BY <2>1, <2>2
<1>8. Needs(m, items, i) \subseteq T
  <2> SUFFICES ASSUME NEW j \in Needs(m, items, i) PROVE j \in T
    OBVIOUS
  <2>1. CASE j \in items /\ j[2] < n
    BY <2>1, <1>7
  <2>2. CASE j \in {m[i].over} \ {Nothing}
    <3>1. j \in DOMAIN m /\ (j[1] = d => j[2] < n)
      BY <2>2, <1>5 DEF Founded
    <3> QED BY <3>1, <1>7
  <2> QED BY <2>1, <2>2 DEF Needs
<1> QED BY <1>8, <1>5, <1>0, <1>2

\* Items that are new to the library change nothing for older updates.
GoesBeyond(m, m2, extra) ==
  /\ DOMAIN m \subseteq DOMAIN m2 /\ \A i \in DOMAIN m : m2[i] = m[i]
  /\ \A i \in DOMAIN m : m[i].over \in DOMAIN m \cup {Nothing}
  /\ extra \cap DOMAIN m = {}
LEMMA TakenStays ==
  ASSUME NEW m, NEW m2, NEW extra, GoesBeyond(m, m2, extra),
         NEW known \in SUBSET DOMAIN m, NEW items \in SUBSET DOMAIN m
  PROVE  Taken(m2, known \cup extra, items) = Taken(m, known, items) \cup extra
<1>0. /\ DOMAIN m \subseteq DOMAIN m2 /\ \A i \in DOMAIN m : m2[i] = m[i]
      /\ \A i \in DOMAIN m : m[i].over \in DOMAIN m \cup {Nothing}
      /\ extra \cap DOMAIN m = {}
  BY DEF GoesBeyond
<1>1. items \ (known \cup extra) = items \ known
  BY <1>0
<1>2. ASSUME NEW i \in items PROVE Needs(m2, items, i) = Needs(m, items, i)
                                   /\ Needs(m, items, i) \subseteq DOMAIN m
  BY <1>0 DEF Needs
<1>3. ASSUME NEW new \in SUBSET (items \ known)
      PROVE  Ready(m2, known \cup extra, items, new) = Ready(m, known, items, new)
  <2>1. ASSUME NEW i \in items
        PROVE  Needs(m2, items, i) \subseteq (known \cup extra) \cup new
                 <=> Needs(m, items, i) \subseteq known \cup new
    BY <1>2, <1>0
  <2> QED BY <2>1, <1>1 DEF Ready
<1>4. News(m2, known \cup extra, items) = News(m, known, items)
  BY <1>1, <1>3 DEF News
<1>5. Taken(m2, known \cup extra, items) = (known \cup extra) \cup One(News(m, known, items))
  BY <1>4 DEF Taken
<1>6. Taken(m, known, items) = known \cup One(News(m, known, items))
  BY DEF Taken
<1> QED BY <1>5, <1>6

\* An order in which the items can have been made.
Ranked(m) ==
  \E rank \in [DOMAIN m -> 1..Cardinality(DOMAIN m)] :
    \A i \in DOMAIN m : m[i].over # Nothing => rank[m[i].over] < rank[i]

\* The items of a client are numbered from one on.
Consecutive(m) == \A c \in Clients : /\ Has(DOMAIN m, c, Count(c, m))
                                     /\ \A i \in MadeBy(c, m) : i[2] <= Count(c, m)

Library(m) == IsFiniteSet(DOMAIN m) /\ Founded(m) /\ Ranked(m) /\ Consecutive(m)

LEMMA NothingIsNoItem == Nothing \notin Numbered
  BY DEF Nothing, Numbered

LEMMA TwoClients ==
  ASSUME NEW c \in Clients, NEW d \in Clients, NEW e \in Clients
  PROVE  c = d \/ d = e \/ c = e
<1> SUFFICES ASSUME c # d, d # e, c # e PROVE FALSE
  OBVIOUS
<1>1. IsFiniteSet({c}) /\ Cardinality({c}) = 1
  BY FS_Singleton
<1>2. IsFiniteSet({c} \cup {d}) /\ Cardinality({c} \cup {d}) = 2
  BY <1>1, FS_AddElement
<1> DEFINE S == {c} \cup {d}
<1>3. IsFiniteSet(S \cup {e}) /\ Cardinality(S \cup {e}) = 3
  <2>1. e \notin S
    OBVIOUS
  <2>2. IsFiniteSet(S) /\ Cardinality(S) = 2
    BY <1>2
  <2> HIDE DEF S
  <2> QED BY <2>1, <2>2, FS_AddElement
<1>4. (S \cup {e}) \in SUBSET Clients
  OBVIOUS
<1> HIDE DEF S
<1>5. Cardinality(S \cup {e}) <= Cardinality(Clients) /\ Cardinality(Clients) \in Nat
  BY <1>4, ClientsAssumption, FS_Subset, FS_CardinalityType
<1> QED BY <1>3, <1>5, ClientsAssumption

\* Of some items one is of the greatest client.
LEMMA OneOfTheGreatest ==
  ASSUME NEW S, S # {}, S \subseteq Numbered
  PROVE  \E j \in S : \A o \in S : o[1] <= j[1]
<1>1. \A j \in S : j[1] \in Clients /\ j[1] \in Nat
  BY ClientsAssumption DEF Numbered
<1>2. PICK j \in S : TRUE
  OBVIOUS
<1>3. CASE \A o \in S : o[1] <= j[1]
  BY <1>3
<1>4. CASE \E o \in S : ~(o[1] <= j[1])
  <2>1. PICK o \in S : ~(o[1] <= j[1])
    BY <1>4
  <2>2. ASSUME NEW q \in S PROVE q[1] <= o[1]
    <3>1. q[1] = j[1] \/ j[1] = o[1] \/ q[1] = o[1]
      BY <1>1, TwoClients
    <3>2. q[1] \in Nat /\ j[1] \in Nat /\ o[1] \in Nat
      BY <1>1
    <3> QED BY <3>1, <3>2, <2>1
  <2> QED BY <2>2
<1> QED BY <1>3, <1>4

\* The last item of a cell is one of those there are.
LEMMA LastOfIs ==
  ASSUME Founded(made), IsFiniteSet(Items), Ranked(made),
         NEW items \in SUBSET Items, NEW k \in Cells
  PROVE  LastOf[items][k] \in items \cup {Nothing}
<1> DEFINE Over(i) == {j \in items : made[j].cell = k /\ made[j].over = i}
           winners == {j \in items : /\ made[j].cell = k
                                     /\ \A o \in Over(made[j].over) : o[1] <= j[1]}
           F(line) == {j \in winners : made[j].over \in line \cup {Nothing}}
           paths == {line \in SUBSET winners : line = F(line)}
           path == One(paths)
           P == {s \in SUBSET winners : s \subseteq F(s)}
           g == UNION P
<1>1. LastOf[items][k] = CHOOSE i \in path \cup {Nothing} : Over(i) = {}
  BY DEF LastOf
<1>2. \A s, t : s \subseteq t => F(s) \subseteq F(t)
  OBVIOUS
<1>3. g \subseteq F(g)
  <2> SUFFICES ASSUME NEW i \in g PROVE i \in F(g)
    OBVIOUS
  <2>1. PICK s \in P : i \in s
    OBVIOUS
  <2>2. s \subseteq g
    OBVIOUS
  <2>3. i \in F(s) /\ F(s) \subseteq F(g)
    BY <2>1, <2>2, <1>2
  <2> HIDE DEF F, g, P
  <2> QED BY <2>3
<1>4. F(g) \subseteq g
  <2>1. F(g) \in SUBSET winners
    OBVIOUS
  <2>2. F(g) \subseteq F(F(g))
    BY <1>2, <1>3
  <2> HIDE DEF F, winners
  <2> QED BY <2>1, <2>2
<1>5. g \in paths
  BY <1>3, <1>4
<1>6. path \in paths
  <2> HIDE DEF paths, g
  <2> QED BY <1>5 DEF One
<1>7. path \subseteq items /\ path = F(path)
  BY <1>6
<1>8. ASSUME NEW i, Over(i) # {}, i \in path \cup {Nothing}
      PROVE  \E j \in path : made[j].over = i
  <2>1. Over(i) \subseteq Numbered
    BY DEF Founded, Items
  <2>2. PICK j \in Over(i) : \A o \in Over(i) : o[1] <= j[1]
    <3> HIDE DEF Over
    <3> QED BY <1>8, <2>1, OneOfTheGreatest
  <2>3. j \in winners /\ made[j].over = i
    BY <2>2
  <2>4. j \in F(path)
    BY <2>3, <1>8
  <2> QED BY <2>4, <2>3, <1>7
<1> SUFFICES ASSUME \A i \in path \cup {Nothing} : Over(i) # {} PROVE FALSE
  <2> HIDE DEF Over, path
  <2> QED BY <1>1, <1>7
<1>9. \A i \in path \cup {Nothing} : \E j \in path : made[j].over = i
  BY <1>8
<1> HIDE DEF path, Over, winners, F, paths
<1>10. PICK rank \in [Items -> 1..Cardinality(Items)] :
         \A i \in Items : made[i].over # Nothing => rank[made[i].over] < rank[i]
  BY DEF Ranked, Items
<1>11. Cardinality(Items) \in Nat
  BY FS_CardinalityType
<1> DEFINE R == {rank[i] : i \in path}
<1>12. R \in SUBSET (0..Cardinality(Items)) /\ R # {}
  <2>1. \A i \in path : rank[i] \in 1..Cardinality(Items)
    BY <1>7, <1>10
  <2>2. path # {}
    BY <1>9
  <2> QED BY <2>1, <2>2, <1>11
<1>13. PICK r \in R : \A x \in R : x <= r
  <2> HIDE DEF R
  <2> QED BY <1>11, <1>12, Greatest
<1>14. PICK i \in path : r = rank[i]
  OBVIOUS
<1>15. PICK j \in path : made[j].over = i
  BY <1>9
<1>16. i # Nothing /\ i \in Items /\ j \in Items
  BY <1>7, NothingIsNoItem DEF Founded, Items
<1>17. rank[i] < rank[j] /\ rank[j] <= rank[i]
  BY <1>10, <1>13, <1>14, <1>15, <1>16
<1>18. rank[i] \in Nat /\ rank[j] \in Nat
  BY <1>10, <1>11, <1>16
<1> QED BY <1>17, <1>18

----------------------------------------------------------------------------
(* Documents and replicas.                                                  *)

World == Library(made) /\ Cardinality(Items) <= MaxInputs

LEMMA DocumentsAreFinite ==
  ASSUME World, NEW items \in SUBSET Items
  PROVE  FiniteItems(items) /\ Cardinality(items) <= MaxInputs /\ Cardinality(items) \in Nat
<1>1. IsFiniteSet(Items) /\ Items \subseteq Numbered /\ Cardinality(Items) <= MaxInputs
  BY DEF World, Library, Founded, Items
<1>2. IsFiniteSet(items) /\ Cardinality(items) <= Cardinality(Items)
  BY <1>1, FS_Subset
<1>3. Cardinality(items) \in Nat /\ Cardinality(Items) \in Nat
  BY <1>1, <1>2, FS_CardinalityType
<1> QED BY <1>1, <1>2, <1>3, BoundsAssumption DEF FiniteItems

LEMMA VectorIs ==
  ASSUME World, NEW d \in Documents
  PROVE  Vector[d] \in Vectors /\ \A c \in Clients : Vector[d][c] = Upto(d.items, c)
<1>1. Vector[d] = [c \in Clients |-> Upto(d.items, c)]
  BY DEF Vector, Upto, Clocks, Reached
<1>2. d.items \in SUBSET Items
  BY DEF Documents
<1>3. FiniteItems(d.items) /\ Cardinality(d.items) <= MaxInputs /\ Cardinality(d.items) \in Nat
  BY <1>2, DocumentsAreFinite
<1>4. \A c \in Clients : Upto(d.items, c) \in -1..MaxInputs
  <2> SUFFICES ASSUME NEW c \in Clients PROVE Upto(d.items, c) \in -1..MaxInputs
    OBVIOUS
  <2>1. Upto(d.items, c) \in -1..Cardinality(d.items)
    BY <1>3, UptoIs
  <2> QED BY <2>1, <1>3, BoundsAssumption
<1> QED BY <1>1, <1>4 DEF Vectors

\* An update that a document cannot take: it lacks something, and the document
\* would reach no further with it.
BlockedIn(m, d, u) ==
  LET T == Taken(m, d.items, u.items)
  IN /\ ~(u.items \subseteq T /\ d.gone \cup u.gone \subseteq T)
     /\ \A c \in Clients : Upto(T, c) = Upto(d.items, c)

LEMMA StagedIs ==
  ASSUME World, NEW d \in Documents, NEW u \in Documents
  PROVE  /\ Staged[d][u] \in Documents
         /\ Staged[d][u].items = Taken(made, d.items, u.items)
         /\ d.items \subseteq Staged[d][u].items /\ d.gone \subseteq Staged[d][u].gone
         /\ IsPending(Staged[d][u], u) <=>
              ~(u.items \subseteq Staged[d][u].items /\ d.gone \cup u.gone \subseteq Staged[d][u].items)
<1> DEFINE T == Taken(made, d.items, u.items)
<1>1. /\ d.items \in SUBSET Items /\ d.gone \in SUBSET Items
      /\ u.items \in SUBSET Items /\ u.gone \in SUBSET Items
  BY DEF Documents
<1>2. Integrated[d.items][u.items] = T
  BY <1>1, IntegratedIsTaken
<1>3. d.items \subseteq T /\ T \subseteq d.items \cup u.items
  BY TakenIs
<1> HIDE DEF T
<1>4. T \in SUBSET Items
  BY <1>1, <1>3
<1>5. Hidden[T] \subseteq T
  BY <1>4 DEF Hidden
<1>6. Staged[d][u] = [items |-> T, gone |-> d.gone \cup u.gone \cup Hidden[T]]
  BY <1>2 DEF Staged, Joined, Document
<1>7. Staged[d][u].items = T /\ Staged[d][u].gone = d.gone \cup u.gone \cup Hidden[T]
  BY <1>6
<1>8. Staged[d][u] \in Documents
  BY <1>1, <1>4, <1>5, <1>6 DEF Documents
<1>9. IsPending(Staged[d][u], u) <=> ~(u.items \subseteq T /\ d.gone \cup u.gone \subseteq T)
  BY <1>5, <1>7 DEF IsPending, IsWhole
<1> QED BY <1>3, <1>7, <1>8, <1>9 DEF T

LEMMA DiffIs ==
  ASSUME World, NEW d \in Documents, NEW v \in Vectors
  PROVE  /\ Diff[d][v] \in Documents
         /\ Diff[d][v].items = {i \in d.items : Upto(d.items, i[1]) > v[i[1]] /\ i[2] > v[i[1]]}
<1>1. d.items \in SUBSET Items /\ d.gone \in SUBSET Items
  BY DEF Documents
<1>2. \A i \in d.items : i[1] \in Clients
  BY <1>1 DEF World, Library, Founded, Numbered, Items
<1>3. \A i \in d.items : Vector[d][i[1]] = Upto(d.items, i[1])
  BY <1>2, VectorIs
<1>4. Diff[d][v] = [items |-> {i \in d.items : Vector[d][i[1]] > v[i[1]] /\ i[2] > v[i[1]]},
                    gone |-> d.gone \cap d.items]
  BY DEF Diff, Document
<1>5. Diff[d][v] = [items |-> {i \in d.items : Upto(d.items, i[1]) > v[i[1]] /\ i[2] > v[i[1]]},
                    gone |-> d.gone \cap d.items]
  BY <1>3, <1>4
<1> QED BY <1>5, <1>1 DEF Documents

LEMMA CommitIs ==
  ASSUME World, NEW d \in Documents, NEW staged \in Documents
  PROVE  /\ Commit(d, staged) \in Documents
         /\ Commit(d, staged).items =
              {i \in staged.items : /\ Upto(staged.items, i[1]) > Upto(d.items, i[1])
                                    /\ i[2] > Upto(d.items, i[1])}
<1>1. \A i \in staged.items : i[1] \in Clients
  BY DEF World, Library, Founded, Numbered, Items, Documents
<1>2. \A i \in staged.items : Vector[d][i[1]] = Upto(d.items, i[1])
  BY <1>1, VectorIs
<1>3. Vector[d] \in Vectors
  BY VectorIs
<1>4. /\ Diff[staged][Vector[d]] \in Documents
      /\ Diff[staged][Vector[d]].items =
           {i \in staged.items : Upto(staged.items, i[1]) > Vector[d][i[1]] /\ i[2] > Vector[d][i[1]]}
  BY <1>3, DiffIs
<1> QED BY <1>2, <1>4 DEF Commit

\* What is committed reaches as far as what was staged.
LEMMA CommitReaches ==
  ASSUME World, NEW d \in Documents, NEW staged \in Documents, d.items \subseteq staged.items,
         NEW c \in Clients, NEW n \in Nat, Has(staged.items, c, n)
  PROVE  Has(d.items \cup Commit(d, staged).items, c, n)
<1>1. FiniteItems(d.items) /\ FiniteItems(staged.items)
  BY DocumentsAreFinite DEF Documents
<1> DEFINE a == Upto(d.items, c)
           b == Upto(staged.items, c)
<1>2. a \in Int /\ b \in Int /\ a >= -1
  <2>1. a \in -1..Cardinality(d.items) /\ b \in -1..Cardinality(staged.items)
    BY <1>1, UptoIs
  <2>2. Cardinality(d.items) \in Nat /\ Cardinality(staged.items) \in Nat
    BY <1>1, FS_CardinalityType DEF FiniteItems
  <2> QED BY <2>1, <2>2
<1>3. n = 0 \/ n <= b
  BY <1>1, UptoIs
<1>4. a \in Nat => Has(d.items, c, a)
  BY <1>1, UptoIs
<1>5. ASSUME NEW m \in 1..n PROVE <<c, m>> \in d.items \cup Commit(d, staged).items
  <2>1. <<c, m>> \in staged.items
    BY DEF Has
  <2>2. CASE m <= a
    <3>1. a \in Nat /\ m \in 1..a
      BY <2>2, <1>2
    <3> QED BY <3>1, <1>4 DEF Has
  <2>3. CASE m > a
    <3>1. b > a
      BY <2>3, <1>2, <1>3
    <3> QED BY <3>1, <2>1, <2>3, CommitIs
  <2> HIDE DEF a
  <2> QED BY <2>2, <2>3, <1>2
<1> QED BY <1>5 DEF Has

\* Nothing is committed only where nothing reaches further.
LEMMA CommitBrings ==
  ASSUME World, NEW d \in Documents, NEW staged \in Documents, d.items \subseteq staged.items,
         NEW c \in Clients, Upto(staged.items, c) # Upto(d.items, c)
  PROVE  Commit(d, staged).items # {}
<1>1. FiniteItems(d.items) /\ FiniteItems(staged.items)
  BY DocumentsAreFinite DEF Documents
<1> DEFINE a == Upto(d.items, c)
           b == Upto(staged.items, c)
<1>2. a \in Int /\ b \in Int /\ a >= -1 /\ b > a
  <2>1. a \in -1..Cardinality(d.items) /\ b \in -1..Cardinality(staged.items)
    BY <1>1, UptoIs
  <2>2. Cardinality(d.items) \in Nat /\ Cardinality(staged.items) \in Nat
    BY <1>1, FS_CardinalityType DEF FiniteItems
  <2>3. a <= b /\ a # b
    BY <1>1, UptoGrows
  <2> HIDE DEF a, b
  <2> QED BY <2>1, <2>2, <2>3
<1>3. PICK i \in staged.items : i[1] = c /\ i[2] > a
  <2>1. CASE a = -1
    <3>1. b # -1
      BY <1>2, <2>1
    <3>2. Clocks(staged.items, c) # {}
      BY <3>1, <1>1, UptoIs
    <3>3. PICK i \in staged.items : i[1] = c
      BY <3>2 DEF Clocks
    <3>4. i[2] \in Nat
      BY <1>1 DEF FiniteItems, Numbered
    <3> HIDE DEF a
    <3> QED BY <3>3, <3>4, <2>1
  <2>2. CASE a # -1
    <3>1. a + 1 \in Nat /\ a + 1 <= b
      BY <2>2, <1>2
    <3>2. Has(staged.items, c, a + 1)
      BY <3>1, <1>1, UptoIs
    <3>3. a + 1 \in 1..(a + 1)
      BY <3>1, <1>2, <2>2
    <3>4. <<c, a + 1>> \in staged.items
      BY <3>2, <3>3 DEF Has
    <3>5. a + 1 > a
      BY <1>2
    <3> HIDE DEF a
    <3> QED BY <3>4, <3>5
  <2> QED BY <2>1, <2>2
<1>4. i \in Commit(d, staged).items
  BY <1>2, <1>3, CommitIs
<1> QED BY <1>4

LEMMA BlockedIs ==
  ASSUME World, NEW d \in Documents, NEW u \in Documents
  PROVE  BlockedIn(made, d, u) <=>
           IsPending(Staged[d][u], u) /\ Vector[Staged[d][u]] = Vector[d]
<1> DEFINE s == Staged[d][u]
<1>1. /\ s \in Documents /\ s.items = Taken(made, d.items, u.items)
      /\ IsPending(s, u) <=> ~(u.items \subseteq s.items /\ d.gone \cup u.gone \subseteq s.items)
  BY StagedIs
<1>2. Vector[s] \in Vectors /\ \A c \in Clients : Vector[s][c] = Upto(s.items, c)
  BY <1>1, VectorIs
<1>3. Vector[d] \in Vectors /\ \A c \in Clients : Vector[d][c] = Upto(d.items, c)
  BY VectorIs
<1> HIDE DEF s
<1>4. Vector[s] = Vector[d] <=> \A c \in Clients : Upto(s.items, c) = Upto(d.items, c)
  BY <1>2, <1>3 DEF Vectors
<1>5. BlockedIn(made, d, u) <=>
        /\ ~(u.items \subseteq s.items /\ d.gone \cup u.gone \subseteq s.items)
        /\ \A c \in Clients : Upto(s.items, c) = Upto(d.items, c)
  BY <1>1 DEF BlockedIn
<1> QED BY <1>1, <1>4, <1>5 DEF s

\* A replica, and what becomes of one: its document only grows.
IsReplica(r) ==
  /\ r = [doc |-> r.doc, screen |-> r.screen, held |-> r.held, spins |-> r.spins]
  /\ r.doc \in Documents /\ r.held \in Seq(Documents) /\ r.spins \in BOOLEAN
GoesOn(r, after) ==
  /\ IsReplica(after)
  /\ r.doc.items \subseteq after.doc.items /\ r.doc.gone \subseteq after.doc.gone
Reaches(staged, after) ==
  \A c \in Clients, n \in Nat : Has(staged.items, c, n) => Has(after.doc.items, c, n)

LEMMA JoinedIs ==
  ASSUME NEW d \in Documents, NEW commit \in Documents
  PROVE  LET j == Joined(d, d.items \cup commit.items, commit.gone)
         IN /\ j \in Documents /\ j.items = d.items \cup commit.items
            /\ d.gone \subseteq j.gone
<1> DEFINE T == d.items \cup commit.items
<1>1. T \in SUBSET Items
  BY DEF Documents
<1>2. Hidden[T] \subseteq T
  BY <1>1 DEF Hidden
<1>3. Joined(d, T, commit.gone) = [items |-> T, gone |-> d.gone \cup commit.gone \cup Hidden[T]]
  BY DEF Joined, Document
<1> HIDE DEF T
<1>4. Joined(d, T, commit.gone) \in Documents
  BY <1>1, <1>2, <1>3 DEF Documents
<1>5. Joined(d, T, commit.gone).items = T /\ d.gone \subseteq Joined(d, T, commit.gone).gone
  BY <1>3
<1> QED BY <1>4, <1>5 DEF T

\* An update without an effect lets nobody's items reach further.
LEMMA IneffectiveReachesNoFurther ==
  ASSUME World, NEW d \in Documents, NEW staged \in Documents, d.items \subseteq staged.items,
         NEW u, ~IsEffective(d, staged, u), NEW c \in Clients
  PROVE  Upto(staged.items, c) = Upto(d.items, c)
<1>1. CASE Vector[staged] = Vector[d]
  BY <1>1, VectorIs
<1>2. CASE Commit(d, staged) = Document({}, {})
  <2>1. Commit(d, staged).items = {}
    BY <1>2 DEF Document
  <2> QED BY <2>1, CommitBrings
<1> QED BY <1>1, <1>2 DEF IsEffective

LEMMA AfterUpdateIs ==
  ASSUME World, NEW r, IsReplica(r), NEW u \in Documents
  PROVE  LET staged == Staged[r.doc][u]
             after  == AfterUpdate(r, staged, u)
         IN /\ GoesOn(r, after) /\ Reaches(staged, after)
            /\ after.held = r.held /\ after.spins = r.spins
<1> DEFINE staged == Staged[r.doc][u]
           after == AfterUpdate(r, staged, u)
           commit == Commit(r.doc, staged)
           new == Joined(r.doc, r.doc.items \cup commit.items, commit.gone)
<1>1. r.doc \in Documents
  BY DEF IsReplica
<1>2. staged \in Documents /\ r.doc.items \subseteq staged.items
  BY <1>1, StagedIs
<1>3. commit \in Documents
  BY <1>1, <1>2, CommitIs
<1>4. new \in Documents /\ new.items = r.doc.items \cup commit.items /\ r.doc.gone \subseteq new.gone
  BY <1>1, <1>3, JoinedIs
<1>5. CASE ~IsEffective(r.doc, staged, u)
  <2>1. after = r
    BY <1>5 DEF AfterUpdate
  <2>2. GoesOn(r, after)
    BY <2>1 DEF GoesOn
  <2>3. ASSUME NEW c \in Clients PROVE Upto(staged.items, c) = Upto(r.doc.items, c)
    <3> HIDE DEF staged
    <3> QED BY <1>1, <1>2, <1>5, IneffectiveReachesNoFurther
  <2>4. Reaches(staged, after)
    <3> SUFFICES ASSUME NEW c \in Clients, NEW n \in Nat, Has(staged.items, c, n)
                 PROVE  Has(r.doc.items, c, n)
      BY <2>1 DEF Reaches
    <3>1. FiniteItems(r.doc.items) /\ FiniteItems(staged.items)
      BY <1>1, <1>2, DocumentsAreFinite DEF Documents
    <3>2. n = 0 \/ n <= Upto(staged.items, c)
      BY <3>1, UptoIs
    <3> HIDE DEF staged
    <3> QED BY <3>1, <3>2, <2>3, UptoIs
  <2> QED BY <2>1, <2>2, <2>4
<1>6. CASE IsEffective(r.doc, staged, u)
  <2>1. after = [r EXCEPT !.doc = new, !.screen = Content[staged]]
    BY <1>6 DEF AfterUpdate
  <2> HIDE DEF staged, commit, new, after
  <2>2. after = [doc |-> new, screen |-> Content[staged], held |-> r.held, spins |-> r.spins]
    BY <2>1 DEF IsReplica
  <2>3. GoesOn(r, after)
    BY <2>2, <1>4 DEF GoesOn, IsReplica
  <2>4. Reaches(staged, after)
    <3> SUFFICES ASSUME NEW c \in Clients, NEW n \in Nat, Has(staged.items, c, n)
                 PROVE  Has(new.items, c, n)
      BY <2>2 DEF Reaches
    <3>1. Has(r.doc.items \cup Commit(r.doc, staged).items, c, n)
      BY <1>1, <1>2, CommitReaches
    <3> QED BY <3>1, <1>4 DEF commit
  <2> QED BY <2>2, <2>3, <2>4 DEF after, staged
<1> QED BY <1>5, <1>6

----------------------------------------------------------------------------
(* Resolving what is held back.                                             *)

LEMMA RemoveAtIs ==
  ASSUME NEW S, NEW s \in Seq(S), NEW n \in 1..Len(s)
  PROVE  /\ RemoveAt(s, n) \in Seq(S) /\ Len(RemoveAt(s, n)) = Len(s) - 1
         /\ \A k \in 1..(Len(s) - 1) : RemoveAt(s, n)[k] = IF k < n THEN s[k] ELSE s[k + 1]
<1> DEFINE a == SubSeq(s, 1, n - 1)
           b == SubSeq(s, n + 1, Len(s))
<1>1. Len(s) \in Nat /\ \A k \in 1..Len(s) : s[k] \in S
  BY ElementOfSeq
<1>2. /\ a \in Seq(S) /\ Len(a) = n - 1
      /\ \A k \in 1..(n - 1) : a[k] = s[k]
  <2>1. \A k \in 1..(n - 1) : s[k] \in S
    BY <1>1
  <2>2. 1 \in Int /\ n - 1 \in Int
    BY <1>1
  <2> QED BY <2>1, <2>2, <1>1, SubSeqProperties
<1>3. /\ b \in Seq(S) /\ Len(b) = Len(s) - n
      /\ \A k \in 1..(Len(s) - n) : b[k] = s[k + n]
  <2>1. \A k \in (n + 1)..Len(s) : s[k] \in S
    BY <1>1
  <2>2. Len(s) \in Int /\ n + 1 \in Int
    BY <1>1
  <2>3. /\ SubSeq(s, n + 1, Len(s)) \in Seq(S)
        /\ Len(SubSeq(s, n + 1, Len(s))) = IF n + 1 <= Len(s) THEN Len(s) - (n + 1) + 1 ELSE 0
        /\ \A k \in 1..(Len(s) - (n + 1) + 1) : SubSeq(s, n + 1, Len(s))[k] = s[n + 1 + k - 1]
    BY <2>1, <2>2, SubSeqProperties
  <2> QED BY <2>3, <1>1
<1>4. RemoveAt(s, n) = a \o b
  BY DEF RemoveAt
<1> HIDE DEF a, b
<1>5. /\ a \o b \in Seq(S) /\ Len(a \o b) = Len(a) + Len(b)
      /\ \A k \in 1..(Len(a) + Len(b)) : (a \o b)[k] = IF k <= Len(a) THEN a[k] ELSE b[k - Len(a)]
  BY <1>2, <1>3, ConcatProperties
<1>6. Len(a) + Len(b) = Len(s) - 1
  BY <1>1, <1>2, <1>3
<1>7. ASSUME NEW k \in 1..(Len(s) - 1)
      PROVE  RemoveAt(s, n)[k] = IF k < n THEN s[k] ELSE s[k + 1]
  <2>1. CASE k < n
    BY <2>1, <1>1, <1>2, <1>4, <1>5, <1>6
  <2>2. CASE ~(k < n)
    <3>1. k - (n - 1) \in 1..(Len(s) - n) /\ ~(k <= n - 1)
      BY <2>2, <1>1
    <3>2. (a \o b)[k] = b[k - (n - 1)]
      BY <3>1, <1>2, <1>5, <1>6
    <3>3. b[k - (n - 1)] = s[k - (n - 1) + n]
      BY <3>1, <1>3
    <3>4. k - (n - 1) + n = k + 1
      BY <1>1
    <3> QED BY <3>2, <3>3, <3>4, <2>2, <1>4
  <2> QED BY <2>1, <2>2
<1> QED BY <1>4, <1>5, <1>6, <1>7

\* What can still happen to a replica that is being resolved.
Left(r) == Len(r.held) + 2 * Cardinality(Items) - Cardinality(r.doc.items) - Cardinality(r.doc.gone)

LEMMA LeftIs ==
  ASSUME World, NEW r, IsReplica(r)
  PROVE  /\ Left(r) \in Nat /\ Left(r) < Turns(r) /\ Turns(r) \in Nat
         /\ Cardinality(Items) \in Nat
         /\ Cardinality(r.doc.items) \in Nat /\ Cardinality(r.doc.gone) \in Nat
<1>1. IsFiniteSet(Items) /\ r.doc.items \in SUBSET Items /\ r.doc.gone \in SUBSET Items
  BY DEF World, Library, Items, IsReplica, Documents
<1>2. Cardinality(r.doc.items) <= Cardinality(Items) /\ Cardinality(r.doc.items) \in Nat
  BY <1>1, FS_Subset, FS_CardinalityType
<1>3. Cardinality(r.doc.gone) <= Cardinality(Items) /\ Cardinality(r.doc.gone) \in Nat
  BY <1>1, FS_Subset, FS_CardinalityType
<1>4. Cardinality(Items) \in Nat
  BY <1>1, FS_CardinalityType
<1>5. Len(r.held) \in Nat
  BY DEF IsReplica
<1> QED BY <1>2, <1>3, <1>4, <1>5 DEF Left, Turns

LEMMA GrowingLeavesLess ==
  ASSUME World, NEW r, NEW after, IsReplica(r), GoesOn(r, after)
  PROVE  /\ Left(after) - Len(after.held) <= Left(r) - Len(r.held)
         /\ after.doc # r.doc => Left(after) - Len(after.held) < Left(r) - Len(r.held)
<1>1. IsFiniteSet(Items) /\ IsReplica(after)
  BY DEF World, Library, Items, GoesOn
<1>2. /\ after.doc.items \in SUBSET Items /\ after.doc.gone \in SUBSET Items
      /\ r.doc.items \in SUBSET after.doc.items /\ r.doc.gone \in SUBSET after.doc.gone
  BY <1>1 DEF IsReplica, Documents, GoesOn
<1>3. IsFiniteSet(after.doc.items) /\ IsFiniteSet(after.doc.gone)
  BY <1>1, <1>2, FS_Subset
<1>4. /\ Cardinality(r.doc.items) <= Cardinality(after.doc.items)
      /\ Cardinality(r.doc.items) = Cardinality(after.doc.items) => after.doc.items = r.doc.items
  BY <1>2, <1>3, FS_Subset
<1>5. /\ Cardinality(r.doc.gone) <= Cardinality(after.doc.gone)
      /\ Cardinality(r.doc.gone) = Cardinality(after.doc.gone) => after.doc.gone = r.doc.gone
  BY <1>2, <1>3, FS_Subset
<1>6. /\ Cardinality(r.doc.items) \in Nat /\ Cardinality(r.doc.gone) \in Nat
      /\ Cardinality(after.doc.items) \in Nat /\ Cardinality(after.doc.gone) \in Nat
      /\ Cardinality(Items) \in Nat
  BY <1>1, LeftIs
<1>7. Len(r.held) \in Nat /\ Len(after.held) \in Nat
  BY <1>1 DEF IsReplica
<1>8. after.doc # r.doc => after.doc.items # r.doc.items \/ after.doc.gone # r.doc.gone
  BY <1>1 DEF IsReplica, Documents
<1> DEFINE a == Cardinality(r.doc.items)
           b == Cardinality(r.doc.gone)
           a2 == Cardinality(after.doc.items)
           b2 == Cardinality(after.doc.gone)
           all == Cardinality(Items)
           h == Len(r.held)
           h2 == Len(after.held)
<1>9. Left(r) = h + 2 * all - a - b /\ Left(after) = h2 + 2 * all - a2 - b2
  BY DEF Left
<1>10. a <= a2 /\ b <= b2 /\ (after.doc # r.doc => a # a2 \/ b # b2)
  BY <1>4, <1>5, <1>8
<1>11. a \in Nat /\ b \in Nat /\ a2 \in Nat /\ b2 \in Nat /\ all \in Nat /\ h \in Nat /\ h2 \in Nat
  BY <1>6, <1>7
<1> HIDE DEF a, b, a2, b2, all, h, h2
<1>12. /\ Left(after) - h2 <= Left(r) - h
       /\ after.doc # r.doc => Left(after) - h2 < Left(r) - h
  BY <1>9, <1>10, <1>11
<1> QED BY <1>12 DEF h, h2

\* A turn of a replica that does not settle brings it closer to that.
LEMMA TurnIs ==
  ASSUME World, NEW r, IsReplica(r)
  PROVE  /\ GoesOn(r, Turn(r))
         /\ ~Settles(r) => Settles(Turn(r)) \/ Left(Turn(r)) < Left(r)
<1>1. CASE Settles(r)
  BY <1>1 DEF Turn, GoesOn
<1>2. CASE ~Settles(r)
  <2> DEFINE n == CHOOSE k \in Moving(r) : \A o \in Moving(r) : k <= o
             u == r.held[n]
             staged == Staged[r.doc][u]
             after == AfterUpdate(r, staged, u)
  <2>1. Turn(r) = ResolveStep(r, n, staged)
    BY <1>2 DEF Turn
  <2>2. n \in Moving(r)
    <3>1. Moving(r) # {}
      BY <1>2 DEF Settles
    <3>2. Len(r.held) \in Nat
      BY DEF IsReplica
    <3>3. Moving(r) \in SUBSET Nat
      BY <3>2 DEF Moving
    <3>4. \E k \in Moving(r) : \A o \in Moving(r) : k <= o
      BY <3>1, <3>3, Least
    <3> QED BY <3>4
  <2> HIDE DEF n
  <2>3. n \in 1..Len(r.held) /\ (~IsPending(staged, u) \/ IsEffective(r.doc, staged, u))
    BY <2>2 DEF Moving
  <2>4. u \in Documents
    BY <2>3, ElementOfSeq DEF IsReplica
  <2> HIDE DEF u
  <2>5. GoesOn(r, after) /\ after.held = r.held /\ after.spins = r.spins
    BY <2>4, AfterUpdateIs
  <2>6. Turn(r) = IF ~IsPending(staged, u) THEN [after EXCEPT !.held = RemoveAt(@, n)]
                  ELSE [after EXCEPT !.spins = (after.doc = r.doc)]
    BY <2>1 DEF ResolveStep, u
  <2> HIDE DEF staged, after
  <2>7. /\ after = [doc |-> after.doc, screen |-> after.screen, held |-> r.held, spins |-> r.spins]
        /\ after.doc \in Documents /\ IsReplica(after)
    BY <2>5 DEF GoesOn, IsReplica
  <2>8. Len(r.held) \in Nat /\ r.held \in Seq(Documents) /\ r.spins \in BOOLEAN
    BY DEF IsReplica
  <2>9. /\ Left(after) <= Left(r)
        /\ after.doc # r.doc => Left(after) < Left(r)
    <3>1. /\ Left(after) - Len(after.held) <= Left(r) - Len(r.held)
          /\ after.doc # r.doc => Left(after) - Len(after.held) < Left(r) - Len(r.held)
      BY <2>5, GrowingLeavesLess
    <3>2. Left(after) \in Nat /\ Left(r) \in Nat
      BY <2>7, LeftIs
    <3> QED BY <3>1, <3>2, <2>5, <2>8
  <2>10. CASE ~IsPending(staged, u)
    <3>1. Turn(r) = [doc |-> after.doc, screen |-> after.screen,
                     held |-> RemoveAt(r.held, n), spins |-> r.spins]
      BY <2>6, <2>7, <2>10
    <3>2. RemoveAt(r.held, n) \in Seq(Documents) /\ Len(RemoveAt(r.held, n)) = Len(r.held) - 1
      BY <2>3, <2>8, RemoveAtIs
    <3>3. IsReplica(Turn(r))
      BY <3>1, <3>2, <2>7, <2>8 DEF IsReplica
    <3>4. GoesOn(r, Turn(r))
      BY <3>1, <3>3, <2>5 DEF GoesOn
    <3>5. Left(Turn(r)) < Left(after)
      <4>1. Turn(r).doc = after.doc /\ Len(Turn(r).held) = Len(after.held) - 1
        BY <3>1, <3>2, <2>5
      <4>2. /\ Left(after) \in Nat /\ Len(after.held) \in Nat /\ Cardinality(Items) \in Nat
            /\ Cardinality(after.doc.items) \in Nat /\ Cardinality(after.doc.gone) \in Nat
        BY <2>7, LeftIs DEF IsReplica
      <4> QED BY <4>1, <4>2 DEF Left
    <3>6. Left(Turn(r)) \in Nat /\ Left(after) \in Nat /\ Left(r) \in Nat
      BY <3>3, <2>7, LeftIs
    <3> QED BY <3>4, <3>5, <3>6, <2>9
  <2>11. CASE IsPending(staged, u)
    <3>1. Turn(r) = [doc |-> after.doc, screen |-> after.screen,
                     held |-> r.held, spins |-> (after.doc = r.doc)]
      BY <2>6, <2>7, <2>11
    <3>2. IsReplica(Turn(r))
      BY <3>1, <2>7, <2>8 DEF IsReplica
    <3>3. GoesOn(r, Turn(r))
      BY <3>1, <3>2, <2>5 DEF GoesOn
    <3>4. CASE after.doc = r.doc
      <4>1. Turn(r).spins = (after.doc = r.doc)
        BY <3>1
      <4>2. Turn(r).spins
        BY <4>1, <3>4
      <4>3. Settles(Turn(r))
        BY <4>2 DEF Settles
      <4> QED BY <4>3, <3>3
    <3>5. CASE after.doc # r.doc
      <4>1. Left(Turn(r)) = Left(after)
        BY <3>1, <2>5 DEF Left
      <4> QED BY <4>1, <3>3, <3>5, <2>9
    <3> QED BY <3>4, <3>5
  <2> QED BY <1>2, <2>10, <2>11
<1> QED BY <1>1, <1>2

\* The turns taken one after the other.
TurnsOf(r, n, f) == f = [k \in 0..n |-> IF k = 0 THEN r ELSE Turn(f[k - 1])]

LEMMA TurnsOfIs ==
  ASSUME NEW r, NEW n \in Nat, NEW f, TurnsOf(r, n, f)
  PROVE  f[0] = r /\ \A k \in 1..n : f[k] = Turn(f[k - 1])
<1> DEFINE E(k) == IF k = 0 THEN r ELSE Turn(f[k - 1])
<1>1. f = [k \in 0..n |-> E(k)]
  BY DEF TurnsOf
<1>2. \A k \in 0..n : f[k] = E(k)
  <2> HIDE DEF E
  <2> QED BY <1>1
<1> QED BY <1>2

LEMMA SomeTurns ==
  ASSUME NEW r, NEW n \in Nat
  PROVE  \E f : TurnsOf(r, n, f)
<1> DEFINE Bad == {k \in Nat : ~\E f : TurnsOf(r, k, f)}
<1> SUFFICES ASSUME Bad # {} PROVE FALSE
  OBVIOUS
<1>1. PICK k \in Bad : \A o \in Bad : k <= o
  <2>1. Bad \in SUBSET Nat
    OBVIOUS
  <2> HIDE DEF Bad
  <2> QED BY <2>1, Least
<1>2. k \in Nat /\ ~\E f : TurnsOf(r, k, f)
  OBVIOUS
<1>3. CASE k = 0
  <2> DEFINE f == [o \in 0..0 |-> r]
  <2>1. f = [o \in 0..0 |-> IF o = 0 THEN r ELSE Turn(f[o - 1])]
    OBVIOUS
  <2>2. TurnsOf(r, k, f)
    BY <2>1, <1>3 DEF TurnsOf
  <2> QED BY <2>2, <1>2
<1>4. CASE k # 0
  <2>1. k - 1 \in Nat /\ k - 1 < k
    BY <1>2, <1>4
  <2>2. k - 1 \notin Bad
    BY <1>1, <1>2, <2>1
  <2>3. PICK g : TurnsOf(r, k - 1, g)
    BY <2>1, <2>2
  <2>4. g[0] = r /\ \A o \in 1..(k - 1) : g[o] = Turn(g[o - 1])
    BY <2>1, <2>3, TurnsOfIs
  <2> DEFINE f == [o \in 0..k |-> IF o = k THEN Turn(g[k - 1]) ELSE g[o]]
             E(o) == IF o = 0 THEN r ELSE Turn(f[o - 1])
  <2>5. ASSUME NEW o \in 0..k PROVE f[o] = E(o)
    <3>1. CASE o = 0
      BY <3>1, <2>4, <1>4, <1>2
    <3>2. CASE o # 0 /\ o # k
      <4>1. o \in 1..(k - 1) /\ o - 1 \in 0..k /\ o - 1 # k
        BY <3>2, <1>2
      <4>2. f[o] = g[o] /\ f[o - 1] = g[o - 1]
        BY <4>1, <3>2, <1>2
      <4> HIDE DEF f
      <4> QED BY <4>1, <4>2, <2>4, <3>2
    <3>3. CASE o = k
      <4>1. k - 1 \in 0..k /\ k - 1 # k /\ k \in 0..k
        BY <1>2, <1>4
      <4>2. f[k] = Turn(g[k - 1]) /\ f[k - 1] = g[k - 1]
        BY <4>1
      <4> HIDE DEF f
      <4> QED BY <4>2, <3>3, <1>4
    <3> QED BY <3>1, <3>2, <3>3
  <2>6. f = [o \in 0..k |-> f[o]]
    OBVIOUS
  <2> HIDE DEF f
  <2>7. f = [o \in 0..k |-> E(o)]
    <3> HIDE DEF E
    <3> QED BY <2>5, <2>6
  <2>8. TurnsOf(r, k, f)
    BY <2>7 DEF TurnsOf
  <2> QED BY <2>8, <1>2
<1> QED BY <1>3, <1>4

LEMMA TurnsGoOn ==
  ASSUME World, NEW r, IsReplica(r), NEW n \in Nat, NEW f, TurnsOf(r, n, f)
  PROVE  \A k \in 0..n : /\ GoesOn(r, f[k])
                         /\ Settles(f[k]) \/ Left(f[k]) + k <= Left(r)
<1> DEFINE P(k) == /\ GoesOn(r, f[k])
                   /\ Settles(f[k]) \/ Left(f[k]) + k <= Left(r)
           Bad == {k \in Nat : k <= n /\ ~P(k)}
<1>0. f[0] = r /\ \A k \in 1..n : f[k] = Turn(f[k - 1])
  BY TurnsOfIs
<1> SUFFICES ASSUME Bad # {} PROVE FALSE
  OBVIOUS
<1>1. PICK k \in Bad : \A o \in Bad : k <= o
  <2>1. Bad \in SUBSET Nat
    OBVIOUS
  <2> HIDE DEF Bad
  <2> QED BY <2>1, Least
<1>2. k \in Nat /\ k <= n /\ ~P(k)
  OBVIOUS
<1>3. Left(r) \in Nat
  BY LeftIs
<1>4. P(0)
  <2>1. GoesOn(r, r)
    BY DEF GoesOn
  <2> QED BY <2>1, <1>0, <1>3
<1>5. k # 0
  <2> HIDE DEF P
  <2> QED BY <1>2, <1>4
<1>6. k - 1 \in Nat /\ k - 1 <= n /\ k - 1 < k /\ k \in 1..n
  BY <1>2, <1>5
<1>7. P(k - 1)
  <2>1. k - 1 \notin Bad
    BY <1>1, <1>2, <1>6
  <2> HIDE DEF P
  <2> QED BY <2>1, <1>6
<1> DEFINE x == f[k - 1]
<1>8. f[k] = Turn(x)
  BY <1>0, <1>6
<1>9. IsReplica(x) /\ GoesOn(r, x)
  BY <1>7 DEF GoesOn
<1>10. Settles(x) \/ Left(x) + (k - 1) <= Left(r)
  BY <1>7
<1> HIDE DEF x
<1>11. GoesOn(x, Turn(x)) /\ (~Settles(x) => Settles(Turn(x)) \/ Left(Turn(x)) < Left(x))
  BY <1>9, TurnIs
<1>12. GoesOn(r, Turn(x))
  BY <1>9, <1>11 DEF GoesOn
<1>13. Settles(x) => Settles(Turn(x))
  BY DEF Turn
<1>14. Left(x) \in Nat /\ Left(Turn(x)) \in Nat
  BY <1>9, <1>11, LeftIs DEF GoesOn
<1>15. Settles(Turn(x)) \/ Left(Turn(x)) + k <= Left(r)
  BY <1>10, <1>11, <1>13, <1>14, <1>3, <1>6
<1> QED BY <1>2, <1>8, <1>12, <1>15

\* Resolving comes to an end, with a replica that goes on from the one it began with.
LEMMA ResolvedIs ==
  ASSUME World, NEW r, IsReplica(r)
  PROVE  GoesOn(r, Resolved(r)) /\ Settles(Resolved(r))
<1> DEFINE N == Turns(r)
           f == CHOOSE g : TurnsOf(r, N, g)
           n == CHOOSE k \in 0..N : Settles(f[k])
<1>1. Resolved(r) = f[n]
  BY DEF Resolved, TurnsOf
<1>2. N \in Nat /\ Left(r) \in Nat /\ Left(r) < N
  BY LeftIs
<1> HIDE DEF N
<1>3. TurnsOf(r, N, f)
  BY <1>2, SomeTurns
<1> HIDE DEF f
<1>4. \A k \in 0..N : GoesOn(r, f[k]) /\ (Settles(f[k]) \/ Left(f[k]) + k <= Left(r))
  BY <1>2, <1>3, TurnsGoOn
<1>5. N \in 0..N /\ GoesOn(r, f[N]) /\ IsReplica(f[N])
  BY <1>2, <1>4 DEF GoesOn
<1>6. Left(f[N]) \in Nat
  BY <1>5, LeftIs
<1>7. Settles(f[N])
  BY <1>2, <1>4, <1>5, <1>6
<1>8. n \in 0..N /\ Settles(f[n])
  BY <1>5, <1>7
<1> HIDE DEF n
<1> QED BY <1>1, <1>4, <1>8

\* What is held back then is blocked.
LEMMA SettledIsBlocked ==
  ASSUME World, NEW r, IsReplica(r), Settles(r), ~r.spins, NEW n \in 1..Len(r.held)
  PROVE  BlockedIn(made, r.doc, r.held[n])
<1> DEFINE u == r.held[n]
           staged == Staged[r.doc][u]
<1>1. r.doc \in Documents /\ u \in Documents
  BY ElementOfSeq DEF IsReplica
<1>2. n \notin Moving(r)
  BY DEF Settles
<1>3. IsPending(staged, u) /\ ~IsEffective(r.doc, staged, u)
  BY <1>2 DEF Moving
<1>4. staged \in Documents /\ r.doc.items \subseteq staged.items
      /\ staged.items = Taken(made, r.doc.items, u.items)
      /\ (IsPending(staged, u) <=>
            ~(u.items \subseteq staged.items /\ r.doc.gone \cup u.gone \subseteq staged.items))
  BY <1>1, StagedIs
<1> HIDE DEF staged, u
<1>5. \A c \in Clients : Upto(staged.items, c) = Upto(r.doc.items, c)
  BY <1>1, <1>3, <1>4, IneffectiveReachesNoFurther
<1> QED BY <1>3, <1>4, <1>5 DEF BlockedIn, u

----------------------------------------------------------------------------
(* What a sequence of frames brings.                                        *)

\* A frame, a sequence of frames, brings one who has the first a items of d to b.
Carries(f, d, a, b) ==
  b <= a \/ (IsDocument(f) /\ \A n \in (a + 1)..b : <<d, n>> \in f.diff.items)
Delivers(F, d, a, b) ==
  \E r \in [0..Len(F) -> Nat] :
    r[0] = a /\ r[Len(F)] = b /\ \A n \in 1..Len(F) : Carries(F[n], d, r[n - 1], r[n])

LEMMA DeliversAny ==
  ASSUME NEW S, NEW F \in Seq(S), NEW d, NEW a \in Nat
  PROVE  Delivers(F, d, a, a)
<1> DEFINE r == [n \in 0..Len(F) |-> a]
<1>1. Len(F) \in Nat
  OBVIOUS
<1>2. r \in [0..Len(F) -> Nat] /\ r[0] = a /\ r[Len(F)] = a
  BY <1>1
<1>3. \A n \in 1..Len(F) : r[n - 1] = a /\ r[n] = a
  BY <1>1
<1>4. \A n \in 1..Len(F) : Carries(F[n], d, r[n - 1], r[n])
  BY <1>3 DEF Carries
<1> HIDE DEF r
<1> QED BY <1>2, <1>4 DEF Delivers

LEMMA DeliversNothing ==
  ASSUME NEW d, NEW a, NEW b, Delivers(<<>>, d, a, b)
  PROVE  a = b
<1>1. Len(<<>>) = 0
  BY EmptySeq
<1> QED BY <1>1 DEF Delivers

LEMMA DeliversNumbers ==
  ASSUME NEW S, NEW F \in Seq(S), NEW d, NEW a, NEW b, Delivers(F, d, a, b)
  PROVE  a \in Nat /\ b \in Nat
<1>1. Len(F) \in Nat
  OBVIOUS
<1>2. 0 \in 0..Len(F) /\ Len(F) \in 0..Len(F)
  BY <1>1
<1> QED BY <1>2 DEF Delivers

LEMMA DeliversMore ==
  ASSUME NEW S, NEW F \in Seq(S), NEW f \in S, NEW d, NEW a, NEW b, NEW e \in Nat,
         Delivers(F, d, a, b), Carries(f, d, b, e)
  PROVE  Delivers(Append(F, f), d, a, e)
<1> DEFINE L == Len(F)
           G == Append(F, f)
<1>1. L \in Nat /\ Len(G) = L + 1 /\ G[L + 1] = f /\ \A n \in 1..L : G[n] = F[n]
  BY AppendProperties
<1>2. PICK r \in [0..L -> Nat] :
        r[0] = a /\ r[L] = b /\ \A n \in 1..L : Carries(F[n], d, r[n - 1], r[n])
  BY DEF Delivers
<1> HIDE DEF L, G
<1> DEFINE q == [n \in 0..(L + 1) |-> IF n = L + 1 THEN e ELSE r[n]]
<1>3. \A n \in 0..L : n \in 0..(L + 1) /\ n # L + 1
  BY <1>1
<1>4. /\ q \in [0..(L + 1) -> Nat] /\ q[L + 1] = e
      /\ \A n \in 0..L : q[n] = r[n]
  <2>1. \A n \in 0..L : r[n] \in Nat
    BY <1>2
  <2>2. L + 1 \in 0..(L + 1)
    BY <1>1
  <2>3. \A n \in 0..(L + 1) : n = L + 1 \/ n \in 0..L
    BY <1>1
  <2>4. \A n \in 0..(L + 1) : (IF n = L + 1 THEN e ELSE r[n]) \in Nat
    BY <2>1, <2>3
  <2> QED BY <2>2, <2>4, <1>3
<1>5. q[0] = a /\ q[L] = b
  BY <1>1, <1>2, <1>4
<1> HIDE DEF q
<1>6. ASSUME NEW n \in 1..(L + 1) PROVE Carries(G[n], d, q[n - 1], q[n])
  <2>1. CASE n \in 1..L
    <3>1. n \in 0..L /\ n - 1 \in 0..L
      BY <2>1, <1>1
    <3> QED BY <3>1, <2>1, <1>1, <1>2, <1>4
  <2>2. CASE n = L + 1
    <3>1. n - 1 = L
      BY <2>2, <1>1
    <3> QED BY <3>1, <2>2, <1>1, <1>4, <1>5
  <2> QED BY <2>1, <2>2, <1>1
<1>7. Delivers(G, d, a, e)
  BY <1>1, <1>4, <1>5, <1>6 DEF Delivers
<1> QED BY <1>7 DEF G

LEMMA DeliversFirst ==
  ASSUME NEW S, NEW F \in Seq(S), F # <<>>, NEW d, NEW a, NEW b, Delivers(F, d, a, b)
  PROVE  \E e \in Nat : Carries(Head(F), d, a, e) /\ Delivers(Tail(F), d, e, b)
<1> DEFINE L == Len(F)
           G == Tail(F)
<1>1. L \in Nat /\ L > 0
  BY EmptySeq
<1>2. Len(G) = L - 1 /\ \A n \in 1..(L - 1) : G[n] = F[n + 1]
  BY HeadTailProperties
<1>3. Head(F) = F[1]
  BY <1>1
<1>4. PICK r \in [0..L -> Nat] :
        r[0] = a /\ r[L] = b /\ \A n \in 1..L : Carries(F[n], d, r[n - 1], r[n])
  BY DEF Delivers
<1> HIDE DEF L, G
<1> DEFINE q == [n \in 0..(L - 1) |-> r[n + 1]]
<1>5. \A n \in 0..(L - 1) : n + 1 \in 0..L
  BY <1>1
<1>6. /\ q \in [0..(L - 1) -> Nat]
      /\ \A n \in 0..(L - 1) : q[n] = r[n + 1]
  BY <1>4, <1>5
<1>7. q[0] = r[1] /\ q[L - 1] = b
  <2>1. 0 \in 0..(L - 1) /\ L - 1 \in 0..(L - 1) /\ 0 + 1 = 1 /\ (L - 1) + 1 = L
    BY <1>1
  <2> HIDE DEF q
  <2>2. q[0] = r[0 + 1] /\ q[L - 1] = r[(L - 1) + 1]
    BY <2>1, <1>6
  <2> QED BY <2>1, <2>2, <1>4
<1> HIDE DEF q
<1>8. ASSUME NEW n \in 1..(L - 1) PROVE Carries(G[n], d, q[n - 1], q[n])
  <2>1. n \in 0..(L - 1) /\ n - 1 \in 0..(L - 1) /\ n + 1 \in 1..L /\ (n + 1) - 1 = n /\ (n - 1) + 1 = n
    BY <1>1
  <2>2. q[n] = r[n + 1] /\ q[n - 1] = r[n]
    <3>1. q[n - 1] = r[(n - 1) + 1]
      BY <2>1, <1>6
    <3> QED BY <3>1, <2>1, <1>6
  <2>3. Carries(F[n + 1], d, r[(n + 1) - 1], r[n + 1])
    BY <2>1, <1>4
  <2> QED BY <2>1, <2>2, <2>3, <1>2
<1>9. Delivers(G, d, r[1], b)
  BY <1>2, <1>6, <1>7, <1>8 DEF Delivers
<1>10. Carries(F[1], d, a, r[1])
  <2>1. 1 \in 1..L /\ 1 - 1 = 0
    BY <1>1
  <2>2. Carries(F[1], d, r[1 - 1], r[1])
    BY <2>1, <1>4
  <2> QED BY <2>1, <2>2, <1>4
<1>11. r[1] \in Nat
  BY <1>1, <1>4
<1> QED BY <1>9, <1>10, <1>11, <1>3 DEF G

\* What goes on from the front of a queue onto the wire still arrives in turn.
LEMMA DeliversOn ==
  ASSUME NEW S, NEW F \in Seq(S), NEW Q \in Seq(S), NEW n \in 1..Len(Q),
         NEW d, NEW a, NEW b, NEW e, Delivers(F, d, a, b), Delivers(Q, d, b, e)
  PROVE  \E x \in Nat : /\ Delivers(F \o SubSeq(Q, 1, n), d, a, x)
                        /\ Delivers(SubSeq(Q, n + 1, Len(Q)), d, x, e)
<1> DEFINE L == Len(F)
           M == Len(Q)
           Q1 == SubSeq(Q, 1, n)
           Q2 == SubSeq(Q, n + 1, M)
           G == F \o Q1
<1>1. L \in Nat /\ M \in Nat /\ n \in Nat /\ n <= M /\ n >= 1
  OBVIOUS
<1>2. \A k \in 1..M : Q[k] \in S
  BY ElementOfSeq
<1>3. Q1 \in Seq(S) /\ Len(Q1) = n /\ \A k \in 1..n : Q1[k] = Q[k]
  <2>1. \A k \in 1..n : Q[k] \in S
    BY <1>1, <1>2
  <2>2. 1 \in Int /\ n \in Int
    BY <1>1
  <2>3. /\ SubSeq(Q, 1, n) \in Seq(S)
        /\ Len(SubSeq(Q, 1, n)) = IF 1 <= n THEN n - 1 + 1 ELSE 0
        /\ \A k \in 1..(n - 1 + 1) : SubSeq(Q, 1, n)[k] = Q[1 + k - 1]
    BY <2>1, <2>2, SubSeqProperties
  <2> QED BY <2>3, <1>1
<1>4. Q2 \in Seq(S) /\ Len(Q2) = M - n /\ \A k \in 1..(M - n) : Q2[k] = Q[n + k]
  <2>1. \A k \in (n + 1)..M : Q[k] \in S
    BY <1>1, <1>2
  <2>2. n + 1 \in Int /\ M \in Int
    BY <1>1
  <2>3. /\ SubSeq(Q, n + 1, M) \in Seq(S)
        /\ Len(SubSeq(Q, n + 1, M)) = IF n + 1 <= M THEN M - (n + 1) + 1 ELSE 0
        /\ \A k \in 1..(M - (n + 1) + 1) : SubSeq(Q, n + 1, M)[k] = Q[n + 1 + k - 1]
    BY <2>1, <2>2, SubSeqProperties
  <2> QED BY <2>3, <1>1
<1>5. PICK r \in [0..L -> Nat] :
        r[0] = a /\ r[L] = b /\ \A k \in 1..L : Carries(F[k], d, r[k - 1], r[k])
  BY DEF Delivers
<1>6. PICK q \in [0..M -> Nat] :
        q[0] = b /\ q[M] = e /\ \A k \in 1..M : Carries(Q[k], d, q[k - 1], q[k])
  BY DEF Delivers
<1> HIDE DEF Q1, Q2
<1>7. /\ Len(G) = L + n
      /\ \A k \in 1..(L + n) : G[k] = IF k <= L THEN F[k] ELSE Q1[k - L]
  BY <1>3, ConcatProperties
<1> HIDE DEF L, M, G
<1> DEFINE s == [k \in 0..(L + n) |-> IF k <= L THEN r[k] ELSE q[k - L]]
           t == [k \in 0..(M - n) |-> q[n + k]]
<1>8. /\ \A k \in 0..L : k \in 0..(L + n) /\ k <= L /\ r[k] \in Nat
      /\ \A k \in (L + 1)..(L + n) : k \in 0..(L + n) /\ ~(k <= L) /\ k - L \in 0..M
      /\ \A k \in 0..(L + n) : k \in 0..L \/ k \in (L + 1)..(L + n)
  BY <1>1, <1>5
<1>9. \A k \in 0..M : q[k] \in Nat
  BY <1>6
<1>10. /\ \A k \in 0..L : s[k] = r[k]
       /\ \A k \in (L + 1)..(L + n) : s[k] = q[k - L]
       /\ s \in [0..(L + n) -> Nat]
  <2>1. \A k \in 0..(L + n) : (IF k <= L THEN r[k] ELSE q[k - L]) \in Nat
    BY <1>8, <1>9
  <2>2. s \in [0..(L + n) -> Nat]
    BY <2>1
  <2> QED BY <2>2, <1>8
<1> HIDE DEF s
<1>11. s[0] = a /\ s[L] = b /\ s[L + n] = q[n]
  <2>1. 0 \in 0..L /\ L \in 0..L /\ L + n \in (L + 1)..(L + n) /\ (L + n) - L = n
    BY <1>1
  <2>2. s[0] = r[0] /\ s[L] = r[L] /\ s[L + n] = q[(L + n) - L]
    BY <2>1, <1>10
  <2> QED BY <2>1, <2>2, <1>5
<1>12. ASSUME NEW k \in 1..(L + n) PROVE Carries(G[k], d, s[k - 1], s[k])
  <2>1. CASE k <= L
    <3>1. k \in 1..L /\ k \in 0..L /\ k - 1 \in 0..L
      BY <2>1, <1>1
    <3>2. s[k] = r[k] /\ s[k - 1] = r[k - 1] /\ G[k] = F[k]
      BY <3>1, <2>1, <1>7, <1>10
    <3> QED BY <3>1, <3>2, <1>5
  <2>2. CASE ~(k <= L)
    <3>1. k \in (L + 1)..(L + n) /\ k - L \in 1..n /\ k - L \in 1..M
      BY <2>2, <1>1
    <3>2. s[k] = q[k - L] /\ G[k] = Q[k - L]
      BY <3>1, <2>2, <1>3, <1>7, <1>10
    <3>3. s[k - 1] = q[(k - L) - 1]
      <4>1. CASE k = L + 1
        <5>1. k - 1 = L /\ (k - L) - 1 = 0
          BY <4>1, <1>1
        <5> QED BY <5>1, <1>6, <1>11
      <4>2. CASE k # L + 1
        <5>1. k - 1 \in (L + 1)..(L + n) /\ (k - 1) - L = (k - L) - 1
          BY <4>2, <3>1, <1>1
        <5>2. s[k - 1] = q[(k - 1) - L]
          BY <5>1, <1>10
        <5> QED BY <5>1, <5>2
      <4> QED BY <4>1, <4>2
    <3> QED BY <3>1, <3>2, <3>3, <1>6
  <2> QED BY <2>1, <2>2
<1>13. Delivers(G, d, a, q[n])
  BY <1>7, <1>10, <1>11, <1>12 DEF Delivers
<1>14. /\ \A k \in 0..(M - n) : n + k \in 0..M /\ t[k] = q[n + k]
       /\ t \in [0..(M - n) -> Nat]
  BY <1>1, <1>9
<1> HIDE DEF t
<1>15. t[0] = q[n] /\ t[M - n] = e
  <2>1. 0 \in 0..(M - n) /\ M - n \in 0..(M - n) /\ n + 0 = n /\ n + (M - n) = M
    BY <1>1
  <2>2. t[0] = q[n + 0] /\ t[M - n] = q[n + (M - n)]
    BY <2>1, <1>14
  <2> QED BY <2>1, <2>2, <1>6
<1>16. ASSUME NEW k \in 1..(M - n) PROVE Carries(Q2[k], d, t[k - 1], t[k])
  <2>1. k \in 0..(M - n) /\ k - 1 \in 0..(M - n) /\ n + k \in 1..M /\ n + (k - 1) = (n + k) - 1
    BY <1>1
  <2>2. t[k] = q[n + k] /\ t[k - 1] = q[n + (k - 1)]
    BY <2>1, <1>14
  <2>3. Carries(Q[n + k], d, q[(n + k) - 1], q[n + k])
    BY <2>1, <1>6
  <2> QED BY <2>1, <2>2, <2>3, <1>4
<1>17. Delivers(Q2, d, q[n], e)
  BY <1>4, <1>14, <1>15, <1>16 DEF Delivers
<1>18. q[n] \in Nat
  BY <1>1, <1>9
<1> QED BY <1>13, <1>17, <1>18 DEF G, Q2, M, Q1

\* Who has items has d's, as soon as what is on its way has arrived: in its inbox,
\* on d's wire and in d's queue.
Promise(items, inbox, wire, waiting, d, total) ==
  \E a, b, e \in Nat : /\ Has(items, d, a) /\ Delivers(inbox, d, a, b)
                       /\ Delivers(wire, d, b, e) /\ Delivers(waiting, d, e, total)

LEMMA PromiseStays ==
  ASSUME NEW items, NEW more, items \subseteq more,
         NEW inbox, NEW wire, NEW waiting, NEW d, NEW total,
         Promise(items, inbox, wire, waiting, d, total)
  PROVE  Promise(more, inbox, wire, waiting, d, total)
<1>1. PICK a \in Nat, b \in Nat, e \in Nat :
        /\ Has(items, d, a) /\ Delivers(inbox, d, a, b)
        /\ Delivers(wire, d, b, e) /\ Delivers(waiting, d, e, total)
  BY DEF Promise
<1>2. Has(more, d, a)
  BY <1>1 DEF Has
<1> QED BY <1>1, <1>2 DEF Promise

\* d sends one more frame, onto the wire or into the queue.
LEMMA PromiseSent ==
  ASSUME NEW S, NEW items, NEW inbox \in Seq(S), NEW wire \in Seq(S),
         NEW d, NEW total, NEW f \in S, NEW more \in Nat, Carries(f, d, total, more),
         Promise(items, inbox, wire, <<>>, d, total)
  PROVE  Promise(items, inbox, Append(wire, f), <<>>, d, more)
<1>1. PICK a \in Nat, b \in Nat, e \in Nat :
        /\ Has(items, d, a) /\ Delivers(inbox, d, a, b)
        /\ Delivers(wire, d, b, e) /\ Delivers(<<>>, d, e, total)
  BY DEF Promise
<1>2. e = total
  BY <1>1, DeliversNothing
<1>3. Delivers(Append(wire, f), d, b, more)
  BY <1>1, <1>2, DeliversMore
<1>4. Delivers(<<>>, d, more, more)
  BY EmptySeq, DeliversAny
<1> QED BY <1>1, <1>3, <1>4 DEF Promise

LEMMA PromiseQueued ==
  ASSUME NEW S, NEW items, NEW inbox, NEW wire, NEW waiting \in Seq(S),
         NEW d, NEW total, NEW f \in S, NEW more \in Nat, Carries(f, d, total, more),
         Promise(items, inbox, wire, waiting, d, total)
  PROVE  Promise(items, inbox, wire, Append(waiting, f), d, more)
<1>1. PICK a \in Nat, b \in Nat, e \in Nat :
        /\ Has(items, d, a) /\ Delivers(inbox, d, a, b)
        /\ Delivers(wire, d, b, e) /\ Delivers(waiting, d, e, total)
  BY DEF Promise
<1>2. Delivers(Append(waiting, f), d, e, more)
  BY <1>1, DeliversMore
<1> QED BY <1>1, <1>2 DEF Promise

\* A frame that brings what is missing keeps the promise, wherever it goes.
LEMMA AnAnswerPromises ==
  ASSUME NEW S, NEW items, NEW inbox \in Seq(S), NEW wire \in Seq(S), NEW waiting \in Seq(S),
         NEW d, NEW f \in S, NEW a \in Nat, NEW total \in Nat,
         Has(items, d, a), Carries(f, d, a, total)
  PROVE  /\ Promise(items, inbox, Append(wire, f), <<>>, d, total)
         /\ Promise(items, inbox, wire, Append(waiting, f), d, total)
<1>1. Promise(items, inbox, wire, <<>>, d, a)
  <2>1. Delivers(inbox, d, a, a) /\ Delivers(wire, d, a, a) /\ Delivers(<<>>, d, a, a)
    BY EmptySeq, DeliversAny
  <2> QED BY <2>1 DEF Promise
<1>2. Promise(items, inbox, wire, waiting, d, a)
  <2>1. Delivers(inbox, d, a, a) /\ Delivers(wire, d, a, a) /\ Delivers(waiting, d, a, a)
    BY DeliversAny
  <2> QED BY <2>1 DEF Promise
<1>3. Promise(items, inbox, Append(wire, f), <<>>, d, total)
  BY <1>1, PromiseSent
<1>4. Promise(items, inbox, wire, Append(waiting, f), d, total)
  BY <1>2, PromiseQueued
<1> QED BY <1>3, <1>4

LEMMA PromiseRelayed ==
  ASSUME NEW S, NEW items, NEW inbox \in Seq(S), NEW wire \in Seq(S), wire # <<>>,
         NEW waiting, NEW d, NEW total,
         Promise(items, inbox, wire, waiting, d, total)
  PROVE  Promise(items, Append(inbox, Head(wire)), Tail(wire), waiting, d, total)
<1>1. PICK a \in Nat, b \in Nat, e \in Nat :
        /\ Has(items, d, a) /\ Delivers(inbox, d, a, b)
        /\ Delivers(wire, d, b, e) /\ Delivers(waiting, d, e, total)
  BY DEF Promise
<1>2. PICK x \in Nat : Carries(Head(wire), d, b, x) /\ Delivers(Tail(wire), d, x, e)
  BY <1>1, DeliversFirst
<1>3. Head(wire) \in S
  BY HeadTailProperties
<1>4. Delivers(Append(inbox, Head(wire)), d, a, x)
  BY <1>1, <1>2, <1>3, DeliversMore
<1> QED BY <1>1, <1>2, <1>4 DEF Promise

LEMMA PromiseDrained ==
  ASSUME NEW S, NEW items, NEW inbox, NEW wire \in Seq(S), NEW waiting \in Seq(S),
         NEW n \in 1..Len(waiting), NEW d, NEW total,
         Promise(items, inbox, wire, waiting, d, total)
  PROVE  Promise(items, inbox, wire \o SubSeq(waiting, 1, n),
                 SubSeq(waiting, n + 1, Len(waiting)), d, total)
<1>1. PICK a \in Nat, b \in Nat, e \in Nat :
        /\ Has(items, d, a) /\ Delivers(inbox, d, a, b)
        /\ Delivers(wire, d, b, e) /\ Delivers(waiting, d, e, total)
  BY DEF Promise
<1>2. PICK x \in Nat : /\ Delivers(wire \o SubSeq(waiting, 1, n), d, b, x)
                       /\ Delivers(SubSeq(waiting, n + 1, Len(waiting)), d, x, total)
  BY <1>1, DeliversOn
<1> QED BY <1>1, <1>2 DEF Promise

\* The first frame is read, by one who takes what it carries.
LEMMA PromiseRead ==
  ASSUME NEW S, NEW items, NEW more, NEW inbox \in Seq(S), inbox # <<>>,
         NEW wire, NEW waiting, NEW d, NEW total,
         \A a, x \in Nat : Has(items, d, a) /\ Carries(Head(inbox), d, a, x) => Has(more, d, x),
         Promise(items, inbox, wire, waiting, d, total)
  PROVE  Promise(more, Tail(inbox), wire, waiting, d, total)
<1>1. PICK a \in Nat, b \in Nat, e \in Nat :
        /\ Has(items, d, a) /\ Delivers(inbox, d, a, b)
        /\ Delivers(wire, d, b, e) /\ Delivers(waiting, d, e, total)
  BY DEF Promise
<1>2. PICK x \in Nat : Carries(Head(inbox), d, a, x) /\ Delivers(Tail(inbox), d, x, b)
  BY <1>1, DeliversFirst
<1>3. Has(more, d, x)
  BY <1>1, <1>2
<1> QED BY <1>1, <1>2, <1>3 DEF Promise

\* A promise of which nothing is on its way is kept.
LEMMA PromiseKept ==
  ASSUME NEW items, NEW d, NEW total, Promise(items, <<>>, <<>>, <<>>, d, total)
  PROVE  Has(items, d, total)
<1>1. PICK a \in Nat, b \in Nat, e \in Nat :
        /\ Has(items, d, a) /\ Delivers(<<>>, d, a, b)
        /\ Delivers(<<>>, d, b, e) /\ Delivers(<<>>, d, e, total)
  BY DEF Promise
<1>2. a = b /\ b = e /\ e = total
  BY <1>1, DeliversNothing
<1> QED BY <1>1, <1>2

----------------------------------------------------------------------------
(* The questions on their way.                                              *)

HasAsk(F) == \E n \in 1..Len(F) : ~IsDocument(F[n])
\* Nobody has asked for less of d's items than they have.
AskBound(F, d, items) == \A n \in 1..Len(F) : ~IsDocument(F[n]) => F[n].vector[d] <= Upto(items, d)

LEMMA AsksAppended ==
  ASSUME NEW S, NEW F \in Seq(S), NEW f \in S
  PROVE  /\ HasAsk(Append(F, f)) <=> HasAsk(F) \/ ~IsDocument(f)
         /\ \A d, items : AskBound(Append(F, f), d, items) <=>
              AskBound(F, d, items) /\ (~IsDocument(f) => f.vector[d] <= Upto(items, d))
<1> DEFINE G == Append(F, f)
           L == Len(F)
<1>1. L \in Nat /\ Len(G) = L + 1 /\ G[L + 1] = f /\ \A n \in 1..L : G[n] = F[n]
  BY AppendProperties
<1> HIDE DEF G, L
<1>2. \A n \in 1..(L + 1) : n \in 1..L \/ n = L + 1
  BY <1>1
<1>3. L + 1 \in 1..(L + 1) /\ 1..L \subseteq 1..(L + 1)
  BY <1>1
<1>4. HasAsk(G) <=> HasAsk(F) \/ ~IsDocument(f)
  BY <1>1, <1>2, <1>3 DEF HasAsk, L
<1>5. ASSUME NEW d, NEW items
      PROVE  AskBound(G, d, items) <=>
               AskBound(F, d, items) /\ (~IsDocument(f) => f.vector[d] <= Upto(items, d))
  BY <1>1, <1>2, <1>3 DEF AskBound, L
<1> QED BY <1>4, <1>5 DEF G

LEMMA AsksRead ==
  ASSUME NEW S, NEW F \in Seq(S), F # <<>>
  PROVE  /\ HasAsk(F) <=> HasAsk(Tail(F)) \/ ~IsDocument(Head(F))
         /\ \A d, items : AskBound(F, d, items) <=>
              /\ AskBound(Tail(F), d, items)
              /\ ~IsDocument(Head(F)) => Head(F).vector[d] <= Upto(items, d)
<1> DEFINE G == Tail(F)
           L == Len(F)
           h == Head(F)
<1>1. L \in Nat \ {0} /\ Len(G) = L - 1 /\ h = F[1] /\ \A n \in 1..(L - 1) : G[n] = F[n + 1]
  BY HeadTailProperties, EmptySeq
<1> HIDE DEF G, L, h
<1>2. \A n \in 1..L : n = 1 \/ (n - 1 \in 1..(L - 1) /\ G[n - 1] = F[n])
  <2> SUFFICES ASSUME NEW n \in 1..L, n # 1 PROVE n - 1 \in 1..(L - 1) /\ G[n - 1] = F[n]
    OBVIOUS
  <2>1. n - 1 \in 1..(L - 1) /\ (n - 1) + 1 = n
    BY <1>1
  <2>2. G[n - 1] = F[(n - 1) + 1]
    BY <2>1, <1>1
  <2> QED BY <2>1, <2>2
<1>3. 1 \in 1..L /\ \A n \in 1..(L - 1) : n + 1 \in 1..L
  BY <1>1
<1>4. HasAsk(F) <=> HasAsk(G) \/ ~IsDocument(h)
  BY <1>1, <1>2, <1>3 DEF HasAsk, L
<1>5. ASSUME NEW d, NEW items
      PROVE  AskBound(F, d, items) <=>
               AskBound(G, d, items) /\ (~IsDocument(h) => h.vector[d] <= Upto(items, d))
  BY <1>1, <1>2, <1>3 DEF AskBound, L
<1> QED BY <1>4, <1>5 DEF G, h

LEMMA AsksConcatenated ==
  ASSUME NEW S, NEW F \in Seq(S), NEW G \in Seq(S)
  PROVE  /\ HasAsk(F) => HasAsk(F \o G)
         /\ \A d, items : AskBound(F, d, items) /\ AskBound(G, d, items) => AskBound(F \o G, d, items)
<1> DEFINE H == F \o G
           L == Len(F)
           M == Len(G)
<1>1. L \in Nat /\ M \in Nat /\ Len(H) = L + M
      /\ \A n \in 1..(L + M) : H[n] = IF n <= L THEN F[n] ELSE G[n - L]
  BY ConcatProperties
<1> HIDE DEF H, L, M
<1>2. /\ \A n \in 1..L : n \in 1..(L + M) /\ H[n] = F[n]
      /\ \A n \in 1..(L + M) : n \in 1..L \/ (n - L \in 1..M /\ H[n] = G[n - L])
  BY <1>1
<1>3. HasAsk(F) => HasAsk(H)
  BY <1>1, <1>2 DEF HasAsk, L
<1>4. ASSUME NEW d, NEW items, AskBound(F, d, items), AskBound(G, d, items)
      PROVE  AskBound(H, d, items)
  BY <1>1, <1>2, <1>4 DEF AskBound, L, M
<1> QED BY <1>3, <1>4 DEF H

----------------------------------------------------------------------------
(* The invariant.                                                           *)

Papers == [kind : {"step2", "update"}, diff : Documents]
Frames == Papers \cup [kind : {"step1"}, vector : Vectors]
Links  == {"off", "opening", "accepted", "open"}

\* What there is, and what was done.
WorldInv == /\ Library(made) /\ connects \in Nat
            /\ Cardinality(Items) + connects <= MaxInputs

\* A client has what it made; what it holds back it could not take.
ReplicaTypes ==
  /\ doc \in [Clients -> Documents] /\ held \in [Clients -> Seq(Documents)]
  /\ spins \in [Clients -> BOOLEAN]
  /\ \A c \in Clients : MadeBy(c, made) \subseteq doc[c].items
HeldInv ==
  \A c \in Clients : ~spins[c] =>
    \A n \in 1..Len(held[c]) : BlockedIn(made, doc[c], held[c][n])

NetTypes ==
  /\ link \in [Clients -> Links] /\ seniors \in [Clients -> SUBSET Clients]
  /\ queue \in [Clients -> Seq(Papers)]
  /\ toRelay \in [Clients -> Seq(Frames)] /\ toClient \in [Clients -> Seq(Frames)]
  /\ log \in Seq(Papers)

\* A question asks for no less than its author lacks, before and after the relay.
AsksAreOld ==
  \A c, d \in Clients : c # d => /\ AskBound(toRelay[c], d, doc[c].items)
                                 /\ AskBound(toClient[d], d, doc[c].items)

\* Who opened when another was there still asks it, or is about to have its items.
WillHave(c, d) ==
  \/ HasAsk(toRelay[c]) \/ HasAsk(toClient[d])
  \/ Promise(doc[c].items, toClient[c], toRelay[d], queue[d], d, Count(d, made))
SeniorsAnswer ==
  \A c \in Clients : \A d \in seniors[c] :
    c # d /\ link[c] = "open" /\ link[d] = "open" /\ WillHave(c, d)

NetInv == NetTypes /\ AsksAreOld /\ SeniorsAnswer
Inv == WorldInv /\ ReplicaTypes /\ HeldInv /\ NetInv

LEMMA WorldIs ==
  ASSUME WorldInv
  PROVE  World /\ Cardinality(Items) \in Nat
<1>1. Cardinality(Items) \in Nat
  BY FS_CardinalityType DEF WorldInv, Library, Items
<1> QED BY <1>1, BoundsAssumption DEF WorldInv, World

LEMMA CountIs ==
  ASSUME WorldInv, NEW d \in Clients
  PROVE  /\ Count(d, made) \in Nat /\ IsFiniteSet(MadeBy(d, made))
         /\ Has(Items, d, Count(d, made))
         /\ \A i \in MadeBy(d, made) : i = <<d, i[2]>> /\ i[2] \in 1..Count(d, made)
<1>1. MadeBy(d, made) \in SUBSET Items /\ IsFiniteSet(Items) /\ Items \subseteq Numbered
  BY DEF MadeBy, Items, WorldInv, Library, Founded
<1>2. IsFiniteSet(MadeBy(d, made)) /\ Count(d, made) \in Nat
  BY <1>1, FS_Subset, FS_CardinalityType DEF Count
<1>3. ASSUME NEW i \in MadeBy(d, made) PROVE i = <<d, i[2]>> /\ i[2] \in 1..Count(d, made)
  <2>1. i \in Numbered /\ i[1] = d
    BY <1>1 DEF MadeBy
  <2>2. i[2] <= Count(d, made)
    BY DEF WorldInv, Library, Consecutive
  <2> QED BY <2>1, <2>2, <1>2 DEF Numbered
<1> QED BY <1>2, <1>3 DEF WorldInv, Library, Consecutive, Items

\* The items a client made, in its document.
LEMMA OwnItems ==
  ASSUME WorldInv, ReplicaTypes, NEW c \in Clients
  PROVE  /\ doc[c] \in Documents /\ doc[c].items \in SUBSET Items /\ doc[c].gone \in SUBSET Items
         /\ FiniteItems(doc[c].items) /\ Has(doc[c].items, c, Count(c, made))
         /\ \A d \in Clients : c # d => {i \in Items : i[1] # d} \subseteq doc[c].items
<1>1. doc[c] \in Documents /\ doc[c].items \in SUBSET Items /\ doc[c].gone \in SUBSET Items
  BY DEF ReplicaTypes, Documents
<1>2. FiniteItems(doc[c].items)
  BY <1>1, WorldIs, DocumentsAreFinite
<1>3. Has(doc[c].items, c, Count(c, made))
  <2>1. \A m \in 1..Count(c, made) : <<c, m>> \in MadeBy(c, made)
    BY CountIs DEF Has, MadeBy, Items
  <2> QED BY <2>1 DEF Has, ReplicaTypes
<1>4. ASSUME NEW d \in Clients, c # d, NEW i \in Items, i[1] # d PROVE i \in doc[c].items
  <2>1. i[1] \in Clients
    BY DEF WorldInv, Library, Founded, Numbered, Items
  <2>2. i[1] = c
    BY <2>1, <1>4, TwoClients
  <2> QED BY <2>2 DEF MadeBy, ReplicaTypes, Items
<1> QED BY <1>1, <1>2, <1>3, <1>4

\* Frames stay frames when there is more.
LEMMA FramesStay ==
  ASSUME Items \subseteq Items'
  PROVE  /\ Documents \subseteq Documents' /\ Papers \subseteq Papers' /\ Frames \subseteq Frames'
         /\ Papers \subseteq Frames
         /\ Seq(Papers) \subseteq Seq(Papers') /\ Seq(Frames) \subseteq Seq(Frames')
         /\ Seq(Documents) \subseteq Seq(Documents')
<1>1. Documents \subseteq Documents'
  BY DEF Documents
<1>2. Papers \subseteq Papers' /\ Papers \subseteq Frames
  BY <1>1 DEF Papers, Frames
<1>3. Frames \subseteq Frames'
  BY <1>2 DEF Frames, Vectors
<1> QED BY <1>1, <1>2, <1>3, SeqMonotonic

LEMMA KindsOfFrames ==
  /\ \A f \in Papers : IsDocument(f) /\ f.diff \in Documents
  /\ \A f \in Frames : /\ IsDocument(f) <=> f \in Papers
                       /\ ~IsDocument(f) => f.kind = "step1" /\ f.vector \in Vectors
  BY DEF Papers, Frames, IsDocument

LEMMA PapersAskNothing ==
  ASSUME NEW F \in Seq(Papers)
  PROVE  F \in Seq(Frames) /\ ~HasAsk(F) /\ \A d, items : AskBound(F, d, items)
<1>1. \A n \in 1..Len(F) : IsDocument(F[n])
  BY ElementOfSeq, KindsOfFrames
<1>2. F \in Seq(Frames)
  BY SeqMonotonic DEF Frames
<1> QED BY <1>1, <1>2 DEF HasAsk, AskBound

LEMMA InitInv == Init => Inv
<1> SUFFICES ASSUME Init PROVE Inv
  OBVIOUS
<1>1. made = <<>> /\ Items = {} /\ DOMAIN made = {}
  BY EmptySeq DEF Init, Items
<1>2. IsFiniteSet({}) /\ Cardinality({}) = 0
  BY FS_EmptySet
<1>3. WorldInv
  <2>1. Founded(made)
    BY <1>1 DEF Founded
  <2>2. Ranked(made)
    <3>1. [i \in {} |-> 0] \in [{} -> 1..Cardinality({})]
      OBVIOUS
    <3> QED BY <3>1, <1>1 DEF Ranked
  <2>3. \A c \in Clients : MadeBy(c, made) = {}
    BY <1>1 DEF MadeBy
  <2>4. Consecutive(made)
    BY <1>1, <1>2, <2>3 DEF Consecutive, Count, Has
  <2> QED BY <1>1, <1>2, <2>1, <2>2, <2>4, BoundsAssumption DEF WorldInv, Library, Init
<1>4. ReplicaTypes /\ HeldInv
  <2>1. Document({}, {}) \in Documents
    BY DEF Document, Documents
  <2>2. \A S : <<>> \in Seq(S)
    BY EmptySeq
  <2>3. Len(<<>>) = 0
    BY EmptySeq
  <2> QED BY <2>1, <2>2, <2>3, <1>1 DEF ReplicaTypes, HeldInv, MadeBy, Init
<1>5. NetInv
  <2>1. \A S : <<>> \in Seq(S)
    BY EmptySeq
  <2>2. Len(<<>>) = 0
    BY EmptySeq
  <2>3. NetTypes
    BY <2>1 DEF NetTypes, Links, Init
  <2>4. AsksAreOld
    BY <2>2 DEF AsksAreOld, AskBound, Init
  <2>5. SeniorsAnswer
    BY DEF SeniorsAnswer, Init
  <2> QED BY <2>3, <2>4, <2>5 DEF NetInv
<1> QED BY <1>3, <1>4, <1>5 DEF Inv

----------------------------------------------------------------------------
(* Steps that leave the replicas alone.                                     *)

LEMMA ReplicasStay ==
  ASSUME WorldInv, ReplicaTypes, HeldInv, UNCHANGED <<made, replica>>
  PROVE  /\ ReplicaTypes' /\ HeldInv' /\ Items' = Items
         /\ Documents' = Documents /\ Papers' = Papers /\ Frames' = Frames
         /\ \A c \in Clients : doc'[c].items = doc[c].items /\ Count(c, made') = Count(c, made)
         /\ connects' = connects => WorldInv'
         /\ MayGoOn /\ connects' = connects + 1 => WorldInv'
<1>1. made' = made /\ doc' = doc /\ held' = held /\ spins' = spins
  BY DEF replica
<1>2. Items' = Items
  BY <1>1 DEF Items
<1>3. Documents' = Documents
  BY <1>2 DEF Documents
<1>4. Papers' = Papers /\ Frames' = Frames
  BY <1>3 DEF Papers, Frames, Vectors
<1>5. ReplicaTypes'
  BY <1>1, <1>3 DEF ReplicaTypes
<1>6. HeldInv'
  BY <1>1 DEF HeldInv
<1>7. connects' = connects => WorldInv'
  BY <1>1, <1>2 DEF WorldInv
<1>8. ASSUME MayGoOn, connects' = connects + 1 PROVE WorldInv'
  <2>1. connects \in Nat /\ Cardinality(Items) \in Nat
    BY WorldIs DEF WorldInv
  <2>2. Cardinality(Items') + connects' <= MaxInputs /\ connects' \in Nat
    BY <2>1, <1>2, <1>8, BoundsAssumption DEF MayGoOn
  <2> QED BY <1>1, <2>2 DEF WorldInv
<1> QED BY <1>1, <1>2, <1>3, <1>4, <1>5, <1>6, <1>7, <1>8

\* How the documents and the library go on.
Grown == /\ Items \subseteq Items'
         /\ \A c \in Clients : doc[c].items \subseteq doc'[c].items
         /\ WorldInv /\ WorldInv' /\ ReplicaTypes /\ ReplicaTypes'

LEMMA AskBoundGrows ==
  ASSUME Grown, NEW c \in Clients, NEW d \in Clients, NEW F, AskBound(F, d, doc[c].items),
         F \in Seq(Frames)
  PROVE  AskBound(F, d, doc'[c].items)
<1>1. FiniteItems(doc[c].items) /\ FiniteItems(doc'[c].items)
  <2>1. FiniteItems(doc[c].items)
    BY OwnItems DEF Grown
  <2>2. doc'[c].items \in SUBSET Items'
    BY DEF Grown, ReplicaTypes, Documents
  <2>3. Items' \subseteq Numbered /\ IsFiniteSet(Items')
    BY DEF Grown, WorldInv, Library, Founded, Items
  <2>4. FiniteItems(doc'[c].items)
    BY <2>2, <2>3, FS_Subset DEF FiniteItems
  <2> QED BY <2>1, <2>4
<1>2. Upto(doc[c].items, d) <= Upto(doc'[c].items, d)
  BY <1>1, UptoGrows DEF Grown
<1>3. Upto(doc[c].items, d) \in Int /\ Upto(doc'[c].items, d) \in Int
  BY <1>1, UptoIs
<1> SUFFICES ASSUME NEW n \in 1..Len(F), ~IsDocument(F[n])
             PROVE  F[n].vector[d] <= Upto(doc'[c].items, d)
  BY DEF AskBound
<1>4. F[n].vector[d] <= Upto(doc[c].items, d)
  BY DEF AskBound
<1>5. F[n].vector \in Vectors
  BY ElementOfSeq, KindsOfFrames
<1>6. F[n].vector[d] \in Int
  BY <1>5 DEF Vectors
<1> HIDE DEF AskBound
<1> QED BY <1>2, <1>3, <1>4, <1>6

\* A socket that is gone takes everything of its client with it; of two clients
\* nobody is left that waits for the other.
LEMMA QuitKeeps ==
  ASSUME NetInv, Grown, NEW c \in Clients, NEW state \in Links, SocketGone(c, state), log' = log
  PROVE  NetInv'
<1>0. Seq(Papers) \subseteq Seq(Papers') /\ Seq(Frames) \subseteq Seq(Frames')
  BY FramesStay DEF Grown
<1>1. /\ link' = [link EXCEPT ![c] = state] /\ queue' = [queue EXCEPT ![c] = <<>>]
      /\ toRelay' = [toRelay EXCEPT ![c] = <<>>] /\ toClient' = [toClient EXCEPT ![c] = <<>>]
      /\ seniors' = [d \in Clients |-> IF d = c THEN {} ELSE seniors[d] \ {c}]
  BY DEF SocketGone
<1>2. NetTypes
  BY DEF NetInv
<1>3. NetTypes'
  <2>1. <<>> \in Seq(Papers') /\ <<>> \in Seq(Frames')
    BY EmptySeq
  <2> QED BY <2>1, <1>0, <1>1, <1>2 DEF NetTypes
<1>4. AsksAreOld'
  <2> SUFFICES ASSUME NEW x \in Clients, NEW y \in Clients, x # y
               PROVE  AskBound(toRelay'[x], y, doc'[x].items) /\ AskBound(toClient'[y], y, doc'[x].items)
    BY DEF AsksAreOld
  <2>1. toRelay'[x] \in {<<>>, toRelay[x]} /\ toClient'[y] \in {<<>>, toClient[y]}
    BY <1>1, <1>2 DEF NetTypes
  <2>2. \A items : AskBound(<<>>, y, items)
    BY EmptySeq DEF AskBound
  <2>3. toRelay[x] \in Seq(Frames) /\ toClient[y] \in Seq(Frames)
    BY <1>2 DEF NetTypes
  <2>4. AskBound(toRelay[x], y, doc[x].items) /\ AskBound(toClient[y], y, doc[x].items)
    BY DEF NetInv, AsksAreOld
  <2>5. AskBound(toRelay[x], y, doc'[x].items) /\ AskBound(toClient[y], y, doc'[x].items)
    BY <2>3, <2>4, AskBoundGrows
  <2> QED BY <2>1, <2>2, <2>5
<1>5. SeniorsAnswer'
  <2> SUFFICES ASSUME NEW x \in Clients, NEW y \in seniors'[x] PROVE FALSE
    BY DEF SeniorsAnswer
  <2>1. x # c /\ y \in seniors[x] /\ y # c
    BY <1>1
  <2>2. x # y /\ y \in Clients
    BY <2>1, <1>2 DEF NetInv, SeniorsAnswer, NetTypes
  <2> QED BY <2>1, <2>2, TwoClients
<1> QED BY <1>3, <1>4, <1>5 DEF NetInv

LEMMA StaysGrown ==
  ASSUME WorldInv, WorldInv', ReplicaTypes, HeldInv, UNCHANGED <<made, replica>>
  PROVE  Grown
BY ReplicasStay DEF Grown

LEMMA LostStep ==
  ASSUME Inv, NEW c \in Clients, ConnectionLost(c) \/ Disconnect(c)
  PROVE  Inv'
<1>1. WorldInv /\ ReplicaTypes /\ HeldInv /\ NetInv
  BY DEF Inv
<1>2. UNCHANGED <<made, replica>> /\ log' = log
  BY DEF ConnectionLost, Disconnect
<1>3. (MayGoOn /\ connects' = connects + 1) \/ connects' = connects
  BY DEF ConnectionLost, Disconnect
<1>4. ReplicaTypes' /\ HeldInv' /\ WorldInv'
  BY <1>1, <1>2, <1>3, ReplicasStay
<1>5. SocketGone(c, "opening") \/ SocketGone(c, "off")
  BY DEF ConnectionLost, Disconnect, Fails
<1>6. Grown
  BY <1>1, <1>2, <1>4, StaysGrown
<1>7. "opening" \in Links /\ "off" \in Links
  BY DEF Links
<1>8. NetInv'
  BY <1>1, <1>2, <1>5, <1>6, <1>7, QuitKeeps
<1> QED BY <1>4, <1>8 DEF Inv

LEMMA ConnectStep ==
  ASSUME Inv, NEW c \in Clients, Connect(c)
  PROVE  Inv'
<1>1. WorldInv /\ ReplicaTypes /\ HeldInv /\ NetInv
  BY DEF Inv
<1>2. /\ UNCHANGED <<made, replica>> /\ UNCHANGED <<queue, toRelay, toClient, log, seniors>>
      /\ MayGoOn /\ connects' = connects + 1
      /\ link[c] = "off" /\ link' = [link EXCEPT ![c] = "opening"]
  BY DEF Connect, sockets
<1>3. ReplicaTypes' /\ HeldInv' /\ WorldInv' /\ Papers' = Papers /\ Frames' = Frames
      /\ \A d \in Clients : doc'[d].items = doc[d].items /\ Count(d, made') = Count(d, made)
  BY <1>1, <1>2, ReplicasStay
<1>4. NetTypes'
  BY <1>1, <1>2, <1>3 DEF NetInv, NetTypes, Links
<1>5. AsksAreOld'
  BY <1>1, <1>2, <1>3 DEF NetInv, AsksAreOld
<1>6. SeniorsAnswer'
  <2> SUFFICES ASSUME NEW x \in Clients, NEW y \in seniors'[x]
               PROVE  x # y /\ link'[x] = "open" /\ link'[y] = "open" /\ WillHave(x, y)'
    BY DEF SeniorsAnswer
  <2>1. y \in seniors[x] /\ y \in Clients
    BY <1>1, <1>2 DEF NetInv, NetTypes
  <2>2. x # y /\ link[x] = "open" /\ link[y] = "open" /\ WillHave(x, y)
    BY <1>1, <2>1 DEF NetInv, SeniorsAnswer
  <2>3. link'[x] = "open" /\ link'[y] = "open"
    BY <1>1, <1>2, <2>1, <2>2 DEF NetInv, NetTypes
  <2>4. WillHave(x, y)'
    BY <1>2, <1>3, <2>1, <2>2 DEF WillHave
  <2> QED BY <2>2, <2>3, <2>4
<1> QED BY <1>3, <1>4, <1>5, <1>6 DEF Inv, NetInv

\* The frames of the log ask nothing.
LEMMA AcceptStep ==
  ASSUME Inv, NEW c \in Clients, Accept(c)
  PROVE  Inv'
<1>1. WorldInv /\ ReplicaTypes /\ HeldInv /\ NetInv /\ NetTypes
  BY DEF Inv, NetInv
<1>2. /\ UNCHANGED <<made, replica>> /\ UNCHANGED <<queue, toRelay, log, seniors, connects>>
      /\ link[c] = "opening" /\ link' = [link EXCEPT ![c] = "accepted"]
      /\ toClient' = [toClient EXCEPT ![c] = log]
  BY DEF Accept
<1>3. ReplicaTypes' /\ HeldInv' /\ WorldInv' /\ Papers' = Papers /\ Frames' = Frames
      /\ \A d \in Clients : doc'[d].items = doc[d].items /\ Count(d, made') = Count(d, made)
  BY <1>1, <1>2, ReplicasStay
<1>4. log \in Seq(Frames) /\ \A d, items : AskBound(log, d, items)
  BY <1>1, PapersAskNothing DEF NetTypes
<1>5. NetTypes'
  BY <1>1, <1>2, <1>3, <1>4 DEF NetTypes, Links
<1>6. AsksAreOld'
  <2> SUFFICES ASSUME NEW x \in Clients, NEW y \in Clients, x # y
               PROVE  AskBound(toRelay'[x], y, doc'[x].items) /\ AskBound(toClient'[y], y, doc'[x].items)
    BY DEF AsksAreOld
  <2>1. AskBound(toRelay[x], y, doc[x].items) /\ AskBound(toClient[y], y, doc[x].items)
    BY <1>1 DEF NetInv, AsksAreOld
  <2>2. toClient'[y] \in {log, toClient[y]}
    BY <1>1, <1>2 DEF NetTypes
  <2> QED BY <2>1, <2>2, <1>2, <1>3, <1>4
<1>7. SeniorsAnswer'
  <2> SUFFICES ASSUME NEW x \in Clients, NEW y \in seniors'[x]
               PROVE  x # y /\ link'[x] = "open" /\ link'[y] = "open" /\ WillHave(x, y)'
    BY DEF SeniorsAnswer
  <2>1. y \in seniors[x] /\ y \in Clients
    BY <1>1, <1>2 DEF NetTypes
  <2>2. x # y /\ link[x] = "open" /\ link[y] = "open" /\ WillHave(x, y)
    BY <1>1, <2>1 DEF NetInv, SeniorsAnswer
  <2>3. link'[x] = "open" /\ link'[y] = "open" /\ x # c /\ y # c
    BY <1>1, <1>2, <2>1, <2>2 DEF NetTypes
  <2>4. toClient'[x] = toClient[x] /\ toClient'[y] = toClient[y]
    BY <1>1, <1>2, <2>1, <2>3 DEF NetTypes
  <2>5. WillHave(x, y)'
    BY <1>2, <1>3, <2>1, <2>2, <2>4 DEF WillHave
  <2> QED BY <2>2, <2>3, <2>5
<1> QED BY <1>3, <1>5, <1>6, <1>7 DEF Inv, NetInv

\* Who opens asks.
LEMMA OpenedStep ==
  ASSUME Inv, NEW c \in Clients, Opened(c)
  PROVE  Inv'
<1>1. WorldInv /\ ReplicaTypes /\ HeldInv /\ NetInv /\ NetTypes
  BY DEF Inv, NetInv
<1> DEFINE ask == Step1(Vector[doc[c]])
<1>2. /\ UNCHANGED <<made, replica>> /\ UNCHANGED <<queue, toClient, log, connects>>
      /\ link[c] = "accepted" /\ link' = [link EXCEPT ![c] = "open"]
      /\ toRelay' = [toRelay EXCEPT ![c] = Append(@, ask)]
      /\ seniors' = [seniors EXCEPT ![c] = {d \in Clients : link[d] = "open"}]
  BY DEF Opened
<1>3. ReplicaTypes' /\ HeldInv' /\ WorldInv' /\ Papers' = Papers /\ Frames' = Frames
      /\ \A d \in Clients : doc'[d].items = doc[d].items /\ Count(d, made') = Count(d, made)
  BY <1>1, <1>2, ReplicasStay
<1>4. Vector[doc[c]] \in Vectors /\ \A d \in Clients : Vector[doc[c]][d] = Upto(doc[c].items, d)
  BY <1>1, WorldIs, OwnItems, VectorIs
<1>5. ask \in Frames /\ ~IsDocument(ask) /\ ask.vector = Vector[doc[c]]
  BY <1>4 DEF Frames, Step1, IsDocument
<1> HIDE DEF ask
<1>6. toRelay[c] \in Seq(Frames)
  BY <1>1 DEF NetTypes
<1>7. /\ Append(toRelay[c], ask) \in Seq(Frames) /\ HasAsk(Append(toRelay[c], ask))
      /\ \A d, items : AskBound(Append(toRelay[c], ask), d, items) <=>
           AskBound(toRelay[c], d, items) /\ ask.vector[d] <= Upto(items, d)
  BY <1>5, <1>6, AppendProperties, AsksAppended
<1>8. NetTypes'
  BY <1>1, <1>2, <1>3, <1>7 DEF NetTypes, Links
<1>9. AsksAreOld'
  <2> SUFFICES ASSUME NEW x \in Clients, NEW y \in Clients, x # y
               PROVE  AskBound(toRelay'[x], y, doc'[x].items) /\ AskBound(toClient'[y], y, doc'[x].items)
    BY DEF AsksAreOld
  <2>1. AskBound(toRelay[x], y, doc[x].items) /\ AskBound(toClient[y], y, doc[x].items)
    BY <1>1 DEF NetInv, AsksAreOld
  <2>2. CASE x = c
    <3>1. toRelay'[x] = Append(toRelay[c], ask)
      BY <2>2, <1>1, <1>2 DEF NetTypes
    <3>2. FiniteItems(doc[c].items)
      BY <1>1, OwnItems
    <3>3. Upto(doc[c].items, y) \in Int
      BY <3>2, UptoIs
    <3>4. ask.vector[y] <= Upto(doc[c].items, y)
      BY <3>3, <1>4, <1>5
    <3> QED BY <3>1, <3>4, <2>1, <2>2, <1>2, <1>3, <1>7
  <2>3. CASE x # c
    BY <2>1, <2>3, <1>1, <1>2, <1>3 DEF NetTypes
  <2> QED BY <2>2, <2>3
<1>10. SeniorsAnswer'
  <2> SUFFICES ASSUME NEW x \in Clients, NEW y \in seniors'[x]
               PROVE  x # y /\ link'[x] = "open" /\ link'[y] = "open" /\ WillHave(x, y)'
    BY DEF SeniorsAnswer
  <2>1. CASE x = c
    <3>1. y \in Clients /\ link[y] = "open" /\ y # c
      BY <2>1, <1>1, <1>2 DEF NetTypes
    <3>2. link'[x] = "open" /\ link'[y] = "open"
      BY <3>1, <2>1, <1>1, <1>2 DEF NetTypes
    <3>3. toRelay'[x] = Append(toRelay[c], ask)
      BY <2>1, <1>1, <1>2 DEF NetTypes
    <3>4. WillHave(x, y)'
      BY <3>3, <1>7 DEF WillHave
    <3> QED BY <3>1, <3>2, <3>4, <2>1
  <2>2. CASE x # c
    <3>1. y \in seniors[x] /\ y \in Clients
      BY <2>2, <1>1, <1>2 DEF NetTypes
    <3>2. x # y /\ link[x] = "open" /\ link[y] = "open" /\ WillHave(x, y)
      BY <1>1, <3>1 DEF NetInv, SeniorsAnswer
    <3>3. link'[x] = "open" /\ link'[y] = "open" /\ y # c
      BY <1>1, <1>2, <3>1, <3>2 DEF NetTypes
    <3>4. toRelay'[x] = toRelay[x] /\ toRelay'[y] = toRelay[y]
      BY <1>1, <1>2, <3>1, <3>3, <2>2 DEF NetTypes
    <3>5. WillHave(x, y)'
      BY <1>2, <1>3, <3>1, <3>2, <3>4 DEF WillHave
    <3> QED BY <3>2, <3>3, <3>5
  <2> QED BY <2>1, <2>2
<1> QED BY <1>3, <1>8, <1>9, <1>10 DEF Inv, NetInv

LEMMA DrainStep ==
  ASSUME Inv, NEW c \in Clients, Drain(c)
  PROVE  Inv'
<1>1. WorldInv /\ ReplicaTypes /\ HeldInv /\ NetInv /\ NetTypes
  BY DEF Inv, NetInv
<1>2. PICK n \in 1..Len(queue[c]) :
        /\ toRelay' = [toRelay EXCEPT ![c] = @ \o SubSeq(queue[c], 1, n)]
        /\ queue' = [queue EXCEPT ![c] = SubSeq(@, n + 1, Len(@))]
  BY DEF Drain
<1>3. UNCHANGED <<made, replica>> /\ UNCHANGED <<link, toClient, log, seniors, connects>>
  BY DEF Drain
<1> DEFINE Q == queue[c]
           front == SubSeq(Q, 1, n)
           rest == SubSeq(Q, n + 1, Len(Q))
<1>4. ReplicaTypes' /\ HeldInv' /\ WorldInv' /\ Papers' = Papers /\ Frames' = Frames
      /\ \A d \in Clients : doc'[d].items = doc[d].items /\ Count(d, made') = Count(d, made)
  BY <1>1, <1>3, ReplicasStay
<1>5. Q \in Seq(Papers) /\ Q \in Seq(Frames) /\ toRelay[c] \in Seq(Frames) /\ Len(Q) \in Nat
  BY <1>1, PapersAskNothing DEF NetTypes
<1>6. front \in Seq(Papers) /\ rest \in Seq(Papers)
  <2>1. \A k \in 1..Len(Q) : Q[k] \in Papers
    BY <1>5, ElementOfSeq
  <2>2. (\A k \in 1..n : Q[k] \in Papers) /\ (\A k \in (n + 1)..Len(Q) : Q[k] \in Papers)
    BY <1>5, <2>1
  <2>3. 1 \in Int /\ n \in Int /\ n + 1 \in Int /\ Len(Q) \in Int
    BY <1>5
  <2> HIDE DEF Q
  <2> QED BY <2>2, <2>3, SubSeqProperties
<1> HIDE DEF front, rest
<1>7. front \in Seq(Frames) /\ \A d, items : AskBound(front, d, items)
  BY <1>6, PapersAskNothing
<1>8. /\ toRelay[c] \o front \in Seq(Frames)
      /\ HasAsk(toRelay[c]) => HasAsk(toRelay[c] \o front)
      /\ \A d, items : AskBound(toRelay[c], d, items) => AskBound(toRelay[c] \o front, d, items)
  BY <1>5, <1>7, ConcatProperties, AsksConcatenated
<1>9. toRelay' = [toRelay EXCEPT ![c] = toRelay[c] \o front] /\ queue' = [queue EXCEPT ![c] = rest]
  BY <1>1, <1>2 DEF front, rest, NetTypes
<1>10. NetTypes'
  BY <1>1, <1>3, <1>4, <1>6, <1>8, <1>9 DEF NetTypes
<1>11. AsksAreOld'
  <2> SUFFICES ASSUME NEW x \in Clients, NEW y \in Clients, x # y
               PROVE  AskBound(toRelay'[x], y, doc'[x].items) /\ AskBound(toClient'[y], y, doc'[x].items)
    BY DEF AsksAreOld
  <2>1. AskBound(toRelay[x], y, doc[x].items) /\ AskBound(toClient[y], y, doc[x].items)
    BY <1>1 DEF NetInv, AsksAreOld
  <2>2. toRelay'[x] = IF x = c THEN toRelay[c] \o front ELSE toRelay[x]
    BY <1>1, <1>9 DEF NetTypes
  <2> QED BY <2>1, <2>2, <1>3, <1>4, <1>8
<1>12. SeniorsAnswer'
  <2> SUFFICES ASSUME NEW x \in Clients, NEW y \in seniors'[x]
               PROVE  x # y /\ link'[x] = "open" /\ link'[y] = "open" /\ WillHave(x, y)'
    BY DEF SeniorsAnswer
  <2>1. y \in seniors[x] /\ y \in Clients
    BY <1>1, <1>3 DEF NetTypes
  <2>2. x # y /\ link[x] = "open" /\ link[y] = "open" /\ WillHave(x, y)
    BY <1>1, <2>1 DEF NetInv, SeniorsAnswer
  <2>3. HasAsk(toRelay[x]) => HasAsk(toRelay'[x])
    <3>1. toRelay'[x] = IF x = c THEN toRelay[c] \o front ELSE toRelay[x]
      BY <1>1, <1>9 DEF NetTypes
    <3> QED BY <3>1, <1>8
  <2>4. ASSUME Promise(doc[x].items, toClient[x], toRelay[y], queue[y], y, Count(y, made))
        PROVE  Promise(doc[x].items, toClient[x], toRelay'[y], queue'[y], y, Count(y, made))
    <3>1. CASE y = c
      <4>1. toRelay'[y] = toRelay[c] \o front /\ queue'[y] = rest
        BY <3>1, <1>1, <1>9 DEF NetTypes
      <4>2. Promise(doc[x].items, toClient[x], toRelay[c], Q, y, Count(y, made))
        BY <2>4, <3>1
      <4>3. n \in 1..Len(Q)
        BY <1>2
      <4> HIDE DEF Q
      <4>4. Promise(doc[x].items, toClient[x], toRelay[c] \o SubSeq(Q, 1, n),
                    SubSeq(Q, n + 1, Len(Q)), y, Count(y, made))
        BY <4>2, <4>3, <1>5, PromiseDrained
      <4> QED BY <4>1, <4>4 DEF front, rest
    <3>2. CASE y # c
      BY <2>4, <3>2, <2>1, <1>1, <1>9 DEF NetTypes
    <3> QED BY <3>1, <3>2
  <2>5. WillHave(x, y)'
    BY <2>1, <2>2, <2>3, <2>4, <1>3, <1>4 DEF WillHave
  <2> QED BY <2>2, <2>5, <1>3
<1> QED BY <1>4, <1>10, <1>11, <1>12 DEF Inv, NetInv

LEMMA TrimmedIs ==
  ASSUME NEW S, NEW F \in Seq(S)
  PROVE  Trimmed(F) \in Seq(S)
<1>1. Len(F) \in Nat /\ \A n \in 1..Len(F) : F[n] \in S
  BY ElementOfSeq
<1>2. CASE Len(F) > MaxLog
  <2>1. \A n \in (Len(F) - MaxLog + 1)..Len(F) : F[n] \in S
    BY <1>1, <1>2, BoundsAssumption
  <2>2. Len(F) - MaxLog + 1 \in Int /\ Len(F) \in Int
    BY <1>1, BoundsAssumption
  <2>3. SubSeq(F, Len(F) - MaxLog + 1, Len(F)) \in Seq(S)
    BY <2>1, <2>2, SubSeqProperties
  <2> QED BY <2>3, <1>2 DEF Trimmed
<1>3. CASE ~(Len(F) > MaxLog)
  BY <1>3 DEF Trimmed
<1> QED BY <1>2, <1>3

LEMMA RelaysStep ==
  ASSUME Inv, NEW c \in Clients, Relays(c)
  PROVE  Inv'
<1>1. WorldInv /\ ReplicaTypes /\ HeldInv /\ NetInv /\ NetTypes
  BY DEF Inv, NetInv
<1> DEFINE f == Head(toRelay[c])
           G == Tail(toRelay[c])
           Hears(d) == d # c /\ link[d] \in {"accepted", "open"}
<1>2. /\ toRelay[c] # <<>>
      /\ log' = IF IsDocument(f) THEN Trimmed(Append(log, f)) ELSE log
      /\ toClient' = [d \in Clients |-> IF Hears(d) THEN Append(toClient[d], f) ELSE toClient[d]]
      /\ toRelay' = [toRelay EXCEPT ![c] = G]
      /\ UNCHANGED <<made, replica>> /\ UNCHANGED <<link, queue, seniors, connects>>
  BY DEF Relays, provider
<1>3. ReplicaTypes' /\ HeldInv' /\ WorldInv' /\ Papers' = Papers /\ Frames' = Frames
      /\ \A d \in Clients : doc'[d].items = doc[d].items /\ Count(d, made') = Count(d, made)
  BY <1>1, <1>2, ReplicasStay
<1>4. toRelay[c] \in Seq(Frames) /\ f \in Frames /\ G \in Seq(Frames)
  BY <1>1, <1>2, HeadTailProperties DEF NetTypes
<1>5. /\ HasAsk(toRelay[c]) <=> HasAsk(G) \/ ~IsDocument(f)
      /\ \A d, items : AskBound(toRelay[c], d, items) <=>
           AskBound(G, d, items) /\ (~IsDocument(f) => f.vector[d] <= Upto(items, d))
  BY <1>2, <1>4, AsksRead
<1>6. \A d \in Clients :
        /\ toClient[d] \in Seq(Frames) /\ Append(toClient[d], f) \in Seq(Frames)
        /\ HasAsk(Append(toClient[d], f)) <=> HasAsk(toClient[d]) \/ ~IsDocument(f)
        /\ \A e, items : AskBound(Append(toClient[d], f), e, items) <=>
             AskBound(toClient[d], e, items) /\ (~IsDocument(f) => f.vector[e] <= Upto(items, e))
  <2> SUFFICES ASSUME NEW d \in Clients
      PROVE  /\ toClient[d] \in Seq(Frames) /\ Append(toClient[d], f) \in Seq(Frames)
             /\ HasAsk(Append(toClient[d], f)) <=> HasAsk(toClient[d]) \/ ~IsDocument(f)
             /\ \A e, items : AskBound(Append(toClient[d], f), e, items) <=>
                  AskBound(toClient[d], e, items) /\ (~IsDocument(f) => f.vector[e] <= Upto(items, e))
    OBVIOUS
  <2>1. toClient[d] \in Seq(Frames)
    BY <1>1 DEF NetTypes
  <2> HIDE DEF f
  <2> QED BY <2>1, <1>4, AppendProperties, AsksAppended
<1>7. log' \in Seq(Papers)
  <2>1. CASE IsDocument(f)
    <3>1. f \in Papers /\ log \in Seq(Papers)
      BY <2>1, <1>1, <1>4, KindsOfFrames DEF NetTypes
    <3>2. Append(log, f) \in Seq(Papers)
      BY <3>1, AppendProperties
    <3> QED BY <3>2, <2>1, <1>2, TrimmedIs
  <2>2. CASE ~IsDocument(f)
    BY <2>2, <1>1, <1>2 DEF NetTypes
  <2> QED BY <2>1, <2>2
<1> HIDE DEF f, G
<1>8. \A d \in Clients : toClient'[d] = IF Hears(d) THEN Append(toClient[d], f) ELSE toClient[d]
  BY <1>2
<1>9. NetTypes'
  <2>1. toClient' \in [Clients -> Seq(Frames)]
    BY <1>2, <1>6
  <2> QED BY <2>1, <1>1, <1>2, <1>3, <1>4, <1>7 DEF NetTypes
<1> HIDE DEF Hears
<1>10. AsksAreOld'
  <2> SUFFICES ASSUME NEW x \in Clients, NEW y \in Clients, x # y
               PROVE  AskBound(toRelay'[x], y, doc'[x].items) /\ AskBound(toClient'[y], y, doc'[x].items)
    BY DEF AsksAreOld
  <2>1. AskBound(toRelay[x], y, doc[x].items) /\ AskBound(toClient[y], y, doc[x].items)
    BY <1>1 DEF NetInv, AsksAreOld
  <2>2. AskBound(toRelay'[x], y, doc[x].items)
    <3>1. toRelay'[x] = IF x = c THEN G ELSE toRelay[x]
      BY <1>1, <1>2 DEF NetTypes
    <3> QED BY <3>1, <2>1, <1>5
  <2>3. AskBound(toClient'[y], y, doc[x].items)
    <3>1. CASE Hears(y)
      <4>1. x = c
        BY <3>1, TwoClients DEF Hears
      <4>2. ~IsDocument(f) => f.vector[y] <= Upto(doc[x].items, y)
        BY <4>1, <2>1, <1>5
      <4> QED BY <4>2, <3>1, <2>1, <1>6, <1>8
    <3>2. CASE ~Hears(y)
      BY <3>2, <2>1, <1>8
    <3> QED BY <3>1, <3>2
  <2> QED BY <2>2, <2>3, <1>3
<1>11. SeniorsAnswer'
  <2> SUFFICES ASSUME NEW x \in Clients, NEW y \in seniors'[x]
               PROVE  x # y /\ link'[x] = "open" /\ link'[y] = "open" /\ WillHave(x, y)'
    BY DEF SeniorsAnswer
  <2>1. y \in seniors[x] /\ y \in Clients
    BY <1>1, <1>2 DEF NetTypes
  <2>2. x # y /\ link[x] = "open" /\ link[y] = "open" /\ WillHave(x, y)
    BY <1>1, <2>1 DEF NetInv, SeniorsAnswer
  <2>3. CASE HasAsk(toRelay[x])
    <3>1. CASE x = c /\ ~IsDocument(f)
      <4>1. Hears(y)
        BY <3>1, <2>2 DEF Hears
      <4>2. HasAsk(toClient'[y])
        BY <4>1, <3>1, <2>1, <1>6, <1>8
      <4> QED BY <4>2, <2>2, <1>2 DEF WillHave
    <3>2. CASE x = c /\ IsDocument(f)
      <4>1. HasAsk(toRelay'[x])
        BY <3>2, <2>3, <1>1, <1>2, <1>5 DEF NetTypes
      <4> QED BY <4>1, <2>2, <1>2 DEF WillHave
    <3>3. CASE x # c
      <4>1. HasAsk(toRelay'[x])
        BY <3>3, <2>3, <1>1, <1>2 DEF NetTypes
      <4> QED BY <4>1, <2>2, <1>2 DEF WillHave
    <3> QED BY <3>1, <3>2, <3>3
  <2>4. CASE HasAsk(toClient[y])
    <3>1. HasAsk(toClient'[y])
      BY <2>4, <2>1, <1>6, <1>8
    <3> QED BY <3>1, <2>2, <1>2 DEF WillHave
  <2>5. CASE Promise(doc[x].items, toClient[x], toRelay[y], queue[y], y, Count(y, made))
    <3>1. Promise(doc[x].items, toClient'[x], toRelay'[y], queue[y], y, Count(y, made))
      <4>1. CASE y = c
        <5>1. Hears(x) /\ toRelay'[y] = G
          BY <4>1, <2>2, <1>1, <1>2 DEF Hears, NetTypes
        <5>2. toClient'[x] = Append(toClient[x], f) /\ toClient[x] \in Seq(Frames)
          BY <5>1, <1>6, <1>8
        <5>3. Promise(doc[x].items, toClient[x], toRelay[c], queue[y], y, Count(y, made))
          BY <2>5, <4>1
        <5>4. Promise(doc[x].items, Append(toClient[x], Head(toRelay[c])), Tail(toRelay[c]),
                      queue[y], y, Count(y, made))
          BY <5>2, <5>3, <1>2, <1>4, PromiseRelayed
        <5> QED BY <5>1, <5>2, <5>4 DEF f, G
      <4>2. CASE y # c
        <5>1. toRelay'[y] = toRelay[y] /\ x = c
          BY <4>2, <2>1, <2>2, <1>1, <1>2, TwoClients DEF NetTypes
        <5>2. toClient'[x] = toClient[x]
          BY <5>1, <1>8 DEF Hears
        <5> QED BY <5>1, <5>2, <2>5
      <4> QED BY <4>1, <4>2
    <3>2. WillHave(x, y)'
      BY <3>1, <2>1, <1>2, <1>3 DEF WillHave
    <3> QED BY <3>2, <2>2, <1>2
  <2> QED BY <2>2, <2>3, <2>4, <2>5 DEF WillHave
<1> QED BY <1>3, <1>9, <1>10, <1>11 DEF Inv, NetInv

----------------------------------------------------------------------------
(* A client reads a frame.                                                  *)

LEMMA RemoveFirstIs ==
  ASSUME NEW S, NEW s \in Seq(S), NEW e
  PROVE  /\ RemoveFirst(s, e) \in Seq(S)
         /\ \A n \in 1..Len(RemoveFirst(s, e)) : \E m \in 1..Len(s) : RemoveFirst(s, e)[n] = s[m]
<1> DEFINE I == {i \in 1..Len(s) : s[i] = e}
<1>0. Len(s) \in Nat
  OBVIOUS
<1>1. CASE I = {}
  <2>1. RemoveFirst(s, e) = s
    BY <1>1 DEF RemoveFirst
  <2> QED BY <2>1
<1>2. CASE I # {}
  <2> DEFINE k == CHOOSE x \in I : \A y \in I : x <= y
  <2>1. RemoveFirst(s, e) = RemoveAt(s, k)
    BY <1>2 DEF RemoveFirst, SelectInSeq, Min
  <2>2. k \in I
    <3>1. I \in SUBSET Nat
      OBVIOUS
    <3> HIDE DEF I
    <3> QED BY <3>1, <1>2, Least
  <2> HIDE DEF k
  <2>3. k \in 1..Len(s)
    BY <2>2
  <2>4. /\ RemoveAt(s, k) \in Seq(S) /\ Len(RemoveAt(s, k)) = Len(s) - 1
        /\ \A n \in 1..(Len(s) - 1) : RemoveAt(s, k)[n] = IF n < k THEN s[n] ELSE s[n + 1]
    BY <2>3, RemoveAtIs
  <2>5. ASSUME NEW n \in 1..(Len(s) - 1)
        PROVE  \E m \in 1..Len(s) : RemoveAt(s, k)[n] = s[m]
    <3>1. n \in 1..Len(s) /\ n + 1 \in 1..Len(s)
      BY <1>0
    <3> QED BY <3>1, <2>4
  <2> QED BY <2>1, <2>4, <2>5
<1> QED BY <1>1, <1>2

LEMMA SendsIs ==
  ASSUME NEW c \in Clients, NEW f, NEW inbox, Sends(c, f, inbox)
  PROVE  \/ SocketGone(c, "off")
         \/ /\ toClient' = [toClient EXCEPT ![c] = inbox] /\ link' = link /\ seniors' = seniors
            /\ \/ /\ queue[c] = <<>> /\ queue' = queue
                  /\ toRelay' = [toRelay EXCEPT ![c] = Append(@, f)]
               \/ queue' = [queue EXCEPT ![c] = Append(@, f)] /\ toRelay' = toRelay
BY DEF Sends, Reads, Transmits, Waits, Fails

\* An answer has all its author made, from what was asked for on.
LEMMA AnswersCarry ==
  ASSUME WorldInv, ReplicaTypes, NEW c \in Clients, NEW v \in Vectors, NEW a \in Nat, v[c] <= a
  PROVE  /\ Step2(Diff[doc[c]][v]) \in Papers
         /\ Carries(Step2(Diff[doc[c]][v]), c, a, Count(c, made))
<1>1. doc[c] \in Documents /\ Has(doc[c].items, c, Count(c, made)) /\ FiniteItems(doc[c].items)
  BY OwnItems
<1>2. /\ Diff[doc[c]][v] \in Documents
      /\ Diff[doc[c]][v].items =
           {i \in doc[c].items : Upto(doc[c].items, i[1]) > v[i[1]] /\ i[2] > v[i[1]]}
  BY <1>1, WorldIs, DiffIs
<1>3. Step2(Diff[doc[c]][v]) \in Papers
  BY <1>2 DEF Step2, Papers
<1>4. v[c] \in Int /\ Count(c, made) \in Nat
  BY CountIs DEF Vectors
<1>5. Count(c, made) = 0 \/ Count(c, made) <= Upto(doc[c].items, c)
  BY <1>1, <1>4, UptoIs
<1>6. Upto(doc[c].items, c) \in Int
  BY <1>1, UptoIs
<1>7. ASSUME NEW n \in (a + 1)..Count(c, made) PROVE <<c, n>> \in Diff[doc[c]][v].items
  <2>1. n \in 1..Count(c, made) /\ n > a
    BY <1>4
  <2>2. <<c, n>> \in doc[c].items
    BY <2>1, <1>1 DEF Has
  <2>3. Upto(doc[c].items, c) > v[c] /\ n > v[c]
    BY <2>1, <1>4, <1>5, <1>6
  <2> QED BY <2>2, <2>3, <1>2
<1>8. IsDocument(Step2(Diff[doc[c]][v])) /\ Step2(Diff[doc[c]][v]).diff = Diff[doc[c]][v]
  BY DEF IsDocument, Step2
<1> QED BY <1>3, <1>7, <1>8 DEF Carries

LEMMA AnswerStep ==
  ASSUME Inv, NEW c \in Clients, toClient[c] # <<>>, link[c] = "open",
         Head(toClient[c]).kind = "step1",
         Answers(c, Head(toClient[c]).vector, Tail(toClient[c])),
         UNCHANGED <<made, replica>>, log' = log, connects' = connects
  PROVE  Inv'
<1>1. WorldInv /\ ReplicaTypes /\ HeldInv /\ NetInv /\ NetTypes
  BY DEF Inv, NetInv
<1> DEFINE h == Head(toClient[c])
           inbox == Tail(toClient[c])
           f == Step2(Diff[doc[c]][h.vector])
<1>2. Sends(c, f, inbox)
  BY DEF Answers
<1>3. ReplicaTypes' /\ HeldInv' /\ WorldInv' /\ Papers' = Papers /\ Frames' = Frames
      /\ \A d \in Clients : doc'[d].items = doc[d].items /\ Count(d, made') = Count(d, made)
  BY <1>1, ReplicasStay
<1>4. toClient[c] \in Seq(Frames) /\ h \in Frames /\ inbox \in Seq(Frames)
  BY <1>1, HeadTailProperties DEF NetTypes
<1>5. ~IsDocument(h) /\ h.vector \in Vectors
  BY <1>4, KindsOfFrames DEF IsDocument
<1>6. \A d, items : AskBound(toClient[c], d, items) <=>
        AskBound(inbox, d, items) /\ (~IsDocument(h) => h.vector[d] <= Upto(items, d))
  BY <1>4, AsksRead
<1> DEFINE v == h.vector
           a == IF v[c] >= 0 THEN v[c] ELSE 0
<1>7. v[c] \in Int /\ a \in Nat /\ v[c] <= a
  BY <1>5 DEF Vectors
<1>8. f \in Papers /\ Carries(f, c, a, Count(c, made))
  <2> HIDE DEF a
  <2> QED BY <1>1, <1>5, <1>7, AnswersCarry
<1>9. f \in Frames
  BY <1>8 DEF Frames
<1>10. toRelay[c] \in Seq(Frames) /\ queue[c] \in Seq(Papers) /\ queue[c] \in Seq(Frames)
  BY <1>1, PapersAskNothing DEF NetTypes
<1>11. /\ Append(toRelay[c], f) \in Seq(Frames) /\ Append(queue[c], f) \in Seq(Papers)
       /\ HasAsk(toRelay[c]) => HasAsk(Append(toRelay[c], f))
       /\ \A d, items : AskBound(toRelay[c], d, items) => AskBound(Append(toRelay[c], f), d, items)
  <2>1. IsDocument(f)
    BY <1>8, KindsOfFrames
  <2> HIDE DEF f
  <2> QED BY <2>1, <1>8, <1>9, <1>10, AppendProperties, AsksAppended
<1>12. \A x \in Clients : x # c => Has(doc[x].items, c, a)
  <2> SUFFICES ASSUME NEW x \in Clients, x # c PROVE Has(doc[x].items, c, a)
    OBVIOUS
  <2>1. AskBound(toClient[c], c, doc[x].items)
    BY <1>1 DEF NetInv, AsksAreOld
  <2>2. v[c] <= Upto(doc[x].items, c)
    BY <2>1, <1>5, <1>6
  <2>3. FiniteItems(doc[x].items)
    BY <1>1, OwnItems
  <2>4. a = 0 \/ a <= Upto(doc[x].items, c)
    BY <2>2
  <2> HIDE DEF a
  <2> QED BY <2>3, <2>4, <1>7, UptoIs
<1> HIDE DEF f, h, a, inbox
<1>13. CASE SocketGone(c, "off")
  <2>1. Grown
    BY <1>1, <1>3, StaysGrown
  <2>2. NetInv'
    BY <1>1, <1>13, <2>1, QuitKeeps DEF Links
  <2> QED BY <2>2, <1>3 DEF Inv
<1>14. ASSUME toClient' = [toClient EXCEPT ![c] = inbox], link' = link, seniors' = seniors,
              \/ /\ queue[c] = <<>> /\ queue' = queue
                 /\ toRelay' = [toRelay EXCEPT ![c] = Append(@, f)]
              \/ queue' = [queue EXCEPT ![c] = Append(@, f)] /\ toRelay' = toRelay
       PROVE  Inv'
  <2>1. NetTypes'
    BY <1>14, <1>1, <1>3, <1>4, <1>11 DEF NetTypes, inbox
  <2>2. AsksAreOld'
    <3> SUFFICES ASSUME NEW x \in Clients, NEW y \in Clients, x # y
                 PROVE  AskBound(toRelay'[x], y, doc'[x].items) /\ AskBound(toClient'[y], y, doc'[x].items)
      BY DEF AsksAreOld
    <3>1. AskBound(toRelay[x], y, doc[x].items) /\ AskBound(toClient[y], y, doc[x].items)
      BY <1>1 DEF NetInv, AsksAreOld
    <3>2. /\ toRelay'[x] = toRelay[x] \/ (x = c /\ toRelay'[x] = Append(toRelay[c], f))
          /\ toClient'[y] = IF y = c THEN inbox ELSE toClient[y]
      BY <1>14, <1>1 DEF NetTypes
    <3> QED BY <3>1, <3>2, <1>3, <1>6, <1>11
  <2>3. SeniorsAnswer'
    <3> SUFFICES ASSUME NEW x \in Clients, NEW y \in seniors'[x]
                 PROVE  x # y /\ link'[x] = "open" /\ link'[y] = "open" /\ WillHave(x, y)'
      BY DEF SeniorsAnswer
    <3>1. y \in seniors[x] /\ y \in Clients
      BY <1>14, <1>1 DEF NetTypes
    <3>2. x # y /\ link[x] = "open" /\ link[y] = "open" /\ WillHave(x, y)
      BY <1>1, <3>1 DEF NetInv, SeniorsAnswer
    <3>3. CASE y = c
      <4>1. toClient'[x] = toClient[x] /\ toClient[x] \in Seq(Frames)
        BY <3>2, <3>3, <1>14, <1>1 DEF NetTypes
      <4>2. \/ toRelay'[c] = Append(toRelay[c], f) /\ queue'[c] = <<>>
            \/ toRelay'[c] = toRelay[c] /\ queue'[c] = Append(queue[c], f)
        BY <1>14, <1>1 DEF NetTypes
      <4>3. Has(doc[x].items, c, a) /\ Count(c, made) \in Nat
        BY <1>1, <1>12, <3>2, <3>3, CountIs
      <4>4. /\ Promise(doc[x].items, toClient[x], Append(toRelay[c], f), <<>>, c, Count(c, made))
            /\ Promise(doc[x].items, toClient[x], toRelay[c], Append(queue[c], f), c, Count(c, made))
        BY <4>1, <4>3, <1>7, <1>8, <1>9, <1>10, AnAnswerPromises
      <4>5. Promise(doc[x].items, toClient'[x], toRelay'[c], queue'[c], c, Count(c, made))
        BY <4>1, <4>2, <4>4
      <4>6. WillHave(x, y)'
        BY <4>5, <3>3, <1>3 DEF WillHave
      <4> QED BY <4>6, <3>2, <1>14
    <3>4. CASE y # c
      <4>1. x = c
        BY <3>1, <3>2, <3>4, TwoClients
      <4>2. toRelay'[y] = toRelay[y] /\ queue'[y] = queue[y] /\ toClient'[y] = toClient[y]
            /\ toClient'[x] = inbox
        BY <4>1, <3>1, <3>4, <1>14, <1>1 DEF NetTypes
      <4>3. HasAsk(toRelay[x]) => HasAsk(toRelay'[x])
        BY <4>1, <1>14, <1>1, <1>11 DEF NetTypes
      <4>4. ASSUME Promise(doc[x].items, toClient[x], toRelay[y], queue[y], y, Count(y, made))
            PROVE  Promise(doc[x].items, inbox, toRelay[y], queue[y], y, Count(y, made))
        <5>1. \A k, e \in Nat : Has(doc[x].items, y, k) /\ Carries(Head(toClient[x]), y, k, e)
                                  => Has(doc[x].items, y, e)
          BY <4>1, <1>5 DEF Carries, Has, h
        <5>2. toClient[x] \in Seq(Frames) /\ toClient[x] # <<>>
          BY <4>1, <1>4
        <5> QED BY <4>4, <5>1, <5>2, <4>1, PromiseRead DEF inbox
      <4>5. WillHave(x, y)'
        BY <4>2, <4>3, <4>4, <3>2, <3>1, <1>3 DEF WillHave
      <4> QED BY <4>5, <3>2, <1>14
    <3> QED BY <3>3, <3>4
  <2> QED BY <2>1, <2>2, <2>3, <1>3 DEF Inv, NetInv
<1> QED BY <1>2, <1>13, <1>14, SendsIs

LEMMA AppliedIs ==
  ASSUME World, NEW r, IsReplica(r), NEW u \in Documents,
         NEW after \in Applied(r, Staged[r.doc][u], u)
  PROVE  GoesOn(r, after) /\ Settles(after) /\ Reaches(Staged[r.doc][u], after)
<1> DEFINE staged == Staged[r.doc][u]
           first == AfterUpdate(r, staged, u)
           kept == IF IsPending(staged, u) THEN Append(first.held, u) ELSE first.held
           given == [first EXCEPT !.held = kept]
<1>1. after = Resolved(given)
  BY DEF Applied
<1>2. GoesOn(r, first) /\ Reaches(staged, first) /\ first.held = r.held
  BY AfterUpdateIs
<1> HIDE DEF staged, first
<1>3. IsReplica(first) /\ r.held \in Seq(Documents)
  BY <1>2 DEF GoesOn, IsReplica
<1>4. kept \in Seq(Documents)
  BY <1>2, <1>3, AppendProperties
<1> HIDE DEF kept
<1>5. given = [doc |-> first.doc, screen |-> first.screen, held |-> kept, spins |-> first.spins]
  BY <1>3 DEF IsReplica
<1>6. IsReplica(given) /\ given.doc = first.doc
  BY <1>3, <1>4, <1>5 DEF IsReplica
<1> HIDE DEF given
<1>7. GoesOn(given, Resolved(given)) /\ Settles(Resolved(given))
  BY <1>6, ResolvedIs
<1>8. GoesOn(r, after)
  BY <1>1, <1>2, <1>6, <1>7 DEF GoesOn
<1>9. Reaches(staged, after)
  <2> SUFFICES ASSUME NEW c \in Clients, NEW n \in Nat, Has(staged.items, c, n)
               PROVE  Has(after.doc.items, c, n)
    BY DEF Reaches
  <2>1. Has(first.doc.items, c, n)
    BY <1>2 DEF Reaches
  <2>2. first.doc.items \subseteq after.doc.items
    BY <1>1, <1>6, <1>7 DEF GoesOn
  <2> QED BY <2>1, <2>2 DEF Has
<1> QED BY <1>1, <1>7, <1>8, <1>9 DEF staged

\* What a frame carries beyond what its reader has, the reader has then.
LEMMA ReaderTakes ==
  ASSUME WorldInv, ReplicaTypes, NEW c \in Clients, NEW f, f.diff \in Documents,
         NEW after, Reaches(Staged[doc[c]][f.diff], after), doc[c].items \subseteq after.doc.items,
         NEW d \in Clients, c # d, NEW k \in Nat, NEW e \in Nat,
         Has(doc[c].items, d, k), Carries(f, d, k, e)
  PROVE  Has(after.doc.items, d, e)
<1>1. CASE e <= k
  BY <1>1 DEF Has
<1>2. CASE ~(e <= k)
  <2> DEFINE staged == Staged[doc[c]][f.diff]
  <2>1. doc[c] \in Documents /\ doc[c].items \in SUBSET Items
        /\ {i \in Items : i[1] # d} \subseteq doc[c].items
    BY OwnItems
  <2>2. f.diff.items \in SUBSET Items
    BY DEF Documents
  <2>3. staged.items = Taken(made, doc[c].items, f.diff.items)
    BY <2>1, WorldIs, StagedIs
  <2>4. \A n \in (k + 1)..e : <<d, n>> \in f.diff.items
    BY <1>2 DEF Carries
  <2>5. Founded(made)
    BY DEF WorldInv, Library
  <2>6. Has(Taken(made, doc[c].items, f.diff.items), d, e)
    BY <2>1, <2>2, <2>4, <2>5, TakesTheNext DEF Items
  <2> QED BY <2>3, <2>6 DEF Reaches
<1> QED BY <1>1, <1>2

\* The end of the connection, with what is held back less the update refused.
LEMMA RefusedStep ==
  ASSUME Inv, NEW c \in Clients, NEW u, held' = [held EXCEPT ![c] = RemoveFirst(held[c], u)],
         Fails(c), UNCHANGED <<made, doc, spins, log, connects>>
  PROVE  Inv'
<1>1. WorldInv /\ ReplicaTypes /\ HeldInv /\ NetInv
  BY DEF Inv
<1>2. Items' = Items
  BY DEF Items
<1>3. Documents' = Documents
  BY <1>2 DEF Documents
<1>4. WorldInv'
  BY <1>1, <1>2 DEF WorldInv
<1> DEFINE others == RemoveFirst(held[c], u)
<1>5. /\ others \in Seq(Documents)
      /\ \A n \in 1..Len(others) : \E m \in 1..Len(held[c]) : others[n] = held[c][m]
  <2>1. held[c] \in Seq(Documents)
    BY <1>1 DEF ReplicaTypes
  <2> QED BY <2>1, RemoveFirstIs
<1> HIDE DEF others
<1>6. held' = [held EXCEPT ![c] = others]
  BY DEF others
<1>7. ReplicaTypes'
  BY <1>1, <1>3, <1>5, <1>6 DEF ReplicaTypes
<1>8. HeldInv'
  <2> SUFFICES ASSUME NEW x \in Clients, ~spins[x], NEW n \in 1..Len(held'[x])
               PROVE  BlockedIn(made, doc[x], held'[x][n])
    BY DEF HeldInv
  <2>1. \E m \in 1..Len(held[x]) : held'[x][n] = held[x][m]
    BY <1>1, <1>5, <1>6 DEF ReplicaTypes
  <2> QED BY <2>1, <1>1 DEF HeldInv
<1>9. Grown
  BY <1>1, <1>2, <1>4, <1>7 DEF Grown
<1>10. NetInv'
  BY <1>1, <1>9, QuitKeeps DEF Fails, Links
<1> QED BY <1>4, <1>7, <1>8, <1>10 DEF Inv

LEMMA TakenStep ==
  ASSUME Inv, NEW c \in Clients, toClient[c] # <<>>, link[c] = "open", IsDocument(Head(toClient[c])),
         NEW r, r = [doc |-> doc[c], screen |-> screen[c],
                     held |-> RemoveFirst(held[c], Head(toClient[c]).diff), spins |-> FALSE],
         NEW after \in Applied(r, Staged[doc[c]][Head(toClient[c]).diff], Head(toClient[c]).diff),
         doc' = [doc EXCEPT ![c] = after.doc], held' = [held EXCEPT ![c] = after.held],
         spins' = [spins EXCEPT ![c] = after.spins],
         toClient' = [toClient EXCEPT ![c] = Tail(toClient[c])],
         UNCHANGED <<made, link, queue, toRelay, seniors, log, connects>>
  PROVE  Inv'
<1>1. WorldInv /\ ReplicaTypes /\ HeldInv /\ NetInv /\ NetTypes /\ World
  BY WorldIs DEF Inv, NetInv
<1> DEFINE h == Head(toClient[c])
           inbox == Tail(toClient[c])
           u == h.diff
<1>2. toClient[c] \in Seq(Frames) /\ h \in Frames /\ inbox \in Seq(Frames)
  BY <1>1, HeadTailProperties DEF NetTypes
<1>3. u \in Documents
  BY <1>2, KindsOfFrames
<1>4. HasAsk(toClient[c]) <=> HasAsk(inbox)
  BY <1>2, AsksRead
<1>5. \A d, items : AskBound(toClient[c], d, items) => AskBound(inbox, d, items)
  BY <1>2, AsksRead
<1> HIDE DEF h, inbox, u
<1>6. Items' = Items
  BY DEF Items
<1>7. Documents' = Documents
  BY <1>6 DEF Documents
<1>8. Papers' = Papers /\ Frames' = Frames /\ WorldInv'
  BY <1>1, <1>6, <1>7 DEF Papers, Frames, Vectors, WorldInv
<1>9. IsReplica(r) /\ r.doc = doc[c]
  <2>1. held[c] \in Seq(Documents) /\ doc[c] \in Documents
    BY <1>1 DEF ReplicaTypes
  <2>2. RemoveFirst(held[c], u) \in Seq(Documents)
    BY <2>1, RemoveFirstIs
  <2> QED BY <2>1, <2>2 DEF IsReplica, u, h
<1>10. GoesOn(r, after) /\ Settles(after) /\ Reaches(Staged[doc[c]][u], after)
  <2>1. after \in Applied(r, Staged[r.doc][u], u)
    BY <1>9 DEF u, h
  <2>2. GoesOn(r, after) /\ Settles(after) /\ Reaches(Staged[r.doc][u], after)
    BY <2>1, <1>1, <1>3, <1>9, AppliedIs
  <2> QED BY <2>2, <1>9
<1>11. /\ after.doc \in Documents /\ after.held \in Seq(Documents) /\ after.spins \in BOOLEAN
       /\ doc[c].items \subseteq after.doc.items /\ IsReplica(after)
  BY <1>9, <1>10 DEF GoesOn, IsReplica
<1>12. \A x \in Clients : doc[x].items \subseteq doc'[x].items
  BY <1>1, <1>11 DEF ReplicaTypes
<1>13. ReplicaTypes'
  BY <1>1, <1>7, <1>11 DEF ReplicaTypes
<1>14. HeldInv'
  <2> SUFFICES ASSUME NEW x \in Clients, ~spins'[x], NEW n \in 1..Len(held'[x])
               PROVE  BlockedIn(made, doc'[x], held'[x][n])
    BY DEF HeldInv
  <2>1. CASE x = c
    <3>1. doc'[x] = after.doc /\ held'[x] = after.held /\ spins'[x] = after.spins
      BY <2>1, <1>1 DEF ReplicaTypes
    <3>2. ~after.spins
      BY <3>1
    <3> QED BY <3>1, <3>2, <1>1, <1>10, <1>11, SettledIsBlocked
  <2>2. CASE x # c
    <3>1. doc'[x] = doc[x] /\ held'[x] = held[x] /\ spins'[x] = spins[x]
      BY <2>2, <1>1 DEF ReplicaTypes
    <3> QED BY <3>1, <1>1 DEF HeldInv
  <2> QED BY <2>1, <2>2
<1>15. Grown
  BY <1>1, <1>6, <1>8, <1>12, <1>13 DEF Grown
<1>16. toClient' = [toClient EXCEPT ![c] = inbox]
  BY DEF inbox
<1>17. NetTypes'
  BY <1>1, <1>2, <1>8, <1>16 DEF NetTypes
<1>18. AsksAreOld'
  <2> SUFFICES ASSUME NEW x \in Clients, NEW y \in Clients, x # y
               PROVE  AskBound(toRelay[x], y, doc'[x].items) /\ AskBound(toClient'[y], y, doc'[x].items)
    BY DEF AsksAreOld
  <2>1. AskBound(toRelay[x], y, doc[x].items) /\ AskBound(toClient[y], y, doc[x].items)
    BY <1>1 DEF NetInv, AsksAreOld
  <2>2. toRelay[x] \in Seq(Frames) /\ toClient[y] \in Seq(Frames)
    BY <1>1 DEF NetTypes
  <2>3. AskBound(toRelay[x], y, doc'[x].items) /\ AskBound(toClient[y], y, doc'[x].items)
    BY <2>1, <2>2, <1>15, AskBoundGrows
  <2>4. toClient'[y] = IF y = c THEN inbox ELSE toClient[y]
    BY <1>1, <1>16 DEF NetTypes
  <2> QED BY <2>3, <2>4, <1>5
<1>19. SeniorsAnswer'
  <2> SUFFICES ASSUME NEW x \in Clients, NEW y \in seniors[x]
               PROVE  x # y /\ link[x] = "open" /\ link[y] = "open" /\ WillHave(x, y)'
    BY DEF SeniorsAnswer
  <2>1. y \in Clients
    BY <1>1 DEF NetTypes
  <2>2. x # y /\ link[x] = "open" /\ link[y] = "open" /\ WillHave(x, y)
    BY <1>1 DEF NetInv, SeniorsAnswer
  <2>3. HasAsk(toClient[y]) => HasAsk(toClient'[y])
    BY <2>1, <1>1, <1>4, <1>16 DEF NetTypes
  <2>4. ASSUME Promise(doc[x].items, toClient[x], toRelay[y], queue[y], y, Count(y, made))
        PROVE  Promise(doc'[x].items, toClient'[x], toRelay[y], queue[y], y, Count(y, made))
    <3>1. CASE x = c
      <4>1. toClient'[x] = Tail(toClient[x]) /\ doc'[x] = after.doc
        BY <3>1, <1>1, <1>16 DEF NetTypes, ReplicaTypes, inbox
      <4>2. ASSUME NEW k \in Nat, NEW e \in Nat,
                   Has(doc[x].items, y, k), Carries(Head(toClient[x]), y, k, e)
            PROVE  Has(after.doc.items, y, e)
        <5>1. Has(doc[c].items, y, k) /\ Carries(h, y, k, e) /\ c # y
          BY <4>2, <3>1, <2>2 DEF h
        <5>2. h.diff \in Documents /\ Reaches(Staged[doc[c]][h.diff], after)
          BY <1>3, <1>10 DEF u
        <5> QED BY <5>1, <5>2, <2>1, <1>1, <1>11, ReaderTakes
      <4>3. \A k, e \in Nat : Has(doc[x].items, y, k) /\ Carries(Head(toClient[x]), y, k, e)
                                => Has(after.doc.items, y, e)
        BY <4>2
      <4>4. toClient[x] \in Seq(Frames) /\ toClient[x] # <<>>
        BY <3>1, <1>2
      <4>5. Promise(after.doc.items, Tail(toClient[x]), toRelay[y], queue[y], y, Count(y, made))
        BY <2>4, <4>3, <4>4, PromiseRead
      <4> QED BY <4>1, <4>5
    <3>2. CASE x # c
      <4>1. toClient'[x] = toClient[x] /\ doc[x].items \subseteq doc'[x].items
        BY <3>2, <1>1, <1>12, <1>16 DEF NetTypes
      <4> QED BY <4>1, <2>4, PromiseStays
    <3> QED BY <3>1, <3>2
  <2>5. WillHave(x, y)'
    BY <2>2, <2>3, <2>4 DEF WillHave
  <2> QED BY <2>2, <2>5
<1> QED BY <1>8, <1>13, <1>14, <1>17, <1>18, <1>19 DEF Inv, NetInv

LEMMA DeliverStep ==
  ASSUME Inv, NEW c \in Clients, Deliver(c)
  PROVE  Inv'
<1> DEFINE h == Head(toClient[c])
           inbox == Tail(toClient[c])
<1>1. link[c] = "open" /\ toClient[c] # <<>> /\ UNCHANGED <<made, log, connects>>
  BY DEF Deliver
<1>2. CASE h.kind = "step1" /\ Answers(c, h.vector, inbox) /\ UNCHANGED replica
  <2>1. UNCHANGED <<made, replica>> /\ log' = log /\ connects' = connects
    BY <1>1, <1>2
  <2> QED BY <1>1, <1>2, <2>1, AnswerStep
<1>3. CASE IsDocument(h) /\ Receives(c, h, inbox)
  <2> DEFINE others == RemoveFirst(held[c], h.diff)
             staged == Staged[doc[c]][h.diff]
             r == [doc |-> doc[c], screen |-> screen[c], held |-> others, spins |-> FALSE]
  <2>1. \/ /\ held' = [held EXCEPT ![c] = others] /\ Fails(c)
           /\ UNCHANGED <<doc, screen, spins>>
        \/ /\ \E after \in Applied(r, staged, h.diff) :
                /\ doc' = [doc EXCEPT ![c] = after.doc]
                /\ held' = [held EXCEPT ![c] = after.held]
                /\ spins' = [spins EXCEPT ![c] = after.spins]
           /\ toClient' = [toClient EXCEPT ![c] = inbox]
           /\ UNCHANGED <<link, queue, toRelay, seniors>>
    BY <1>3 DEF Receives
  <2>2. CASE held' = [held EXCEPT ![c] = others] /\ Fails(c) /\ UNCHANGED <<doc, screen, spins>>
    BY <2>2, <1>1, RefusedStep
  <2>3. ASSUME NEW after \in Applied(r, staged, h.diff),
               doc' = [doc EXCEPT ![c] = after.doc], held' = [held EXCEPT ![c] = after.held],
               spins' = [spins EXCEPT ![c] = after.spins],
               toClient' = [toClient EXCEPT ![c] = inbox],
               UNCHANGED <<link, queue, toRelay, seniors>>
        PROVE  Inv'
    <3>1. UNCHANGED <<made, link, queue, toRelay, seniors, log, connects>>
      BY <2>3, <1>1
    <3> QED BY <2>3, <3>1, <1>1, <1>3, TakenStep
  <2> QED BY <2>1, <2>2, <2>3
<1> QED BY <1>2, <1>3 DEF Deliver

----------------------------------------------------------------------------
(* An edit.                                                                 *)

\* What could not be taken cannot be taken after items were added that were not
\* there before, by one that has all its items.
LEMMA BlockedStays ==
  ASSUME NEW m, NEW m2, NEW extra, GoesBeyond(m, m2, extra),
         NEW d, d.items \in SUBSET DOMAIN m, d.gone \in SUBSET DOMAIN m,
         NEW u, u.items \in SUBSET DOMAIN m, u.gone \in SUBSET DOMAIN m,
         \A i \in extra : MadeBy(i[1], m) \subseteq d.items,
         NEW d2, d2.items = d.items \cup extra, d.gone \subseteq d2.gone,
         BlockedIn(m, d, u)
  PROVE  BlockedIn(m2, d2, u)
<1> DEFINE T == Taken(m, d.items, u.items)
           T2 == Taken(m2, d2.items, u.items)
<1>1. T2 = T \cup extra
  <2> DEFINE known == d.items
             items == u.items
  <2>1. known \in SUBSET DOMAIN m /\ items \in SUBSET DOMAIN m
    OBVIOUS
  <2>2. T = Taken(m, known, items) /\ T2 = Taken(m2, known \cup extra, items)
    OBVIOUS
  <2> HIDE DEF known, items, T, T2
  <2>3. Taken(m2, known \cup extra, items) = Taken(m, known, items) \cup extra
    BY <2>1, TakenStays
  <2> QED BY <2>2, <2>3
<1>2. d.items \subseteq T /\ T \subseteq DOMAIN m
  <2>1. d.items \subseteq T /\ T \subseteq d.items \cup u.items
    BY TakenIs
  <2> HIDE DEF T
  <2> QED BY <2>1
<1>3. /\ ~(u.items \subseteq T /\ d.gone \cup u.gone \subseteq T)
      /\ \A e \in Clients : Upto(T, e) = Upto(d.items, e)
  BY DEF BlockedIn
<1> HIDE DEF T, T2
<1>a. extra \cap DOMAIN m = {}
  BY DEF GoesBeyond
<1>4. ~(u.items \subseteq T2 /\ d2.gone \cup u.gone \subseteq T2)
  BY <1>a, <1>1, <1>3
<1>5. ASSUME NEW e \in Clients PROVE Upto(T2, e) = Upto(d2.items, e)
  <2>1. CASE \E i \in extra : i[1] = e
    <3>1. MadeBy(e, m) \subseteq d.items
      BY <2>1
    <3>2. {j \in T2 : j[1] = e} = {j \in d2.items : j[1] = e}
      BY <3>1, <1>1, <1>2 DEF MadeBy
    <3>3. Clocks(T2, e) = Clocks(d2.items, e)
      BY <3>2 DEF Clocks
    <3> QED BY <3>3 DEF Upto
  <2>2. CASE ~(\E i \in extra : i[1] = e)
    <3>1. {j \in T2 : j[1] = e} = {j \in T : j[1] = e}
          /\ {j \in d2.items : j[1] = e} = {j \in d.items : j[1] = e}
      BY <2>2, <1>1
    <3>2. Clocks(T2, e) = Clocks(T, e) /\ Clocks(d2.items, e) = Clocks(d.items, e)
      BY <3>1 DEF Clocks
    <3>3. Upto(T2, e) = Upto(T, e) /\ Upto(d2.items, e) = Upto(d.items, e)
      BY <3>2 DEF Upto
    <3> QED BY <3>3, <1>3
  <2> QED BY <2>1, <2>2
<1> QED BY <1>4, <1>5 DEF BlockedIn, T2

\* A library with one more item, typed over one of those there are.
LEMMA LibraryGrows ==
  ASSUME NEW m, Library(m), NEW c \in Clients, NEW m2, NEW item, item = <<c, Count(c, m) + 1>>,
         DOMAIN m2 = DOMAIN m \cup {item}, \A i \in DOMAIN m : m2[i] = m[i],
         m2[item].over \in DOMAIN m \cup {Nothing}
  PROVE  /\ Library(m2) /\ item \notin DOMAIN m /\ item \in Numbered
         /\ Cardinality(DOMAIN m2) = Cardinality(DOMAIN m) + 1
         /\ Count(c, m) \in Nat /\ Count(c, m2) = Count(c, m) + 1
         /\ \A d \in Clients : d # c => Count(d, m2) = Count(d, m)
<1>1. /\ IsFiniteSet(DOMAIN m) /\ DOMAIN m \subseteq Numbered
      /\ \A i \in DOMAIN m : /\ m[i].over \in DOMAIN m \cup {Nothing}
                             /\ m[i].over[1] = i[1] => m[i].over[2] < i[2]
  BY DEF Library, Founded
<1>2. \A d \in Clients : IsFiniteSet(MadeBy(d, m)) /\ Count(d, m) \in Nat
  <2> SUFFICES ASSUME NEW d \in Clients PROVE IsFiniteSet(MadeBy(d, m)) /\ Count(d, m) \in Nat
    OBVIOUS
  <2>1. MadeBy(d, m) \in SUBSET DOMAIN m
    BY DEF MadeBy
  <2> QED BY <2>1, <1>1, FS_Subset, FS_CardinalityType DEF Count
<1>3. \A d \in Clients : Has(DOMAIN m, d, Count(d, m)) /\ \A i \in MadeBy(d, m) : i[2] <= Count(d, m)
  BY DEF Library, Consecutive
<1>4. item[1] = c /\ item[2] = Count(c, m) + 1 /\ item \in Numbered
  BY <1>2 DEF Numbered
<1>5. item \notin DOMAIN m
  <2> SUFFICES ASSUME item \in DOMAIN m PROVE FALSE
    OBVIOUS
  <2>1. item \in MadeBy(c, m)
    BY <1>4 DEF MadeBy
  <2>2. Count(c, m) + 1 <= Count(c, m)
    BY <2>1, <1>3, <1>4
  <2> QED BY <2>2, <1>2
<1>6. IsFiniteSet(DOMAIN m2) /\ Cardinality(DOMAIN m2) = Cardinality(DOMAIN m) + 1
  BY <1>1, <1>5, FS_AddElement
<1>7. /\ MadeBy(c, m2) = MadeBy(c, m) \cup {item} /\ item \notin MadeBy(c, m)
      /\ \A d \in Clients : d # c => MadeBy(d, m2) = MadeBy(d, m)
  BY <1>4, <1>5 DEF MadeBy
<1>8. Count(c, m2) = Count(c, m) + 1
  <2> DEFINE S == MadeBy(c, m)
  <2>1. IsFiniteSet(S) /\ item \notin S /\ MadeBy(c, m2) = S \cup {item}
    BY <1>2, <1>7
  <2> HIDE DEF S
  <2>2. Cardinality(S \cup {item}) = Cardinality(S) + 1
    BY <2>1, FS_AddElement
  <2> QED BY <2>1, <2>2 DEF Count, S
<1>9. \A d \in Clients : d # c => Count(d, m2) = Count(d, m)
  BY <1>7 DEF Count
<1>10. Founded(m2)
  <2>1. DOMAIN m2 \subseteq Numbered
    BY <1>1, <1>4
  <2>2. ASSUME NEW i \in DOMAIN m
        PROVE  m2[i].over \in DOMAIN m2 \cup {Nothing} /\ (m2[i].over[1] = i[1] => m2[i].over[2] < i[2])
    BY <2>2, <1>1
  <2>3. m2[item].over[1] = item[1] => m2[item].over[2] < item[2]
    <3> SUFFICES ASSUME m2[item].over[1] = c PROVE m2[item].over[2] < Count(c, m) + 1
      BY <1>4
    <3> DEFINE o == m2[item].over
    <3>1. CASE o = Nothing
      <4>1. o[2] = 0
        BY <3>1 DEF Nothing
      <4> HIDE DEF o
      <4>2. o[2] < Count(c, m) + 1
        BY <4>1, <1>2
      <4> QED BY <4>2 DEF o
    <3>2. CASE o \in DOMAIN m
      <4>1. o \in MadeBy(c, m) /\ o \in Numbered
        BY <3>2, <1>1 DEF MadeBy
      <4>2. o[2] <= Count(c, m) /\ o[2] \in Nat
        BY <4>1, <1>3 DEF Numbered
      <4> HIDE DEF o
      <4>3. o[2] < Count(c, m) + 1
        BY <4>2, <1>2
      <4> QED BY <4>3 DEF o
    <3> QED BY <3>1, <3>2
  <2> QED BY <2>1, <2>2, <2>3 DEF Founded
<1>11. Ranked(m2)
  <2> DEFINE N == Cardinality(DOMAIN m)
  <2>1. PICK rank \in [DOMAIN m -> 1..N] :
          \A i \in DOMAIN m : m[i].over # Nothing => rank[m[i].over] < rank[i]
    BY DEF Library, Ranked
  <2>2. N \in Nat
    BY <1>1, FS_CardinalityType
  <2> HIDE DEF N
  <2> DEFINE q == [i \in DOMAIN m2 |-> IF i = item THEN N + 1 ELSE rank[i]]
  <2>3. \A i \in DOMAIN m : q[i] = rank[i] /\ rank[i] \in 1..N
    BY <1>5, <2>1
  <2>4. q[item] = N + 1
    OBVIOUS
  <2>5. q \in [DOMAIN m2 -> 1..(N + 1)]
    <3> SUFFICES ASSUME NEW i \in DOMAIN m2
                 PROVE  (IF i = item THEN N + 1 ELSE rank[i]) \in 1..(N + 1)
      OBVIOUS
    <3>1. CASE i = item
      BY <3>1, <2>2
    <3>2. CASE i # item
      BY <3>2, <2>2, <2>3
    <3> QED BY <3>1, <3>2
  <2> HIDE DEF q
  <2>6. ASSUME NEW i \in DOMAIN m2, m2[i].over # Nothing
        PROVE  q[m2[i].over] < q[i]
    <3>1. CASE i = item
      <4>1. m2[i].over \in DOMAIN m
        BY <3>1, <2>6
      <4>2. q[m2[i].over] \in 1..N
        BY <4>1, <2>3
      <4> QED BY <4>2, <2>2, <2>4, <3>1
    <3>2. CASE i # item
      <4>1. i \in DOMAIN m /\ m2[i] = m[i]
        BY <3>2
      <4>2. m[i].over \in DOMAIN m
        BY <4>1, <2>6, <1>1
      <4> QED BY <4>1, <4>2, <2>1, <2>3, <2>6
    <3> QED BY <3>1, <3>2
  <2> QED BY <2>5, <2>6, <1>6 DEF Ranked, N
<1>12. Consecutive(m2)
  <2> SUFFICES ASSUME NEW d \in Clients
               PROVE  /\ Has(DOMAIN m2, d, Count(d, m2))
                      /\ \A i \in MadeBy(d, m2) : i[2] <= Count(d, m2)
    BY DEF Consecutive
  <2>1. CASE d # c
    BY <2>1, <1>3, <1>7, <1>9 DEF Has
  <2>2. CASE d = c
    <3>1. ASSUME NEW k \in 1..Count(d, m2) PROVE <<d, k>> \in DOMAIN m2
      <4>1. k \in 1..Count(c, m) \/ k = Count(c, m) + 1
        BY <2>2, <1>2, <1>8
      <4> QED BY <4>1, <2>2, <1>3 DEF Has
    <3>2. ASSUME NEW i \in MadeBy(d, m2) PROVE i[2] <= Count(d, m2)
      <4>1. CASE i = item
        BY <4>1, <2>2, <1>2, <1>4, <1>8
      <4>2. CASE i \in MadeBy(c, m)
        <5>1. i[2] <= Count(c, m) /\ i[2] \in Nat
          BY <4>2, <1>1, <1>3 DEF MadeBy, Numbered
        <5> QED BY <5>1, <2>2, <1>2, <1>8
      <4> QED BY <4>1, <4>2, <1>7, <2>2
    <3> QED BY <3>1, <3>2 DEF Has
  <2> QED BY <2>1, <2>2
<1> QED BY <1>2, <1>4, <1>5, <1>6, <1>8, <1>9, <1>10, <1>11, <1>12 DEF Library

\* What an edit does to the replicas, and the frame that tells of it.
EditFrame(c, k) ==
  LET item  == <<c, Count(c, made) + 1>>
      over  == LastOf[doc[c].items][k]
      items == doc[c].items \cup {item}
      gone  == doc[c].gone \cup ({over} \ {Nothing})
  IN Update(Document({item}, gone \cap items))

LEMMA EditedReplicas ==
  ASSUME Inv, NEW c \in Clients, NEW k \in Cells, Edit(c, k)
  PROVE  /\ WorldInv' /\ ReplicaTypes' /\ HeldInv' /\ Grown
         /\ EditFrame(c, k) \in Papers' /\ Count(c, made) \in Nat
         /\ Carries(EditFrame(c, k), c, Count(c, made), Count(c, made'))
         /\ Count(c, made') \in Nat
         /\ \A d \in Clients : d # c => Count(d, made') = Count(d, made)
<1>1. WorldInv /\ ReplicaTypes /\ HeldInv /\ Library(made) /\ World
  BY WorldIs DEF Inv, WorldInv
<1> DEFINE item  == <<c, Count(c, made) + 1>>
           over  == LastOf[doc[c].items][k]
           items == doc[c].items \cup {item}
           gone  == doc[c].gone \cup ({over} \ {Nothing})
           frame == Update(Document({item}, gone \cap items))
<1>2. /\ MayGoOn /\ UNCHANGED <<held, spins, connects>>
      /\ made' = [i \in Items \cup {item} |->
                   IF i = item THEN [cell |-> k, over |-> over] ELSE made[i]]
      /\ doc' = [doc EXCEPT ![c] = Document(items, gone)]
  BY DEF Edit, Count, MadeBy, Items
<1>3. doc[c] \in Documents /\ doc[c].items \in SUBSET Items /\ doc[c].gone \in SUBSET Items
  BY <1>1, OwnItems
<1>4. over \in doc[c].items \cup {Nothing}
  BY <1>1, <1>3, LastOfIs DEF Library, Items
<1>5. EditFrame(c, k) = frame
  BY DEF EditFrame
<1> HIDE DEF over, item
<1>6. /\ Items' = Items \cup {item} /\ DOMAIN made' = DOMAIN made \cup {item}
      /\ made'[item].over = over /\ \A i \in DOMAIN made : i # item => made'[i] = made[i]
  BY <1>2 DEF Items
<1>7. Count(c, made) \in Nat /\ \A i \in MadeBy(c, made) : i[2] \in 1..Count(c, made)
  BY <1>1, CountIs
<1>8. item \notin DOMAIN made
  <2> SUFFICES ASSUME item \in DOMAIN made PROVE FALSE
    OBVIOUS
  <2>1. item \in MadeBy(c, made) /\ item[2] = Count(c, made) + 1
    BY DEF MadeBy, item
  <2>2. Count(c, made) + 1 \in 1..Count(c, made)
    BY <2>1, <1>7
  <2> QED BY <2>2, <1>7
<1>9. \A i \in DOMAIN made : made'[i] = made[i]
  BY <1>6, <1>8
<1>10. made'[item].over \in DOMAIN made \cup {Nothing}
  BY <1>3, <1>4, <1>6 DEF Items
<1>11. item = <<c, Count(c, made) + 1>>
  BY DEF item
<1>12. /\ Library(made') /\ item \in Numbered
       /\ Cardinality(DOMAIN made') = Cardinality(DOMAIN made) + 1
       /\ Count(c, made') = Count(c, made) + 1
       /\ \A d \in Clients : d # c => Count(d, made') = Count(d, made)
  BY <1>1, <1>6, <1>9, <1>10, <1>11, LibraryGrows
<1>13. WorldInv'
  <2>1. connects \in Nat /\ Cardinality(Items) \in Nat /\ connects' = connects
    BY <1>1, <1>2, WorldIs DEF WorldInv
  <2>2. Cardinality(Items') = Cardinality(Items) + 1
    BY <1>12 DEF Items
  <2>3. Cardinality(Items') + connects' <= MaxInputs
    BY <2>1, <2>2, <1>2, BoundsAssumption DEF MayGoOn
  <2> QED BY <1>12, <2>1, <2>3 DEF WorldInv
<1>14. /\ Items \subseteq Items' /\ Documents \subseteq Documents'
       /\ Seq(Documents) \subseteq Seq(Documents')
  BY <1>6, FramesStay
<1>15. /\ doc'[c] = [items |-> items, gone |-> gone]
       /\ doc'[c].items = items /\ doc'[c].gone = gone
       /\ \A d \in Clients : d # c => doc'[d] = doc[d]
  BY <1>1, <1>2 DEF ReplicaTypes, Document
<1>16. items \in SUBSET Items' /\ gone \in SUBSET Items'
  BY <1>3, <1>4, <1>6
<1>17. Document(items, gone) \in Documents'
  BY <1>16 DEF Documents, Document
<1>18. ReplicaTypes'
  <2>1. doc' \in [Clients -> Documents']
    BY <1>1, <1>2, <1>14, <1>17 DEF ReplicaTypes
  <2>2. held' \in [Clients -> Seq(Documents')] /\ spins' \in [Clients -> BOOLEAN]
    BY <1>1, <1>2, <1>14 DEF ReplicaTypes
  <2>3. ASSUME NEW d \in Clients PROVE MadeBy(d, made') \subseteq doc'[d].items
    <3>1. MadeBy(d, made) \subseteq doc[d].items
      BY <1>1 DEF ReplicaTypes
    <3>2. CASE d = c
      <4>1. MadeBy(d, made') \subseteq MadeBy(d, made) \cup {item}
        BY <1>6 DEF MadeBy
      <4> QED BY <4>1, <3>1, <3>2, <1>15
    <3>3. CASE d # c
      <4>1. item[1] = c
        BY <1>11
      <4>2. MadeBy(d, made') = MadeBy(d, made)
        BY <4>1, <3>3, <1>6 DEF MadeBy
      <4> QED BY <4>2, <3>1, <3>3, <1>15
    <3> QED BY <3>2, <3>3
  <2> QED BY <2>1, <2>2, <2>3 DEF ReplicaTypes
<1>19. HeldInv'
  <2> SUFFICES ASSUME NEW x \in Clients, ~spins'[x], NEW n \in 1..Len(held'[x])
               PROVE  BlockedIn(made', doc'[x], held'[x][n])
    BY DEF HeldInv
  <2> DEFINE u == held[x][n]
  <2>1. n \in 1..Len(held[x]) /\ u = held'[x][n] /\ BlockedIn(made, doc[x], u)
    BY <1>1, <1>2 DEF HeldInv
  <2>2. held[x] \in Seq(Documents) /\ doc[x] \in Documents
    BY <1>1 DEF ReplicaTypes
  <2>3. u \in Documents
    BY <2>1, <2>2, ElementOfSeq
  <2>4. /\ doc[x].items \in SUBSET DOMAIN made /\ doc[x].gone \in SUBSET DOMAIN made
        /\ u.items \in SUBSET DOMAIN made /\ u.gone \in SUBSET DOMAIN made
    BY <2>2, <2>3 DEF Documents, Items
  <2>5. CASE x = c
    <3>1. GoesBeyond(made, made', {item})
      BY <1>1, <1>6, <1>8, <1>9 DEF GoesBeyond, Library, Founded
    <3>2. \A i \in {item} : MadeBy(i[1], made) \subseteq doc[x].items
      BY <2>5, <1>1, <1>11 DEF ReplicaTypes
    <3>3. doc'[x].items = doc[x].items \cup {item} /\ doc[x].gone \subseteq doc'[x].gone
      BY <2>5, <1>15
    <3> HIDE DEF u
    <3>4. BlockedIn(made', doc'[x], u)
      BY <2>1, <2>4, <3>1, <3>2, <3>3, BlockedStays
    <3> QED BY <3>4, <2>1
  <2>6. CASE x # c
    <3>1. GoesBeyond(made, made', {})
      BY <1>1, <1>6, <1>9 DEF GoesBeyond, Library, Founded
    <3>2. doc'[x].items = doc[x].items \cup {} /\ doc[x].gone \subseteq doc'[x].gone
      BY <2>6, <1>15
    <3>3. \A i \in {} : MadeBy(i[1], made) \subseteq doc[x].items
      OBVIOUS
    <3> HIDE DEF u
    <3>4. BlockedIn(made', doc'[x], u)
      BY <2>1, <2>4, <3>1, <3>2, <3>3, BlockedStays
    <3> QED BY <3>4, <2>1
  <2> QED BY <2>5, <2>6
<1>20. Grown
  <2>1. \A d \in Clients : doc[d].items \subseteq doc'[d].items
    BY <1>15
  <2> QED BY <2>1, <1>1, <1>13, <1>14, <1>18 DEF Grown
<1>21. frame \in Papers'
  <2>1. {item} \in SUBSET Items' /\ gone \cap items \in SUBSET Items'
    BY <1>6, <1>16
  <2>2. Document({item}, gone \cap items) \in Documents'
    BY <2>1 DEF Documents, Document
  <2> QED BY <2>2 DEF Papers, Update
<1>22. Carries(frame, c, Count(c, made), Count(c, made'))
  <2>1. IsDocument(frame) /\ frame.diff.items = {item}
    BY DEF IsDocument, Update, Document
  <2>2. ASSUME NEW n \in (Count(c, made) + 1)..Count(c, made') PROVE <<c, n>> \in frame.diff.items
    <3>1. n = Count(c, made) + 1
      BY <1>7, <1>12
    <3> QED BY <3>1, <2>1, <1>11
  <2> QED BY <2>1, <2>2 DEF Carries
<1>23. Count(c, made') \in Nat
  BY <1>7, <1>12
<1> QED BY <1>5, <1>7, <1>12, <1>13, <1>18, <1>19, <1>20, <1>21, <1>22, <1>23

\* Without a connection an edit sends nothing, and nobody that opened later waits
\* for it.
LEMMA EditedAlone ==
  ASSUME NetInv, Grown, NEW c \in Clients, link[c] # "open",
         UNCHANGED <<link, queue, toRelay, toClient, seniors, log>>,
         \A d \in Clients : d # c => Count(d, made') = Count(d, made)
  PROVE  NetInv'
<1>1. NetTypes /\ AsksAreOld /\ SeniorsAnswer
  BY DEF NetInv
<1>2. Seq(Papers) \subseteq Seq(Papers') /\ Seq(Frames) \subseteq Seq(Frames')
  BY FramesStay DEF Grown
<1>3. NetTypes'
  BY <1>1, <1>2 DEF NetTypes
<1>4. AsksAreOld'
  <2> SUFFICES ASSUME NEW x \in Clients, NEW y \in Clients, x # y
               PROVE  AskBound(toRelay[x], y, doc'[x].items) /\ AskBound(toClient[y], y, doc'[x].items)
    BY DEF AsksAreOld
  <2>1. AskBound(toRelay[x], y, doc[x].items) /\ AskBound(toClient[y], y, doc[x].items)
    BY <1>1 DEF AsksAreOld
  <2>2. toRelay[x] \in Seq(Frames) /\ toClient[y] \in Seq(Frames)
    BY <1>1 DEF NetTypes
  <2> QED BY <2>1, <2>2, AskBoundGrows
<1>5. SeniorsAnswer'
  <2> SUFFICES ASSUME NEW x \in Clients, NEW y \in seniors[x]
               PROVE  x # y /\ link[x] = "open" /\ link[y] = "open" /\ WillHave(x, y)'
    BY DEF SeniorsAnswer
  <2>1. x # y /\ link[x] = "open" /\ link[y] = "open" /\ WillHave(x, y) /\ y \in Clients
    BY <1>1 DEF SeniorsAnswer, NetTypes
  <2>2. y # c
    BY <2>1
  <2>3. Count(y, made') = Count(y, made) /\ doc[x].items \subseteq doc'[x].items
    BY <2>1, <2>2 DEF Grown
  <2>4. ASSUME Promise(doc[x].items, toClient[x], toRelay[y], queue[y], y, Count(y, made))
        PROVE  Promise(doc'[x].items, toClient[x], toRelay[y], queue[y], y, Count(y, made'))
    BY <2>3, <2>4, PromiseStays
  <2>5. WillHave(x, y)'
    BY <2>1, <2>4 DEF WillHave
  <2> QED BY <2>1, <2>5
<1> QED BY <1>3, <1>4, <1>5 DEF NetInv

\* With one the update goes the way of what was sent before.
LEMMA EditedOnline ==
  ASSUME NetInv, Grown, NEW c \in Clients, NEW f \in Papers',
         Count(c, made') \in Nat, Carries(f, c, Count(c, made), Count(c, made')),
         \A d \in Clients : d # c => Count(d, made') = Count(d, made),
         toClient' = toClient, link' = link, seniors' = seniors, log' = log,
         \/ /\ queue[c] = <<>> /\ queue' = queue
            /\ toRelay' = [toRelay EXCEPT ![c] = Append(@, f)]
         \/ queue' = [queue EXCEPT ![c] = Append(@, f)] /\ toRelay' = toRelay
  PROVE  NetInv'
<1>1. NetTypes /\ AsksAreOld /\ SeniorsAnswer
  BY DEF NetInv
<1>2. Seq(Papers) \subseteq Seq(Papers') /\ Seq(Frames) \subseteq Seq(Frames') /\ Papers' \subseteq Frames'
  <2>1. Seq(Papers) \subseteq Seq(Papers') /\ Seq(Frames) \subseteq Seq(Frames')
    BY FramesStay DEF Grown
  <2> QED BY <2>1 DEF Frames
<1>3. toRelay[c] \in Seq(Frames') /\ queue[c] \in Seq(Papers') /\ f \in Frames'
  BY <1>1, <1>2 DEF NetTypes
<1>4. IsDocument(f)
  BY DEF Papers, IsDocument
<1>5. /\ Append(toRelay[c], f) \in Seq(Frames') /\ Append(queue[c], f) \in Seq(Papers')
      /\ HasAsk(toRelay[c]) => HasAsk(Append(toRelay[c], f))
      /\ \A d, items : AskBound(toRelay[c], d, items) => AskBound(Append(toRelay[c], f), d, items)
  BY <1>3, <1>4, AppendProperties, AsksAppended
<1>6. /\ \A x \in Clients : x # c => toRelay'[x] = toRelay[x] /\ queue'[x] = queue[x]
      /\ \/ toRelay'[c] = Append(toRelay[c], f) /\ queue'[c] = <<>> /\ queue[c] = <<>>
         \/ toRelay'[c] = toRelay[c] /\ queue'[c] = Append(queue[c], f)
  BY <1>1 DEF NetTypes
<1>7. NetTypes'
  <2>1. link' \in [Clients -> Links] /\ seniors' \in [Clients -> SUBSET Clients] /\ log' \in Seq(Papers')
    BY <1>1, <1>2 DEF NetTypes
  <2>2. toClient' \in [Clients -> Seq(Frames')]
    BY <1>1, <1>2 DEF NetTypes
  <2>3. toRelay' \in [Clients -> Seq(Frames')]
    BY <1>1, <1>2, <1>5 DEF NetTypes
  <2>4. queue' \in [Clients -> Seq(Papers')]
    BY <1>1, <1>2, <1>5 DEF NetTypes
  <2> QED BY <2>1, <2>2, <2>3, <2>4 DEF NetTypes
<1>8. AsksAreOld'
  <2> SUFFICES ASSUME NEW x \in Clients, NEW y \in Clients, x # y
               PROVE  AskBound(toRelay'[x], y, doc'[x].items) /\ AskBound(toClient[y], y, doc'[x].items)
    BY DEF AsksAreOld
  <2>1. AskBound(toRelay[x], y, doc[x].items) /\ AskBound(toClient[y], y, doc[x].items)
    BY <1>1 DEF AsksAreOld
  <2>2. toRelay[x] \in Seq(Frames) /\ toClient[y] \in Seq(Frames)
    BY <1>1 DEF NetTypes
  <2>3. AskBound(toRelay[x], y, doc'[x].items) /\ AskBound(toClient[y], y, doc'[x].items)
    BY <2>1, <2>2, AskBoundGrows
  <2>4. toRelay'[x] = toRelay[x] \/ (x = c /\ toRelay'[x] = Append(toRelay[c], f))
    BY <1>6
  <2> QED BY <2>3, <2>4, <1>5
<1>9. SeniorsAnswer'
  <2> SUFFICES ASSUME NEW x \in Clients, NEW y \in seniors[x]
               PROVE  x # y /\ link[x] = "open" /\ link[y] = "open" /\ WillHave(x, y)'
    BY DEF SeniorsAnswer
  <2>1. x # y /\ link[x] = "open" /\ link[y] = "open" /\ WillHave(x, y) /\ y \in Clients
    BY <1>1 DEF SeniorsAnswer, NetTypes
  <2>2. doc[x].items \subseteq doc'[x].items
    BY DEF Grown
  <2>3. HasAsk(toRelay[x]) => HasAsk(toRelay'[x])
    BY <1>5, <1>6
  <2>4. ASSUME Promise(doc[x].items, toClient[x], toRelay[y], queue[y], y, Count(y, made))
        PROVE  Promise(doc'[x].items, toClient[x], toRelay'[y], queue'[y], y, Count(y, made'))
    <3>1. CASE y = c
      <4>1. toClient[x] \in Seq(Frames')
        BY <1>1, <1>2 DEF NetTypes
      <4>2. Promise(doc[x].items, toClient[x], toRelay[c], queue[c], c, Count(c, made))
        BY <2>4, <3>1
      <4>3. CASE toRelay'[c] = Append(toRelay[c], f) /\ queue'[c] = <<>> /\ queue[c] = <<>>
        <5>1. Promise(doc[x].items, toClient[x], toRelay[c], <<>>, c, Count(c, made))
          BY <4>2, <4>3
        <5>2. Promise(doc[x].items, toClient[x], Append(toRelay[c], f), <<>>, c, Count(c, made'))
          BY <5>1, <4>1, <1>3, PromiseSent
        <5>3. Promise(doc'[x].items, toClient[x], Append(toRelay[c], f), <<>>, c, Count(c, made'))
          BY <5>2, <2>2, PromiseStays
        <5> QED BY <5>3, <4>3, <3>1
      <4>4. CASE toRelay'[c] = toRelay[c] /\ queue'[c] = Append(queue[c], f)
        <5>1. queue[c] \in Seq(Papers')
          BY <1>3
        <5>2. Promise(doc[x].items, toClient[x], toRelay[c], Append(queue[c], f), c, Count(c, made'))
          BY <4>2, <5>1, PromiseQueued
        <5>3. Promise(doc'[x].items, toClient[x], toRelay[c], Append(queue[c], f), c, Count(c, made'))
          BY <5>2, <2>2, PromiseStays
        <5> QED BY <5>3, <4>4, <3>1
      <4> QED BY <4>3, <4>4, <1>6
    <3>2. CASE y # c
      <4>1. Count(y, made') = Count(y, made) /\ toRelay'[y] = toRelay[y] /\ queue'[y] = queue[y]
        BY <3>2, <2>1, <1>6
      <4> QED BY <4>1, <2>2, <2>4, PromiseStays
    <3> QED BY <3>1, <3>2
  <2>5. WillHave(x, y)'
    BY <2>1, <2>3, <2>4 DEF WillHave
  <2> QED BY <2>1, <2>5
<1> QED BY <1>7, <1>8, <1>9 DEF NetInv

LEMMA EditStep ==
  ASSUME Inv, NEW c \in Clients, NEW k \in Cells, Edit(c, k)
  PROVE  Inv'
<1>1. /\ WorldInv' /\ ReplicaTypes' /\ HeldInv' /\ Grown
      /\ EditFrame(c, k) \in Papers'
      /\ Carries(EditFrame(c, k), c, Count(c, made), Count(c, made'))
      /\ Count(c, made') \in Nat
      /\ \A d \in Clients : d # c => Count(d, made') = Count(d, made)
  BY EditedReplicas
<1>2. NetInv /\ NetTypes
  BY DEF Inv, NetInv
<1>3. log' = log /\ IF link[c] = "open" THEN Sends(c, EditFrame(c, k), toClient[c])
                    ELSE UNCHANGED <<provider, sockets, seniors>>
  BY DEF Edit, EditFrame, Count, MadeBy, Items
<1>4. CASE link[c] # "open"
  <2>1. UNCHANGED <<link, queue, toRelay, toClient, seniors, log>>
    BY <1>3, <1>4 DEF provider, sockets
  <2>2. NetInv'
    BY <1>1, <1>2, <1>4, <2>1, EditedAlone
  <2> QED BY <1>1, <2>2 DEF Inv
<1>5. CASE link[c] = "open"
  <2> DEFINE f == EditFrame(c, k)
  <2>1. Sends(c, f, toClient[c])
    BY <1>3, <1>5
  <2> HIDE DEF f
  <2>2. CASE SocketGone(c, "off")
    <3>1. NetInv'
      BY <1>1, <1>2, <1>3, <2>2, QuitKeeps DEF Links
    <3> QED BY <1>1, <3>1 DEF Inv
  <2>3. ASSUME toClient' = [toClient EXCEPT ![c] = toClient[c]], link' = link, seniors' = seniors,
               \/ /\ queue[c] = <<>> /\ queue' = queue
                  /\ toRelay' = [toRelay EXCEPT ![c] = Append(@, f)]
               \/ queue' = [queue EXCEPT ![c] = Append(@, f)] /\ toRelay' = toRelay
        PROVE  NetInv'
    <3>1. toClient' = toClient
      BY <2>3, <1>2 DEF NetTypes
    <3>2. f \in Papers' /\ Carries(f, c, Count(c, made), Count(c, made'))
      BY <1>1 DEF f
    <3> QED BY <3>1, <3>2, <2>3, <1>1, <1>2, <1>3, EditedOnline
  <2>4. CASE NetInv'
    BY <2>4, <1>1 DEF Inv
  <2> QED BY <2>1, <2>2, <2>3, <2>4, SendsIs
<1> QED BY <1>4, <1>5

----------------------------------------------------------------------------
(* The theorems.                                                            *)

LEMMA NextInv == Inv /\ [Next]_vars => Inv'
<1> SUFFICES ASSUME Inv, [Next]_vars PROVE Inv'
  OBVIOUS
<1>1. CASE Next
  <2>1. PICK c \in Clients :
          \/ \E k \in Cells : Edit(c, k)
          \/ Connect(c) \/ Opened(c) \/ ConnectionLost(c) \/ Disconnect(c)
          \/ Deliver(c) \/ Drain(c)
          \/ Accept(c) \/ Relays(c)
    BY <1>1 DEF Next
  <2>2. CASE \E k \in Cells : Edit(c, k)
    BY <2>2, EditStep
  <2>3. CASE Connect(c)
    BY <2>3, ConnectStep
  <2>4. CASE Opened(c)
    BY <2>4, OpenedStep
  <2>5. CASE ConnectionLost(c) \/ Disconnect(c)
    BY <2>5, LostStep
  <2>6. CASE Deliver(c)
    BY <2>6, DeliverStep
  <2>7. CASE Drain(c)
    BY <2>7, DrainStep
  <2>8. CASE Accept(c)
    BY <2>8, AcceptStep
  <2>9. CASE Relays(c)
    BY <2>9, RelaysStep
  <2> QED BY <2>1, <2>2, <2>3, <2>4, <2>5, <2>6, <2>7, <2>8, <2>9
<1>2. CASE UNCHANGED vars
  <2>1. /\ UNCHANGED <<made, replica>> /\ connects' = connects
        /\ UNCHANGED <<link, queue, toRelay, toClient, log, seniors>>
    BY <1>2 DEF vars, provider, sockets
  <2>2. /\ WorldInv' /\ ReplicaTypes' /\ HeldInv' /\ Papers' = Papers /\ Frames' = Frames
        /\ \A c \in Clients : doc'[c].items = doc[c].items /\ Count(c, made') = Count(c, made)
    BY <2>1, ReplicasStay DEF Inv
  <2>3. NetTypes'
    BY <2>1, <2>2 DEF Inv, NetInv, NetTypes
  <2>4. AsksAreOld' /\ SeniorsAnswer'
    <3>1. made' = made /\ doc' = doc
      BY <2>1 DEF replica
    <3> QED BY <3>1, <2>1 DEF Inv, NetInv, AsksAreOld, SeniorsAnswer, WillHave
  <2> QED BY <2>2, <2>3, <2>4 DEF Inv, NetInv
<1> QED BY <1>1, <1>2

LEMMA InvHolds == Spec => []Inv
BY InitInv, NextInv, PTL DEF Spec

\* What was held back could not be taken then and cannot now: neither what came
\* later nor what was typed meanwhile fills its gap unseen.
LEMMA InvIsBlocked == Inv => HeldIsBlocked
<1> SUFFICES ASSUME Inv, NEW c \in Clients, ~spins[c], NEW d \in ToSet(held[c])
             PROVE  IsPending(Staged[doc[c]][d], d) /\ Vector[Staged[doc[c]][d]] = Vector[doc[c]]
  BY DEF HeldIsBlocked
<1>1. WorldInv /\ ReplicaTypes /\ HeldInv /\ World
  BY WorldIs DEF Inv
<1>2. PICK n \in 1..Len(held[c]) : d = held[c][n]
  <2>1. held[c] \in Seq(Documents)
    BY <1>1 DEF ReplicaTypes
  <2> QED BY <2>1 DEF ToSet
<1>3. doc[c] \in Documents /\ held[c] \in Seq(Documents)
  BY <1>1 DEF ReplicaTypes
<1>4. d \in Documents
  BY <1>2, <1>3, ElementOfSeq
<1>5. BlockedIn(made, doc[c], d)
  BY <1>1, <1>2 DEF HeldInv
<1> QED BY <1>1, <1>3, <1>4, <1>5, BlockedIs

LEMMA InvCatchesUp == Inv => NewcomersCatchUp
<1> SUFFICES ASSUME Inv, Quiet, NEW c \in Clients, NEW d \in Clients, Senior(d, c),
                    NEW i \in doc[d].items
             PROVE  i \in doc[c].items
  BY DEF NewcomersCatchUp
<1>1. WorldInv /\ ReplicaTypes /\ NetInv
  BY DEF Inv
<1>2. c # d /\ WillHave(c, d)
  BY <1>1 DEF NetInv, SeniorsAnswer, Senior
<1>3. /\ toRelay[c] = <<>> /\ toClient[d] = <<>> /\ toClient[c] = <<>>
      /\ toRelay[d] = <<>> /\ queue[d] = <<>>
  BY DEF Quiet
<1>4. ~HasAsk(<<>>)
  BY EmptySeq DEF HasAsk
<1>5. Promise(doc[c].items, <<>>, <<>>, <<>>, d, Count(d, made))
  BY <1>2, <1>3, <1>4 DEF WillHave
<1>6. Has(doc[c].items, d, Count(d, made))
  BY <1>5, PromiseKept
<1>7. i \in Items
  BY <1>1, OwnItems
<1>8. CASE i[1] = d
  <2>1. i \in MadeBy(d, made)
    BY <1>7, <1>8 DEF MadeBy, Items
  <2>2. i = <<d, i[2]>> /\ i[2] \in 1..Count(d, made)
    BY <2>1, <1>1, CountIs
  <2> QED BY <2>2, <1>6 DEF Has
<1>9. CASE i[1] # d
  BY <1>1, <1>2, <1>7, <1>9, OwnItems
<1> QED BY <1>8, <1>9

\* Whatever order the pieces arrive in: a replica that is not resolving for ever
\* holds nothing back that it could take or that would bring a client's items
\* further (resolve_pending_remote_updates).
THEOREM HeldUpdatesAreBlocked == Spec => []HeldIsBlocked
BY InvHolds, InvIsBlocked, PTL

\* Whenever nothing is on its way, who opened when another was there has all of
\* the other's items, however much of the log was dropped, whatever the socket
\* refused and however often either reconnected (handleOpen, respondToSyncStep1).
THEOREM NewcomersAreComplete == Spec => []NewcomersCatchUp
BY InvHolds, InvCatchesUp, PTL
===============================================================================
