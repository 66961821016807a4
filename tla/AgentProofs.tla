----------------------------- MODULE AgentProofs -----------------------------
(* Proofs about Agent: the types, and that the agent always wakes.         *)
EXTENDS Agent, FiniteSetTheorems, SequenceTheorems, WellFoundedInduction, TLAPS

(* A nonempty set of natural numbers has a least one, and a bounded one a  *)
(* greatest: Max is that.                                                  *)
LEMMA Least ==
  ASSUME NEW T, T \subseteq Nat, T # {}
  PROVE  \E x \in T : \A y \in T : x <= y
<1> DEFINE R == { p \in Nat \X Nat : p[1] < p[2] }
<1>1. IsWellFoundedOn(R, Nat)
  BY NatLessThanWellFounded DEF OpToRel
<1>2. PICK x \in T : \A y \in T : ~(<<y, x>> \in R)
  <2> HIDE DEF R
  <2> QED BY <1>1, WFMin
<1>3. ASSUME NEW y \in T PROVE x <= y
  <2>1. x \in Nat /\ y \in Nat /\ <<y, x>> \in Nat \X Nat
    OBVIOUS
  <2>2. <<y, x>> \notin R
    BY <1>2
  <2>3. ~(y < x)
    BY <2>1, <2>2
  <2> QED BY <2>1, <2>3
<1> QED
  BY <1>3

LEMMA MaxOfBounded ==
  ASSUME NEW n \in Nat, NEW S, S \subseteq 0 .. n, S # {}
  PROVE  Max(S) \in S /\ \A y \in S : Max(S) >= y
<1> DEFINE T == { n - x : x \in S }
<1>1. T \subseteq Nat /\ T # {}
  <2>1. ASSUME NEW x \in S PROVE n - x \in Nat
    <3>1. x \in 0 .. n
      OBVIOUS
    <3> QED BY <3>1
  <2> QED BY <2>1
<1>2. PICK t \in T : \A u \in T : t <= u
  <2> HIDE DEF T
  <2> QED BY <1>1, Least
<1>3. PICK x \in S : t = n - x
  BY <1>2
<1>4. ASSUME NEW y \in S PROVE x >= y
  <2>1. n - y \in T /\ n - x <= n - y
    BY <1>2, <1>3
  <2> QED BY <2>1
<1> QED
  BY <1>4 DEF Max

(* Every element of list t is e or one of list s.                          *)
From(t, s, e) == \A i \in DOMAIN t : t[i] = e \/ \E j \in DOMAIN s : t[i] = s[j]
Has(t, e) == \E i \in DOMAIN t : t[i] = e

(* The places of a list with one element more, and with one less           *)
LEMMA InsertAtPlaces ==
  ASSUME NEW E, NEW s \in Seq(E), NEW e \in E, NEW k \in 0 .. Len(s)
  PROVE  LET t == InsertAt(s, k + 1, e)
         IN  /\ t \in Seq(E) /\ Len(t) = Len(s) + 1
             /\ \A i \in 1 .. Len(s) + 1 :
                  t[i] = IF i <= k THEN s[i] ELSE IF i = k + 1 THEN e ELSE s[i - 1]
<1> DEFINE a == SubSeq(s, 1, k)
           b == SubSeq(s, k + 1, Len(s))
           c == a \o <<e>>
           t == c \o b
<1>1. a \in Seq(E) /\ Len(a) = k /\ \A i \in 1 .. k : a[i] = s[i]
  OBVIOUS
<1>2. b \in Seq(E) /\ Len(b) = Len(s) - k /\ \A i \in 1 .. Len(s) - k : b[i] = s[k + i]
  OBVIOUS
<1>3. InsertAt(s, k + 1, e) = t
  <2>1. (k + 1) - 1 = k
    OBVIOUS
  <2> QED BY <2>1 DEF InsertAt
<1> HIDE DEF a, b
<1>4. c \in Seq(E) /\ Len(c) = k + 1 /\ c[k + 1] = e /\ \A i \in 1 .. k : c[i] = s[i]
  BY <1>1
<1> HIDE DEF c
<1>5. /\ t \in Seq(E) /\ Len(t) = Len(c) + Len(b)
      /\ \A i \in 1 .. Len(c) + Len(b) : t[i] = IF i <= Len(c) THEN c[i] ELSE b[i - Len(c)]
  BY <1>2, <1>4, ConcatProperties
<1>6. Len(c) + Len(b) = Len(s) + 1
  BY <1>2, <1>4
<1> HIDE DEF t
<1>7. ASSUME NEW i \in 1 .. Len(s) + 1
      PROVE  t[i] = IF i <= k THEN s[i] ELSE IF i = k + 1 THEN e ELSE s[i - 1]
  <2>1. t[i] = IF i <= k + 1 THEN c[i] ELSE b[i - (k + 1)]
    BY <1>4, <1>5, <1>6
  <2>2. CASE i <= k + 1
    BY <2>1, <2>2, <1>4
  <2>3. CASE i > k + 1
    <3>1. i - (k + 1) \in 1 .. Len(s) - k /\ k + (i - (k + 1)) = i - 1
      BY <2>3
    <3>2. b[i - (k + 1)] = s[i - 1]
      BY <1>2, <3>1
    <3> QED BY <2>1, <2>3, <3>2
  <2> QED BY <2>2, <2>3
<1> QED
  BY <1>3, <1>5, <1>6, <1>7

LEMMA RemoveAtPlaces ==
  ASSUME NEW E, NEW s \in Seq(E), NEW k \in 1 .. Len(s)
  PROVE  LET t == RemoveAt(s, k)
         IN  /\ t \in Seq(E) /\ Len(t) = Len(s) - 1
             /\ \A i \in 1 .. Len(s) - 1 : t[i] = IF i < k THEN s[i] ELSE s[i + 1]
<1> DEFINE a == SubSeq(s, 1, k - 1)
           b == SubSeq(s, k + 1, Len(s))
           t == a \o b
<1>1. a \in Seq(E) /\ Len(a) = k - 1 /\ \A i \in 1 .. k - 1 : a[i] = s[i]
  OBVIOUS
<1>2. b \in Seq(E) /\ Len(b) = Len(s) - k /\ \A i \in 1 .. Len(s) - k : b[i] = s[k + i]
  OBVIOUS
<1>3. RemoveAt(s, k) = t
  BY DEF RemoveAt
<1> HIDE DEF a, b
<1>4. /\ t \in Seq(E) /\ Len(t) = Len(a) + Len(b)
      /\ \A i \in 1 .. Len(a) + Len(b) : t[i] = IF i <= Len(a) THEN a[i] ELSE b[i - Len(a)]
  BY <1>1, <1>2, ConcatProperties
<1>5. Len(a) + Len(b) = Len(s) - 1
  BY <1>1, <1>2
<1> HIDE DEF t
<1>6. ASSUME NEW i \in 1 .. Len(s) - 1
      PROVE  t[i] = IF i < k THEN s[i] ELSE s[i + 1]
  <2>1. t[i] = IF i <= k - 1 THEN a[i] ELSE b[i - (k - 1)]
    BY <1>1, <1>4, <1>5
  <2>2. CASE i < k
    BY <2>1, <2>2, <1>1
  <2>3. CASE i >= k
    <3>1. i - (k - 1) \in 1 .. Len(s) - k /\ k + (i - (k - 1)) = i + 1
      BY <2>3
    <3>2. b[i - (k - 1)] = s[i + 1]
      BY <1>2, <3>1
    <3> QED BY <2>1, <2>3, <3>2
  <2> QED BY <2>2, <2>3
<1> QED
  BY <1>3, <1>4, <1>5, <1>6

(* InsertAt and RemoveAt leave the other elements in the list.             *)
LEMMA InsertAtElements ==
  ASSUME NEW E, NEW s \in Seq(E), NEW e \in E, NEW k \in 0 .. Len(s)
  PROVE  /\ InsertAt(s, k + 1, e) \in Seq(E)
         /\ Has(InsertAt(s, k + 1, e), e) /\ From(InsertAt(s, k + 1, e), s, e)
<1> DEFINE t == InsertAt(s, k + 1, e)
<1>1. /\ t \in Seq(E) /\ Len(t) = Len(s) + 1
      /\ \A i \in 1 .. Len(s) + 1 :
           t[i] = IF i <= k THEN s[i] ELSE IF i = k + 1 THEN e ELSE s[i - 1]
  BY InsertAtPlaces
<1> HIDE DEF t
<1>2. DOMAIN t = 1 .. Len(s) + 1 /\ DOMAIN s = 1 .. Len(s)
  BY <1>1
<1>3. Has(t, e)
  <2>1. k + 1 \in 1 .. Len(s) + 1 /\ t[k + 1] = e
    BY <1>1
  <2> QED BY <1>2, <2>1 DEF Has
<1>4. ASSUME NEW i \in 1 .. Len(s) + 1 PROVE t[i] = e \/ \E j \in 1 .. Len(s) : t[i] = s[j]
  <2>1. CASE i <= k
    BY <1>1, <2>1
  <2>2. CASE i > k + 1
    <3>1. i - 1 \in 1 .. Len(s) /\ t[i] = s[i - 1]
      BY <1>1, <2>2
    <3> QED BY <3>1
  <2>3. CASE i = k + 1
    BY <1>1, <2>3
  <2> QED BY <2>1, <2>2, <2>3
<1>5. t \in Seq(E) /\ Has(t, e) /\ From(t, s, e)
  BY <1>1, <1>2, <1>3, <1>4 DEF From
<1> QED
  BY <1>5 DEF t

LEMMA RemoveAtElements ==
  ASSUME NEW E, NEW s \in Seq(E), NEW k \in 1 .. Len(s)
  PROVE  /\ RemoveAt(s, k) \in Seq(E) /\ Len(RemoveAt(s, k)) = Len(s) - 1
         /\ \A i \in DOMAIN RemoveAt(s, k) : \E j \in DOMAIN s : RemoveAt(s, k)[i] = s[j]
<1> DEFINE t == RemoveAt(s, k)
<1>1. /\ t \in Seq(E) /\ Len(t) = Len(s) - 1
      /\ \A i \in 1 .. Len(s) - 1 : t[i] = IF i < k THEN s[i] ELSE s[i + 1]
  BY RemoveAtPlaces
<1> HIDE DEF t
<1>2. DOMAIN t = 1 .. Len(s) - 1 /\ DOMAIN s = 1 .. Len(s)
  BY <1>1
<1>3. ASSUME NEW i \in 1 .. Len(s) - 1 PROVE \E j \in 1 .. Len(s) : t[i] = s[j]
  <2>1. i \in 1 .. Len(s) /\ i + 1 \in 1 .. Len(s)
    OBVIOUS
  <2> QED BY <1>1, <2>1
<1>4. t \in Seq(E) /\ Len(t) = Len(s) - 1 /\ \A i \in DOMAIN t : \E j \in DOMAIN s : t[i] = s[j]
  BY <1>1, <1>2, <1>3
<1> QED
  BY <1>4 DEF t

(* add_event inserts the event, into the list or one that lacks an event.  *)
LEMMA AddEventForm ==
  ASSUME NEW list \in Seq(Events), NEW e \in Events
  PROVE  \/ \E k \in 0 .. Len(list) : AddEvent(list, e) = InsertAt(list, k + 1, e)
         \/ \E x \in 1 .. Len(list), k \in 0 .. Len(list) - 1 :
              AddEvent(list, e) = InsertAt(RemoveAt(list, x), k + 1, e)
<1> DEFINE earlier == { i \in DOMAIN list : Later(e.time, list[i].time) }
           k == Max({ 0 } \cup earlier)
           same == { i \in DOMAIN list : Name(list[i]) = Name(e) }
           x == CHOOSE i \in same : TRUE
<1>1. Len(list) \in Nat /\ DOMAIN list = 1 .. Len(list)
  OBVIOUS
<1>2. k \in 0 .. Len(list)
  <2>1. earlier \subseteq 1 .. Len(list)
    BY <1>1
  <2> HIDE DEF earlier
  <2>2. { 0 } \cup earlier \subseteq 0 .. Len(list) /\ { 0 } \cup earlier # {}
    BY <1>1, <2>1
  <2>3. k \in { 0 } \cup earlier
    BY <1>1, <2>2, MaxOfBounded
  <2> QED BY <2>2, <2>3
<1>3. AddEvent(list, e) = IF same = {} THEN InsertAt(list, k + 1, e)
                          ELSE InsertAt(RemoveAt(list, x), IF x <= k THEN k ELSE k + 1, e)
  BY DEF AddEvent
<1>4. same # {} => x \in 1 .. Len(list)
  BY <1>1
<1> HIDE DEF k, same, x
<1>5. CASE same = {}
  BY <1>2, <1>3, <1>5
<1>6. CASE same # {}
  <2> DEFINE p == IF x <= k THEN k - 1 ELSE k
  <2>1. x \in 1 .. Len(list)
    BY <1>4, <1>6
  <2>2. p \in 0 .. Len(list) - 1 /\ p + 1 = IF x <= k THEN k ELSE k + 1
    BY <1>1, <1>2, <2>1
  <2>3. AddEvent(list, e) = InsertAt(RemoveAt(list, x), p + 1, e)
    BY <1>3, <1>6, <2>2
  <2> HIDE DEF p
  <2> QED BY <2>1, <2>2, <2>3
<1> QED
  BY <1>5, <1>6

(* The new event is in the list, and every other one was there.            *)
LEMMA AddEventElements ==
  ASSUME NEW list \in Seq(Events), NEW e \in Events
  PROVE  /\ AddEvent(list, e) \in Seq(Events)
         /\ Has(AddEvent(list, e), e) /\ From(AddEvent(list, e), list, e)
<1>1. CASE \E k \in 0 .. Len(list) : AddEvent(list, e) = InsertAt(list, k + 1, e)
  BY <1>1, InsertAtElements
<1>2. CASE \E x \in 1 .. Len(list), k \in 0 .. Len(list) - 1 :
             AddEvent(list, e) = InsertAt(RemoveAt(list, x), k + 1, e)
  <2>1. PICK x \in 1 .. Len(list), k \in 0 .. Len(list) - 1 :
               AddEvent(list, e) = InsertAt(RemoveAt(list, x), k + 1, e)
    BY <1>2
  <2> DEFINE r == RemoveAt(list, x)
  <2>2. /\ r \in Seq(Events) /\ Len(r) = Len(list) - 1
        /\ \A i \in DOMAIN r : \E j \in DOMAIN list : r[i] = list[j]
    BY RemoveAtElements
  <2>3. AddEvent(list, e) = InsertAt(r, k + 1, e)
    BY <2>1
  <2> HIDE DEF r
  <2>4. AddEvent(list, e) \in Seq(Events) /\ Has(AddEvent(list, e), e) /\ From(AddEvent(list, e), r, e)
    BY <2>2, <2>3, InsertAtElements
  <2>5. From(AddEvent(list, e), list, e)
    BY <2>2, <2>4 DEF From
  <2> QED BY <2>4, <2>5
<1> QED
  BY <1>1, <1>2, AddEventForm

(* A total order on S                                                      *)
TotalOrder(S, R) ==
  /\ \A x \in S : <<x, x>> \in R
  /\ \A x \in S, y \in S : <<x, y>> \in R \/ <<y, x>> \in R
  /\ \A x \in S, y \in S : <<x, y>> \in R /\ <<y, x>> \in R => x = y
  /\ \A x \in S, y \in S, z \in S : <<x, y>> \in R /\ <<y, z>> \in R => <<x, z>> \in R

(* A list of all elements of S, each once, and of nothing else             *)
Lists(list, S) ==
  \E n \in Nat :
    /\ list \in [ 1 .. n -> S ] /\ \A x \in S : \E i \in 1 .. n : list[i] = x
    /\ \A i \in 1 .. n, j \in 1 .. n : list[i] = list[j] => i = j

(* Ordered lists a finite set: the number of elements up to one is         *)
(* different for each, so every number up to the size of the set is that   *)
(* of one element.                                                         *)
LEMMA OrderedLists ==
  ASSUME NEW S, IsFiniteSet(S), NEW R, TotalOrder(S, R)
  PROVE  Lists(Ordered(S, R), S)
<1> DEFINE rank == [ x \in S |-> Cardinality(UpTo(S, R, x)) ]
<1>1. Cardinality(S) \in Nat
  BY FS_CardinalityType
<1>2. ASSUME NEW x \in S
      PROVE  /\ IsFiniteSet(UpTo(S, R, x)) /\ x \in UpTo(S, R, x)
             /\ Cardinality(UpTo(S, R, x)) \in 1 .. Cardinality(S)
  <2>1. UpTo(S, R, x) \in SUBSET S /\ x \in UpTo(S, R, x)
    BY DEF UpTo, TotalOrder
  <2>2. IsFiniteSet(UpTo(S, R, x)) /\ Cardinality(UpTo(S, R, x)) <= Cardinality(S)
    BY <2>1, FS_Subset
  <2>3. Cardinality(UpTo(S, R, x)) \in Nat /\ Cardinality(UpTo(S, R, x)) # 0
    <3>1. UpTo(S, R, x) # {}
      BY <2>1
    <3> QED BY <2>2, <3>1, FS_CardinalityType, FS_EmptySet
  <2> QED BY <1>1, <2>1, <2>2, <2>3
<1>3. ASSUME NEW x \in S, NEW y \in S, Cardinality(UpTo(S, R, x)) = Cardinality(UpTo(S, R, y))
      PROVE  x = y
  <2>1. ASSUME NEW u \in S, NEW v \in S, <<u, v>> \in R,
               Cardinality(UpTo(S, R, u)) = Cardinality(UpTo(S, R, v))
        PROVE  u = v
    <3>1. UpTo(S, R, u) \in SUBSET UpTo(S, R, v)
      BY <2>1 DEF UpTo, TotalOrder
    <3>2. UpTo(S, R, v) = UpTo(S, R, u)
      BY <1>2, <2>1, <3>1, FS_Subset
    <3>3. <<v, u>> \in R
      BY <1>2, <3>2 DEF UpTo
    <3> QED BY <2>1, <3>3 DEF TotalOrder
  <2>2. <<x, y>> \in R \/ <<y, x>> \in R
    BY DEF TotalOrder
  <2> QED BY <1>3, <2>1, <2>2
<1>4. rank \in Injection(S, 1 .. Cardinality(S))
  BY <1>2, <1>3 DEF Injection, IsInjective
<1>5. rank \in Surjection(S, 1 .. Cardinality(S))
  <2>1. IsFiniteSet(1 .. Cardinality(S)) /\ Cardinality(1 .. Cardinality(S)) = Cardinality(S)
    BY <1>1, FS_Interval
  <2> HIDE DEF rank
  <2> QED BY <1>4, <2>1, FS_Injection
<1>6. ASSUME NEW n \in 1 .. Cardinality(S)
      PROVE  /\ Ordered(S, R)[n] \in S
             /\ Cardinality(UpTo(S, R, Ordered(S, R)[n])) = n
  <2>1. PICK x \in S : rank[x] = n
    <3> HIDE DEF rank
    <3> QED BY <1>5 DEF Surjection
  <2>2. Cardinality(UpTo(S, R, x)) = n
    BY <2>1
  <2>3. Ordered(S, R)[n] = CHOOSE z \in S : Cardinality(UpTo(S, R, z)) = n
    BY DEF Ordered
  <2> QED BY <2>2, <2>3
<1>7. Ordered(S, R) \in [ 1 .. Cardinality(S) -> S ]
  <2>1. Ordered(S, R) = [ n \in 1 .. Cardinality(S) |-> Ordered(S, R)[n] ]
    BY DEF Ordered
  <2> QED BY <1>6, <2>1
<1>8. ASSUME NEW x \in S
      PROVE  \E n \in 1 .. Cardinality(S) : Ordered(S, R)[n] = x
  BY <1>2, <1>3, <1>6
<1>9. ASSUME NEW i \in 1 .. Cardinality(S), NEW j \in 1 .. Cardinality(S),
             Ordered(S, R)[i] = Ordered(S, R)[j]
      PROVE  i = j
  BY <1>6, <1>9
<1> QED
  BY <1>1, <1>7, <1>8, <1>9 DEF Lists

LEMMA PlacesListed ==
  ASSUME NEW n \in Nat, NEW S \in SUBSET (1 .. n)
  PROVE  Lists(Upwards(S), S) /\ Lists(Downwards(S), S)
<1> DEFINE up == { p \in S \X S : p[1] <= p[2] }
           down == { p \in S \X S : p[1] >= p[2] }
<1>1. IsFiniteSet(S)
  <2>1. IsFiniteSet(1 .. n)
    BY FS_Interval
  <2> QED BY <2>1, FS_Subset
<1>2. \A x \in S : x \in Nat
  OBVIOUS
<1>3. \A x \in S, y \in S : (<<x, y>> \in up <=> x <= y) /\ (<<x, y>> \in down <=> x >= y)
  OBVIOUS
<1>4. TotalOrder(S, up) /\ TotalOrder(S, down)
  <2> HIDE DEF up, down
  <2> QED BY <1>2, <1>3 DEF TotalOrder
<1>5. Upwards(S) = Ordered(S, up) /\ Downwards(S) = Ordered(S, down)
  BY DEF Upwards, Downwards
<1> HIDE DEF up, down
<1> QED
  BY <1>1, <1>4, <1>5, OrderedLists

(* List t shows list[x] for every place x in S, and nothing else.          *)
Shows(t, list, S) ==
  /\ \A i \in DOMAIN t : \E x \in S : t[i] = list[x]
  /\ \A x \in S : \E i \in DOMAIN t : t[i] = list[x]

LEMMA AtElements ==
  ASSUME NEW list, NEW S, \A x \in S : list[x] \in Events, NEW places, Lists(places, S)
  PROVE  At(list, places) \in Seq(Events) /\ Shows(At(list, places), list, S)
<1> PICK m \in Nat : /\ places \in [ 1 .. m -> S ]
                     /\ \A x \in S : \E i \in 1 .. m : places[i] = x
  BY DEF Lists
<1>1. At(list, places) = [ n \in 1 .. m |-> list[places[n]] ]
  BY DEF At
<1>2. \A n \in 1 .. m : places[n] \in S
  OBVIOUS
<1>3. At(list, places) \in Seq(Events)
  BY <1>1, <1>2
<1>4. \A i \in 1 .. m : At(list, places)[i] = list[places[i]]
  BY <1>1
<1>5. DOMAIN At(list, places) = 1 .. m
  BY <1>1
<1>6. \A i \in 1 .. m : \E x \in S : At(list, places)[i] = list[x]
  BY <1>2, <1>4
<1>7. \A x \in S : \E i \in 1 .. m : At(list, places)[i] = list[x]
  BY <1>4
<1> QED
  BY <1>3, <1>5, <1>6, <1>7 DEF Shows

(* Every element of list u is one of list s or of list t.                  *)
Joins(u, s, t) ==
  \A k \in DOMAIN u : (\E i \in DOMAIN s : u[k] = s[i]) \/ (\E i \in DOMAIN t : u[k] = t[i])

LEMMA ConcatElements ==
  ASSUME NEW E, NEW s \in Seq(E), NEW t \in Seq(E)
  PROVE  /\ s \o t \in Seq(E)
         /\ \A i \in DOMAIN s : Has(s \o t, s[i])
         /\ \A i \in DOMAIN t : Has(s \o t, t[i])
         /\ Joins(s \o t, s, t)
<1> DEFINE u == s \o t
<1>1. /\ u \in Seq(E) /\ Len(u) = Len(s) + Len(t)
      /\ \A i \in 1 .. Len(s) + Len(t) : u[i] = IF i <= Len(s) THEN s[i] ELSE t[i - Len(s)]
  BY ConcatProperties
<1>2. /\ Len(s) \in Nat /\ Len(t) \in Nat
      /\ DOMAIN s = 1 .. Len(s) /\ DOMAIN t = 1 .. Len(t)
  OBVIOUS
<1> HIDE DEF u
<1>3. DOMAIN u = 1 .. Len(s) + Len(t)
  BY <1>1
<1>4. ASSUME NEW i \in 1 .. Len(s) PROVE Has(u, s[i])
  <2>1. i \in DOMAIN u /\ u[i] = s[i]
    BY <1>1, <1>2, <1>3
  <2> QED BY <2>1 DEF Has
<1>5. ASSUME NEW i \in 1 .. Len(t) PROVE Has(u, t[i])
  <2>1. i + Len(s) \in DOMAIN u /\ ~(i + Len(s) <= Len(s)) /\ (i + Len(s)) - Len(s) = i
    BY <1>2, <1>3
  <2>2. u[i + Len(s)] = t[i]
    BY <1>1, <1>3, <2>1
  <2> QED BY <2>1, <2>2 DEF Has
<1>6. ASSUME NEW k \in 1 .. Len(s) + Len(t)
      PROVE  (\E i \in 1 .. Len(s) : u[k] = s[i]) \/ (\E i \in 1 .. Len(t) : u[k] = t[i])
  <2>1. CASE k <= Len(s)
    BY <1>1, <1>2, <2>1
  <2>2. CASE ~(k <= Len(s))
    <3>1. k - Len(s) \in 1 .. Len(t) /\ u[k] = t[k - Len(s)]
      BY <1>1, <1>2, <2>2
    <3> QED BY <3>1
  <2> QED BY <2>1, <2>2
<1>7. Joins(u, s, t)
  BY <1>2, <1>3, <1>6 DEF Joins
<1> QED
  BY <1>1, <1>2, <1>4, <1>5, <1>7 DEF u

(* The timer thread: what is left in the timing list is what has not come  *)
(* to 0, and what has is in the timeout list, where nothing is lost.       *)
Ticked(list, outs, left, all) ==
  /\ \A i \in DOMAIN left : \E j \in DOMAIN list :
       left[i] = Decremented(list[j]) /\ Decremented(list[j]).time # 0
  /\ \A j \in DOMAIN list :
       IF Decremented(list[j]).time = 0 THEN Has(all, Decremented(list[j]))
                                        ELSE Has(left, Decremented(list[j]))
  /\ \A i \in DOMAIN outs : Has(all, outs[i])
  /\ \A i \in DOMAIN all : \/ \E j \in DOMAIN list : all[i] = Decremented(list[j])
                           \/ \E j \in DOMAIN outs : all[i] = outs[j]

LEMMA DueEvents ==
  ASSUME NEW list \in Seq(Events), NEW outs \in Seq(Events),
         NEW next, \A i \in DOMAIN list : next[i] = Decremented(list[i]),
         NEW due \in SUBSET DOMAIN list, NEW stay \in SUBSET DOMAIN list,
         \A i \in DOMAIN list : IF next[i].time = 0 THEN i \in due /\ i \notin stay
                                                   ELSE i \in stay /\ i \notin due
  PROVE  LET left == At(next, Upwards(stay))
             all == At(next, Downwards(due)) \o outs
         IN  left \in Seq(Events) /\ all \in Seq(Events) /\ Ticked(list, outs, left, all)
<1> DEFINE left == At(next, Upwards(stay))
           moved == At(next, Downwards(due))
           all == moved \o outs
<1>1. Len(list) \in Nat /\ DOMAIN list = 1 .. Len(list)
  OBVIOUS
<1>2. ASSUME NEW i \in DOMAIN list PROVE Decremented(list[i]) \in Events
  <2>1. list[i] \in Events
    OBVIOUS
  <2>2. list[i].time \in Nat \cup { -1 }
    BY <2>1 DEF Events, Never
  <2>3. (IF list[i].time \in { 0, -1 } THEN -1 ELSE list[i].time - 1) \in Nat \cup { -1 }
    BY <2>2
  <2> QED BY <2>1, <2>3 DEF Decremented, Events, Never
<1>3. due \in SUBSET (1 .. Len(list)) /\ stay \in SUBSET (1 .. Len(list))
  BY <1>1
<1>4. \A i \in DOMAIN list : next[i] = Decremented(list[i]) /\ next[i] \in Events
  BY <1>2
<1>5. /\ \A i \in stay : i \in DOMAIN list /\ next[i] \in Events /\ next[i].time # 0
      /\ \A i \in due : i \in DOMAIN list /\ next[i] \in Events
      /\ \A i \in DOMAIN list : IF Decremented(list[i]).time = 0 THEN i \in due ELSE i \in stay
  BY <1>4
<1>6. Lists(Upwards(stay), stay) /\ Lists(Downwards(due), due)
  BY <1>1, <1>3, PlacesListed
<1>7. left \in Seq(Events) /\ Shows(left, next, stay)
  <2>1. \A x \in stay : next[x] \in Events
    BY <1>5
  <2> QED BY <1>6, <2>1, AtElements, Zenon
<1>8. moved \in Seq(Events) /\ Shows(moved, next, due)
  <2>1. \A x \in due : next[x] \in Events
    BY <1>5
  <2> QED BY <1>6, <2>1, AtElements, Zenon
<1> HIDE DEF left, moved
<1>9. /\ all \in Seq(Events)
      /\ \A i \in DOMAIN moved : Has(all, moved[i])
      /\ \A i \in DOMAIN outs : Has(all, outs[i])
      /\ Joins(all, moved, outs)
  BY <1>8, ConcatElements
<1> HIDE DEF all
<1>10. ASSUME NEW i \in DOMAIN left
       PROVE  \E j \in DOMAIN list :
                left[i] = Decremented(list[j]) /\ Decremented(list[j]).time # 0
  BY <1>4, <1>5, <1>7 DEF Shows
<1>11. ASSUME NEW j \in DOMAIN list, j \in due PROVE Has(all, Decremented(list[j]))
  <2>1. PICK i \in DOMAIN moved : moved[i] = next[j]
    BY <1>8, <1>11 DEF Shows
  <2> QED BY <2>1, <1>4, <1>9
<1>12. ASSUME NEW j \in DOMAIN list, j \in stay PROVE Has(left, Decremented(list[j]))
  <2>1. PICK i \in DOMAIN left : left[i] = next[j]
    BY <1>7, <1>12 DEF Shows
  <2> QED BY <2>1, <1>4 DEF Has
<1>13. ASSUME NEW j \in DOMAIN list
       PROVE  IF Decremented(list[j]).time = 0 THEN Has(all, Decremented(list[j]))
                                               ELSE Has(left, Decremented(list[j]))
  BY <1>5, <1>11, <1>12
<1>14. left \in Seq(Events) /\ all \in Seq(Events) /\ Ticked(list, outs, left, all)
  <2>1. ASSUME NEW i \in DOMAIN all
        PROVE  \/ \E j \in DOMAIN list : all[i] = Decremented(list[j])
               \/ \E j \in DOMAIN outs : all[i] = outs[j]
    <3>1. CASE \E k \in DOMAIN moved : all[i] = moved[k]
      BY <1>4, <1>5, <1>8, <3>1 DEF Shows
    <3> QED BY <1>9, <3>1 DEF Joins
  <2> QED BY <1>7, <1>9, <1>10, <1>13, <2>1 DEF Ticked
<1> QED
  BY <1>14 DEF left, moved, all

LEMMA TickLists ==
  ASSUME TypeOK, Tick
  PROVE  timing' \in Seq(Events) /\ timeout' \in Seq(Events) /\ Ticked(timing, timeout, timing', timeout')
<1> DEFINE next == [ i \in DOMAIN timing |-> Decremented(timing[i]) ]
           due == { i \in DOMAIN timing : next[i].time = 0 }
           stay == DOMAIN timing \ due
<1>1. timing \in Seq(Events) /\ timeout \in Seq(Events)
  BY DEF TypeOK
<1>2. timing' = At(next, Upwards(stay)) /\ timeout' = At(next, Downwards(due)) \o timeout
  BY DEF Tick
<1>3. \A i \in DOMAIN timing : next[i] = Decremented(timing[i])
  OBVIOUS
<1> HIDE DEF next
<1>4. /\ due \in SUBSET DOMAIN timing /\ stay \in SUBSET DOMAIN timing
      /\ \A i \in DOMAIN timing : IF next[i].time = 0 THEN i \in due /\ i \notin stay
                                                      ELSE i \in stay /\ i \notin due
  OBVIOUS
<1> HIDE DEF due, stay
<1> QED
  <2>1. /\ At(next, Upwards(stay)) \in Seq(Events)
        /\ At(next, Downwards(due)) \o timeout \in Seq(Events)
        /\ Ticked(timing, timeout, At(next, Upwards(stay)), At(next, Downwards(due)) \o timeout)
    BY <1>1, <1>3, <1>4, DueEvents, Zenon
  <2> QED BY <1>2, <2>1, Zenon

LEMMA FilesFinite == IsFiniteSet(Files)
<1>1. IsFiniteSet(Kinds)
  <2>1. IsFiniteSet({ "DOWNLOAD" })
    BY FS_Singleton
  <2>2. IsFiniteSet({ "DOWNLOAD" } \cup { "UPLOAD" })
    BY <2>1, FS_AddElement
  <2>3. IsFiniteSet(({ "DOWNLOAD" } \cup { "UPLOAD" }) \cup { "SCHEDULE" })
    BY <2>2, FS_AddElement
  <2>4. Kinds = ({ "DOWNLOAD" } \cup { "UPLOAD" }) \cup { "SCHEDULE" }
    BY DEF Kinds, TransferKinds
  <2> QED BY <2>3, <2>4
<1>2. IsFiniteSet(Requested)
  <2>1. Len(Requests) \in Int
    BY AgentAssumption
  <2> QED BY <2>1, FS_Interval DEF Requested
<1> QED
  BY <1>1, <1>2, FS_Product DEF Files

LEMMA RequestsTyped ==
  /\ Len(Requests) \in Nat
  /\ \A i \in Requested : /\ Requests[i].rpc \in Rpcs /\ Requests[i].delay \in Nat
                          /\ Requests[i].firmware \in BOOLEAN
<1> DEFINE S == [ rpc : Rpcs, delay : Nat, firmware : BOOLEAN ]
<1>1. Requests \in Seq(S)
  BY AgentAssumption
<1>2. \A r \in S : r.rpc \in Rpcs /\ r.delay \in Nat /\ r.firmware \in BOOLEAN
  OBVIOUS
<1> HIDE DEF S
<1>3. Len(Requests) \in Nat /\ \A i \in 1 .. Len(Requests) : Requests[i] \in S
  BY <1>1
<1> QED
  BY <1>2, <1>3 DEF Requested

(* What a task still has to wait is at least a second.                     *)
LEMMA WaitsArePositive ==
  ASSUME TypeOK, NEW f \in Stored, NEW w \in StillToWait(f)
  PROVE  w \in Nat \ { 0 }
<1> DEFINE d == Requests[task[f]].delay
<1>1. task[f] \in Requested
  BY DEF TypeOK, Stored
<1>2. d \in Nat
  BY <1>1, RequestsTyped
<1> HIDE DEF d
<1> DEFINE S == { NOW, d }
<1>3. PICK n \in Nat : S \subseteq 0 .. n /\ S # {}
  <2>1. S \subseteq 0 .. d + 1
    BY <1>2 DEF NOW
  <2> QED BY <1>2, <2>1
<1>4. Max(S) \in S
  <2> HIDE DEF S
  <2> QED BY <1>3, MaxOfBounded
<1>5. Max(S) \in Nat
  BY <1>2, <1>4 DEF NOW
<1>6. w \in NOW .. Max(S)
  BY DEF StillToWait, d
<1> QED
  BY <1>5, <1>6 DEF NOW

(* The order in which init_delay_events leaves its events                  *)
LEMMA DelayOrderTotal ==
  ASSUME NEW waits, \A f \in Stored : waits[f] \in Nat
  PROVE  TotalOrder(Stored, DelayOrder(waits))
<1> DEFINE place == [ DOWNLOAD |-> 0, UPLOAD |-> 1, SCHEDULE |-> 2 ]
           rank == [ f \in Stored |-> 3 * f[2] + place[f[1]] ]
           R == DelayOrder(waits)
<1>1. ASSUME NEW f \in Stored
      PROVE  /\ f = << f[1], f[2] >> /\ f[1] \in Kinds /\ f[2] \in Nat
             /\ place[f[1]] \in { 0, 1, 2 }
  BY DEF Stored, Files, Kinds, TransferKinds, Requested
<1>2. \A f \in Stored : rank[f] = 3 * f[2] + place[f[1]] /\ rank[f] \in Nat
  BY <1>1
<1>3. ASSUME NEW f \in Stored, NEW g \in Stored, rank[f] = rank[g]
      PROVE  f = g
  <2>1. 3 * f[2] + place[f[1]] = 3 * g[2] + place[g[1]]
    BY <1>2, <1>3
  <2>2. f[2] = g[2] /\ place[f[1]] = place[g[1]]
    <3> HIDE DEF place
    <3> QED BY <1>1, <2>1
  <2>3. f[1] = g[1]
    BY <1>1, <2>2 DEF Kinds, TransferKinds
  <2> QED BY <1>1, <2>2, <2>3
<1>4. \A f \in Stored, g \in Stored : AddedBefore(f, g) <=> rank[f] < rank[g]
  BY <1>2 DEF AddedBefore
<1> HIDE DEF rank, place
<1>5. \A f \in Stored, g \in Stored :
        <<f, g>> \in R <=> waits[f] < waits[g] \/ (waits[f] = waits[g] /\ rank[f] >= rank[g])
  BY <1>2, <1>4 DEF DelayOrder
<1> HIDE DEF R
<1>6. TotalOrder(Stored, R)
  BY <1>2, <1>3, <1>5 DEF TotalOrder
<1> QED
  BY <1>6 DEF R

LEMMA DelayEventsTyped ==
  ASSUME TypeOK, NEW waits, \A f \in Stored : waits[f] \in StillToWait(f)
  PROVE  /\ DelayEvents(waits) \in Seq(Events)
         /\ \A i \in DOMAIN DelayEvents(waits) : DelayEvents(waits)[i].type # "INFORM"
<1> DEFINE files == Ordered(Stored, DelayOrder(waits))
           D(f) == Event(f[1], f[2], waits[f], {}, task[f])
<1>1. \A f \in Stored : waits[f] \in Nat
  BY WaitsArePositive
<1>2. IsFiniteSet(Stored)
  BY FilesFinite, FS_Subset DEF Stored
<1>3. Lists(files, Stored)
  BY <1>1, <1>2, DelayOrderTotal, OrderedLists
<1>4. PICK n \in Nat : files \in [ 1 .. n -> Stored ]
  BY <1>3 DEF Lists
<1>5. ASSUME NEW f \in Stored PROVE D(f) \in Events /\ D(f).type # "INFORM"
  <2>1. f[1] \in Kinds /\ f[2] \in Nat /\ task[f] \in { NoKey } \cup Requested
    BY DEF Stored, Files, Requested, TypeOK
  <2>2. f[1] # "INFORM"
    BY <2>1 DEF Kinds, TransferKinds
  <2> QED BY <1>1, <2>1, <2>2 DEF Event, Events
<1>6. DelayEvents(waits) = [ m \in DOMAIN files |-> D(files[m]) ]
  BY DEF DelayEvents
<1> HIDE DEF files, D
<1>7. DOMAIN files = 1 .. n /\ \A m \in 1 .. n : files[m] \in Stored
  BY <1>4
<1>8. DelayEvents(waits) = [ m \in 1 .. n |-> D(files[m]) ]
  BY <1>6, <1>7
<1>9. \A m \in 1 .. n : D(files[m]) \in Events /\ D(files[m]).type # "INFORM"
  BY <1>5, <1>7
<1> QED
  BY <1>8, <1>9
-----------------------------------------------------------------------------
(* The invariant in two parts: the timing list, which only some steps      *)
(* change, and the rest.                                                   *)
LEMMA InformEventTyped ==
  ASSUME NEW t \in Nat, NEW codes \in SUBSET Codes
  PROVE  /\ InformEvent(t, codes) \in Events
         /\ InformEvent(t, codes).type = "INFORM" /\ InformEvent(t, codes).time = t
  BY DEF InformEvent, Event, Events

(* An inform event that is in the timing list and comes due.               *)
InformSet(list) == \E i \in DOMAIN list : list[i].type = "INFORM" /\ list[i].time \in Nat \ { 0 }

LEMMA AddInform ==
  ASSUME NEW list \in Seq(Events), NEW t \in Nat, NEW codes \in SUBSET Codes,
         NEW new, new = AddEvent(list, InformEvent(t, codes))
  PROVE  new \in Seq(Events) /\ (t # 0 => InformSet(new))
<1> DEFINE e == InformEvent(t, codes)
<1>1. e \in Events /\ e.type = "INFORM" /\ e.time = t
  BY InformEventTyped
<1> HIDE DEF e
<1>2. new \in Seq(Events) /\ Has(new, e)
  BY <1>1, AddEventElements DEF e
<1>3. ASSUME t # 0 PROVE InformSet(new)
  BY <1>1, <1>2, <1>3 DEF Has, InformSet
<1> QED
  BY <1>2, <1>3

(* What the table makes of an event                                        *)
LEMMA CallsByType ==
  ASSUME NEW type \in Kinds \cup { "INFORM" }
  PROVE  /\ eventFunc[EventType[type]] \in { "event_download", "event_upload" } => type \in TransferKinds
         /\ eventFunc[EventType[type]] \in { "event_schedule", "event_stun_notify" } => type = "SCHEDULE"
  BY DEF eventFunc, EventType, Kinds, TransferKinds

LEMMA EventTakeStep ==
  ASSUME WakeInv, EventTake
  PROVE  WakeInv'
<1> USE RequestsTyped DEF WakeInv
<1>1. TypeOK'
  BY DEF TypeOK, EventTake, session, disk, history, bounds
<1>2. IndicesFollowRequests'
  BY DEF TypeOK, IndicesFollowRequests, EventTake, session, disk, history, bounds
<1>3. SessionKnows'
  BY DEF TypeOK, SessionKnows, EventTake, session, disk, history, bounds
<1>4. EventThreadHolds'
  BY DEF TypeOK, EventThreadHolds, EventTake, session, disk, history, bounds
<1>5. AlwaysWakes'
  <2> DEFINE n == Len(timeout)
  <2>1. timeout \in Seq(Events) /\ timeout # << >>
    BY DEF TypeOK, AlwaysWakes, EventThreadHolds, EventTake, session, disk, history, bounds
  <2>2. job' = Head(timeout) /\ timeout' = Tail(timeout) /\ UNCHANGED <<pc, wake, timing, silent>>
    BY DEF session, TypeOK, AlwaysWakes, EventThreadHolds, EventTake, session, disk, history, bounds
  <2>3. job.type # "INFORM"
    BY DEF EventThreadHolds, NoEvent, Event, TypeOK, AlwaysWakes, EventThreadHolds, EventTake, session, disk, history, bounds
  <2>4. ASSUME NEW i \in DOMAIN timeout, timeout[i].type = "INFORM"
        PROVE  job'.type = "INFORM" \/ \E j \in DOMAIN timeout' : timeout'[j].type = "INFORM"
    <3>1. CASE i = 1
      BY <2>1, <2>2, <2>4, <3>1
    <3>2. CASE i # 1
      <4>1. i - 1 \in DOMAIN Tail(timeout) /\ Tail(timeout)[i - 1] = timeout[i]
        BY <2>1, <3>2
      <4> QED BY <2>2, <2>4, <4>1
    <3> QED BY <3>1, <3>2
  <2> QED BY <2>2, <2>3, <2>4 DEF AlwaysWakes
<1> QED
  BY <1>1, <1>2, <1>3, <1>4, <1>5

LEMMA EventInformStep ==
  ASSUME WakeInv, EventInform
  PROVE  WakeInv'
<1> USE RequestsTyped DEF WakeInv
<1>1. TypeOK'
  <2>1. gEventCode' \subseteq Codes
    BY DEF TypeOK, EventThreadHolds, Events, TypeOK, EventInform, EventDone, Calls, eventFunc, EventType, session, disk, history, bounds
  <2> QED BY <2>1 DEF TypeOK, EventInform, EventDone, Calls, eventFunc, EventType, session, disk, history, bounds
<1>2. IndicesFollowRequests'
  BY DEF TypeOK, IndicesFollowRequests, EventInform, EventDone, Calls, eventFunc, EventType, session, disk, history, bounds
<1>3. SessionKnows'
  BY DEF TypeOK, SessionKnows, EventInform, EventDone, Calls, eventFunc, EventType, session, disk, history, bounds
<1>4. EventThreadHolds'
  BY DEF TypeOK, EventThreadHolds, EventInform, EventDone, Calls, eventFunc, EventType, session, disk, history, bounds
<1>5. AlwaysWakes'
  BY DEF TypeOK, AlwaysWakes, EventThreadHolds, EventInform, EventDone, Calls, eventFunc, EventType, session, disk, history, bounds
<1> QED
  BY <1>1, <1>2, <1>3, <1>4, <1>5

LEMMA EventTransferStep ==
  ASSUME WakeInv, EventTransfer
  PROVE  WakeInv'
<1> USE RequestsTyped DEF WakeInv
<1>1. TypeOK'
  <2>1. gReboot' \in BOOLEAN
    BY DEF TypeOK, EventTransfer, EventDone, Firmware, Calls, eventFunc, EventType, session, disk, history, bounds
  <2> QED BY <2>1 DEF TypeOK, EventTransfer, EventDone, Firmware, Calls, eventFunc, EventType, session, disk, history, bounds
<1>2. IndicesFollowRequests'
  BY DEF TypeOK, IndicesFollowRequests, EventTransfer, EventDone, Firmware, Calls, eventFunc, EventType, session, disk, history, bounds
<1>3. SessionKnows'
  BY DEF TypeOK, SessionKnows, EventTransfer, EventDone, Firmware, Calls, eventFunc, EventType, session, disk, history, bounds
<1>4. EventThreadHolds'
  <2>1. job \in Events /\ job.type \in Kinds \cup { "INFORM" }
    BY DEF EventThreadHolds, Events, EventTransfer, Calls
  <2>2. job.type \in TransferKinds
    BY <2>1, CallsByType DEF EventTransfer, Calls
  <2> QED BY <2>1, <2>2 DEF EventThreadHolds, EventTransfer, EventDone, Calls
<1>5. AlwaysWakes'
  BY DEF TypeOK, AlwaysWakes, EventThreadHolds, EventTransfer, EventDone, Firmware, Calls, eventFunc, EventType, session, disk, history, bounds
<1> QED
  BY <1>1, <1>2, <1>3, <1>4, <1>5

LEMMA OpenResultStep ==
  ASSUME WakeInv, OpenResult
  PROVE  WakeInv'
<1> USE RequestsTyped DEF WakeInv
<1>1. TypeOK'
  <2>1. result' \in [ Files -> { NoKey, Unwritten } \cup Requested ]
    BY DEF TypeOK, EventThreadHolds, Events, TypeOK, OpenResult, Name, session, history, bounds
  <2> QED BY <2>1 DEF TypeOK, OpenResult, Name, session, history, bounds
<1>2. IndicesFollowRequests'
  BY DEF TypeOK, IndicesFollowRequests, OpenResult, Name, session, history, bounds
<1>3. SessionKnows'
  BY DEF TypeOK, SessionKnows, OpenResult, Name, session, history, bounds
<1>4. EventThreadHolds'
  BY DEF TypeOK, EventThreadHolds, OpenResult, Name, session, history, bounds
<1>5. AlwaysWakes'
  BY DEF TypeOK, AlwaysWakes, EventThreadHolds, OpenResult, Name, session, history, bounds
<1> QED
  BY <1>1, <1>2, <1>3, <1>4, <1>5

LEMMA WriteResultStep ==
  ASSUME WakeInv, WriteResult
  PROVE  WakeInv'
<1> USE RequestsTyped DEF WakeInv
<1>1. TypeOK'
  <2>1. result' \in [ Files -> { NoKey, Unwritten } \cup Requested ] /\ unwritten' \subseteq { NoKey } \cup Requested
    BY DEF TypeOK, EventThreadHolds, Events, TypeOK, WriteResult, Name, session, bounds
  <2> QED BY <2>1 DEF TypeOK, WriteResult, Name, session, bounds
<1>2. IndicesFollowRequests'
  BY DEF TypeOK, IndicesFollowRequests, WriteResult, Name, session, bounds
<1>3. SessionKnows'
  BY DEF TypeOK, SessionKnows, WriteResult, Name, session, bounds
<1>4. EventThreadHolds'
  BY DEF TypeOK, EventThreadHolds, WriteResult, Name, session, bounds
<1>5. AlwaysWakes'
  BY DEF TypeOK, AlwaysWakes, EventThreadHolds, WriteResult, Name, session, bounds
<1> QED
  BY <1>1, <1>2, <1>3, <1>4, <1>5

LEMMA DeleteTaskStep ==
  ASSUME WakeInv, DeleteTask
  PROVE  WakeInv'
<1> USE RequestsTyped DEF WakeInv
<1>1. TypeOK'
  <2>1. gReboot' \in BOOLEAN
    BY DEF TypeOK, DeleteTask, EventDone, Firmware, Name, session, history, bounds
  <2>2. gEventCode' \subseteq Codes
    BY DEF TypeOK, Codes, TypeOK, DeleteTask, EventDone, Firmware, Name, session, history, bounds
  <2>3. task' \in [ Files -> { NoKey } \cup Requested ]
    BY DEF TypeOK, DeleteTask, EventDone, Firmware, Name, session, history, bounds
  <2> QED BY <2>1, <2>2, <2>3 DEF TypeOK, DeleteTask, EventDone, Firmware, Name, session, history, bounds
<1>2. IndicesFollowRequests'
  BY DEF TypeOK, IndicesFollowRequests, DeleteTask, EventDone, Firmware, Name, session, history, bounds
<1>3. SessionKnows'
  BY DEF TypeOK, SessionKnows, DeleteTask, EventDone, Firmware, Name, session, history, bounds
<1>4. EventThreadHolds'
  BY DEF TypeOK, EventThreadHolds, DeleteTask, EventDone, Firmware, Name, session, history, bounds
<1>5. AlwaysWakes'
  <2>1. job.type # "INFORM"
    BY DEF EventThreadHolds, TransferKinds, DeleteTask
  <2> QED BY <2>1 DEF AlwaysWakes, DeleteTask, session, history
<1> QED
  BY <1>1, <1>2, <1>3, <1>4, <1>5

LEMMA WakeStep ==
  ASSUME WakeInv, Wake
  PROVE  WakeInv'
<1> USE RequestsTyped DEF WakeInv
<1>1. TypeOK'
  <2>1. gEventCode' \subseteq Codes
    BY DEF TypeOK, Codes, TypeOK, Wake, Goto, disk, history, bounds
  <2>2. wake' \in Nat
    BY DEF TypeOK, Wake, Goto, disk, history, bounds
  <2>3. gRequestDownloadType' \in BOOLEAN
    BY DEF TypeOK, Wake, Goto, disk, history, bounds
  <2>4. gRetryTimes' \in 0 .. MaxRetryTimes
    BY AgentAssumption DEF TypeOK, Wake, Goto, disk, history, bounds
  <2> QED BY <2>1, <2>2, <2>3, <2>4 DEF TypeOK, Wake, Goto, disk, history, bounds
<1>2. IndicesFollowRequests'
  BY DEF TypeOK, IndicesFollowRequests, Wake, Goto, disk, history, bounds
<1>3. SessionKnows'
  BY DEF TypeOK, SessionKnows, Wake, Goto, disk, history, bounds
<1>4. EventThreadHolds'
  BY DEF TypeOK, EventThreadHolds, Wake, Goto, disk, history, bounds
<1>5. AlwaysWakes'
  BY DEF TypeOK, AlwaysWakes, EventThreadHolds, Wake, Goto, disk, history, bounds
<1> QED
  BY <1>1, <1>2, <1>3, <1>4, <1>5

LEMMA ConnectStep ==
  ASSUME WakeInv, Connect
  PROVE  WakeInv'
<1> USE RequestsTyped DEF WakeInv
<1>1. TypeOK'
  <2>1. gRetryTimes' \in 0 .. MaxRetryTimes
    BY AgentAssumption DEF TypeOK, Connect, Goto, Works, Fails, memory, disk, history, bounds
  <2>2. hostEvents' \in Nat /\ faults' \in Nat /\ crashes' \in Nat
    BY DEF TypeOK, Connect, Goto, Works, Fails, memory, disk, history, bounds
  <2> QED BY <2>1, <2>2 DEF TypeOK, Connect, Goto, Works, Fails, memory, disk, history, bounds
<1>2. IndicesFollowRequests'
  BY DEF TypeOK, IndicesFollowRequests, Connect, Goto, Works, Fails, memory, disk, history, bounds
<1>3. SessionKnows'
  BY DEF TypeOK, SessionKnows, Connect, Goto, Works, Fails, memory, disk, history, bounds
<1>4. EventThreadHolds'
  BY DEF TypeOK, EventThreadHolds, Connect, Goto, Works, Fails, memory, disk, history, bounds
<1>5. AlwaysWakes'
  BY DEF TypeOK, AlwaysWakes, EventThreadHolds, Connect, Goto, Works, Fails, memory, disk, history, bounds
<1> QED
  BY <1>1, <1>2, <1>3, <1>4, <1>5

LEMMA UpdateInformStep ==
  ASSUME WakeInv, UpdateInform
  PROVE  WakeInv'
<1> USE RequestsTyped DEF WakeInv
<1>1. TypeOK'
  <2>1. gEventCode' \subseteq Codes
    BY DEF TypeOK, Codes, TypeOK, UpdateInform, Goto, disk, history, bounds
  <2> QED BY <2>1 DEF TypeOK, UpdateInform, Goto, disk, history, bounds
<1>2. IndicesFollowRequests'
  BY DEF TypeOK, IndicesFollowRequests, UpdateInform, Goto, disk, history, bounds
<1>3. SessionKnows'
  BY DEF TypeOK, SessionKnows, UpdateInform, Goto, disk, history, bounds
<1>4. EventThreadHolds'
  BY DEF TypeOK, EventThreadHolds, UpdateInform, Goto, disk, history, bounds
<1>5. AlwaysWakes'
  BY DEF TypeOK, AlwaysWakes, EventThreadHolds, UpdateInform, Goto, disk, history, bounds
<1> QED
  BY <1>1, <1>2, <1>3, <1>4, <1>5

LEMMA SendInformStep ==
  ASSUME WakeInv, SendInform
  PROVE  WakeInv'
<1> USE RequestsTyped DEF WakeInv
<1>1. TypeOK'
  <2>1. gRetryTimes' \in 0 .. MaxRetryTimes
    BY AgentAssumption DEF TypeOK, SessionKnows, TypeOK, SendInform, Goto, Works, Fails, history, bounds
  <2>2. hostEvents' \in Nat /\ faults' \in Nat /\ crashes' \in Nat
    BY DEF TypeOK, SendInform, Goto, Works, Fails, history, bounds
  <2>3. noBootstrap' \in BOOLEAN /\ mReboot' \in BOOLEAN
    BY DEF TypeOK, SendInform, Goto, Works, Fails, history, bounds
  <2> QED BY <2>1, <2>2, <2>3 DEF TypeOK, SendInform, Goto, Works, Fails, history, bounds
<1>2. IndicesFollowRequests'
  BY DEF TypeOK, IndicesFollowRequests, SendInform, Goto, Works, Fails, history, bounds
<1>3. SessionKnows'
  BY DEF TypeOK, SessionKnows, SendInform, Goto, Works, Fails, history, bounds
<1>4. EventThreadHolds'
  BY DEF TypeOK, EventThreadHolds, SendInform, Goto, Works, Fails, history, bounds
<1>5. AlwaysWakes'
  BY DEF TypeOK, AlwaysWakes, EventThreadHolds, SendInform, Goto, Works, Fails, history, bounds
<1> QED
  BY <1>1, <1>2, <1>3, <1>4, <1>5

LEMMA NextTransferStep ==
  ASSUME WakeInv, NextTransfer
  PROVE  WakeInv'
<1> USE RequestsTyped DEF WakeInv
<1>1. TypeOK'
  BY DEF TypeOK, Response, NextTransfer, Goto, memory, disk, history, bounds
<1>2. IndicesFollowRequests'
  BY DEF TypeOK, IndicesFollowRequests, NextTransfer, Goto, memory, disk, history, bounds
<1>3. SessionKnows'
  BY DEF TypeOK, SessionKnows, Response, NoKey, Unwritten, Requested, NextTransfer, Goto
<1>4. EventThreadHolds'
  BY DEF TypeOK, EventThreadHolds, NextTransfer, Goto, memory, disk, history, bounds
<1>5. AlwaysWakes'
  BY DEF TypeOK, AlwaysWakes, EventThreadHolds, NextTransfer, Goto, memory, disk, history, bounds
<1> QED
  BY <1>1, <1>2, <1>3, <1>4, <1>5

LEMMA SendTransferStep ==
  ASSUME WakeInv, SendTransfer
  PROVE  WakeInv'
<1> USE RequestsTyped DEF WakeInv
<1>1. TypeOK'
  <2>1. hostEvents' \in Nat /\ faults' \in Nat /\ crashes' \in Nat
    BY DEF TypeOK, SendTransfer, Goto, Works, Fails, bounds
  <2>2. result' \in [ Files -> { NoKey, Unwritten } \cup Requested ]
    BY DEF TypeOK, SendTransfer
  <2>3. acked' \subseteq Requested
    BY DEF TypeOK, SendTransfer
  <2> QED BY <2>1, <2>2, <2>3 DEF TypeOK, SendTransfer, Goto, memory
<1>2. IndicesFollowRequests'
  BY DEF TypeOK, IndicesFollowRequests, SendTransfer, Goto, Works, Fails, memory, bounds
<1>3. SessionKnows'
  BY DEF TypeOK, SessionKnows, SendTransfer, Goto, Works, Fails, memory, bounds
<1>4. EventThreadHolds'
  BY DEF TypeOK, EventThreadHolds, SendTransfer, Goto, Works, Fails, memory, bounds
<1>5. AlwaysWakes'
  BY DEF TypeOK, AlwaysWakes, EventThreadHolds, SendTransfer, Goto, Works, Fails, memory, bounds
<1> QED
  BY <1>1, <1>2, <1>3, <1>4, <1>5

LEMMA RequestDownloadStep ==
  ASSUME WakeInv, RequestDownload
  PROVE  WakeInv'
<1> USE RequestsTyped DEF WakeInv
<1>1. TypeOK'
  <2>1. hostEvents' \in Nat /\ faults' \in Nat /\ crashes' \in Nat
    BY DEF TypeOK, RequestDownload, Goto, Works, Fails, history, bounds
  <2>2. gRequestDownloadType' \in BOOLEAN /\ requestDownload' \in BOOLEAN
    BY DEF TypeOK, RequestDownload, Goto, Works, Fails, history, bounds
  <2> QED BY <2>1, <2>2 DEF TypeOK, RequestDownload, Goto, Works, Fails, history, bounds
<1>2. IndicesFollowRequests'
  BY DEF TypeOK, IndicesFollowRequests, RequestDownload, Goto, Works, Fails, history, bounds
<1>3. SessionKnows'
  BY DEF TypeOK, SessionKnows, RequestDownload, Goto, Works, Fails, history, bounds
<1>4. EventThreadHolds'
  BY DEF TypeOK, EventThreadHolds, RequestDownload, Goto, Works, Fails, history, bounds
<1>5. AlwaysWakes'
  BY DEF TypeOK, AlwaysWakes, EventThreadHolds, RequestDownload, Goto, Works, Fails, history, bounds
<1> QED
  BY <1>1, <1>2, <1>3, <1>4, <1>5

LEMMA SendStep ==
  ASSUME WakeInv, Send
  PROVE  WakeInv'
<1> USE RequestsTyped DEF WakeInv
<1>1. TypeOK'
  BY DEF TypeOK, Send, Goto, Works, Fails, memory, disk, history, bounds
<1>2. IndicesFollowRequests'
  BY DEF TypeOK, IndicesFollowRequests, Send, Goto, Works, Fails, memory, disk, history, bounds
<1>3. SessionKnows'
  BY DEF TypeOK, SessionKnows, Send, Goto, Works, Fails, memory, disk, history, bounds
<1>4. EventThreadHolds'
  BY DEF TypeOK, EventThreadHolds, Send, Goto, Works, Fails, memory, disk, history, bounds
<1>5. AlwaysWakes'
  BY DEF TypeOK, AlwaysWakes, EventThreadHolds, Send, Goto, Works, Fails, memory, disk, history, bounds
<1> QED
  BY <1>1, <1>2, <1>3, <1>4, <1>5

LEMMA StoreTaskStep ==
  ASSUME WakeInv, StoreTask
  PROVE  WakeInv'
<1> USE RequestsTyped DEF WakeInv
<1>1. TypeOK'
  <2>1. asked \in Requested
    BY DEF TypeOK, SessionKnows, Requested, TypeOK, StoreTask, Goto, memory, bounds
  <2>2. task' \in [ Files -> { NoKey } \cup Requested ]
    BY <2>1 DEF TypeOK, StoreTask, Goto, memory, bounds
  <2> QED BY <2>1, <2>2 DEF TypeOK, StoreTask, Goto, memory, bounds
<1>2. IndicesFollowRequests'
  <2> DEFINE kind == Requests[asked].rpc
             place == <<kind, freeIndex[kind] - 1>>
  <2>1. asked \in Requested /\ task \in [ Files -> { NoKey } \cup Requested ]
    BY DEF TypeOK, SessionKnows, Requested, StoreTask
  <2>2. task' = [ task EXCEPT ![place] = asked ] /\ UNCHANGED <<freeIndex, asked>>
    BY DEF StoreTask, memory
  <2>3. ASSUME NEW f \in Files, f = place PROVE f[2] <= asked
    <3>1. kind \in Kinds /\ f[2] = freeIndex[kind] - 1
      BY <2>3 DEF Files
    <3>2. freeIndex[kind] <= asked + 1 /\ freeIndex[kind] \in Nat /\ asked \in Nat
      BY <2>1, <3>1 DEF IndicesFollowRequests, TypeOK, Requested
    <3> QED BY <3>1, <3>2
  <2>4. \A f \in Files : f # place => task'[f] = task[f]
    BY <2>1, <2>2
  <2> QED BY <2>1, <2>2, <2>3, <2>4 DEF IndicesFollowRequests
<1>3. SessionKnows'
  BY DEF TypeOK, SessionKnows, StoreTask, Goto, memory, bounds
<1>4. EventThreadHolds'
  BY DEF TypeOK, EventThreadHolds, StoreTask, Goto, memory, bounds
<1>5. AlwaysWakes'
  BY DEF TypeOK, AlwaysWakes, EventThreadHolds, StoreTask, Goto, memory, bounds
<1> QED
  BY <1>1, <1>2, <1>3, <1>4, <1>5

LEMMA ServeRebootStep ==
  ASSUME WakeInv, ServeReboot
  PROVE  WakeInv'
<1> USE RequestsTyped DEF WakeInv
<1>1. TypeOK'
  <2>1. asked' \in 0 .. Len(Requests)
    BY DEF TypeOK, ServeReboot, Goto, bounds
  <2>2. noBootstrap' \in BOOLEAN /\ mReboot' \in BOOLEAN
    BY DEF TypeOK, ServeReboot, Goto, bounds
  <2> QED BY <2>1, <2>2 DEF TypeOK, ServeReboot, Goto, bounds
<1>2. IndicesFollowRequests'
  <2>1. asked \in Nat /\ asked' = asked + 1 /\ UNCHANGED <<freeIndex, task>>
    BY DEF TypeOK, ServeReboot
  <2>2. \A k \in Kinds : freeIndex[k] \in Nat
    BY DEF TypeOK
  <2>3. \A f \in Files : f[2] \in Nat
    BY DEF Files, Requested
  <2> QED BY <2>1, <2>2, <2>3 DEF IndicesFollowRequests
<1>3. SessionKnows'
  BY DEF TypeOK, SessionKnows, ServeReboot, Goto, bounds
<1>4. EventThreadHolds'
  BY DEF TypeOK, EventThreadHolds, ServeReboot, Goto, bounds
<1>5. AlwaysWakes'
  BY DEF TypeOK, AlwaysWakes, EventThreadHolds, ServeReboot, Goto, bounds
<1> QED
  BY <1>1, <1>2, <1>3, <1>4, <1>5

LEMMA ServeEmptyStep ==
  ASSUME WakeInv, ServeEmpty
  PROVE  WakeInv'
<1> USE RequestsTyped DEF WakeInv
<1>1. TypeOK'
  BY DEF TypeOK, ServeEmpty, Goto, memory, disk, history, bounds
<1>2. IndicesFollowRequests'
  BY DEF TypeOK, IndicesFollowRequests, ServeEmpty, Goto, memory, disk, history, bounds
<1>3. SessionKnows'
  BY DEF TypeOK, SessionKnows, ServeEmpty, Goto, memory, disk, history, bounds
<1>4. EventThreadHolds'
  BY DEF TypeOK, EventThreadHolds, ServeEmpty, Goto, memory, disk, history, bounds
<1>5. AlwaysWakes'
  BY DEF TypeOK, AlwaysWakes, EventThreadHolds, ServeEmpty, Goto, memory, disk, history, bounds
<1> QED
  BY <1>1, <1>2, <1>3, <1>4, <1>5

(* The steps that change the timing list                                   *)
LEMMA TickStep ==
  ASSUME WakeInv, Tick
  PROVE  WakeInv'
<1> USE DEF WakeInv
<1>1. /\ timing' \in Seq(Events) /\ timeout' \in Seq(Events)
      /\ Ticked(timing, timeout, timing', timeout')
  BY TickLists
<1>2. UNCHANGED <<job, evpc, gEventCode, gReboot, gRequestDownloadType, freeIndex, wake,
                  session, disk, history, bounds>>
  BY DEF Tick
<1>3. UNCHANGED <<job, evpc, gEventCode, gReboot, gRequestDownloadType, freeIndex, wake,
                  pc, gRetryTimes, reporting, task, result, noBootstrap, mReboot, requestDownload,
                  asked, stored, acked, unwritten, silent, hostEvents, faults, crashes>>
  BY <1>2 DEF session, disk, history, bounds
<1>4. ASSUME NEW j \in DOMAIN timing
      PROVE  /\ Decremented(timing[j]).type = timing[j].type
             /\ timing[j].time \in Nat \ { 0 } => Decremented(timing[j]).time \in Nat
  <2>1. timing[j] \in Events
    BY DEF TypeOK
  <2>2. Decremented(timing[j]).type = timing[j].type
    BY <2>1 DEF Decremented, Events
  <2>3. ASSUME timing[j].time \in Nat \ { 0 } PROVE Decremented(timing[j]).time \in Nat
    <3>1. Decremented(timing[j]).time = timing[j].time - 1
      BY <2>1, <2>3 DEF Decremented, Events, Never
    <3> QED BY <2>3, <3>1
  <2> QED BY <2>2, <2>3
<1>5. TypeOK'
  BY <1>1, <1>3 DEF TypeOK
<1>6. IndicesFollowRequests' /\ SessionKnows' /\ EventThreadHolds'
  BY <1>3 DEF IndicesFollowRequests, SessionKnows, EventThreadHolds
<1>7. AlwaysWakes'
  <2>1. ASSUME NEW i \in DOMAIN timeout, timeout[i].type = "INFORM"
        PROVE  \E j \in DOMAIN timeout' : timeout'[j].type = "INFORM"
    <3>1. Has(timeout', timeout[i])
      BY <1>1 DEF Ticked
    <3> QED BY <2>1, <3>1 DEF Has
  <2>2. ASSUME NEW j \in DOMAIN timing, timing[j].type = "INFORM", timing[j].time \in Nat \ { 0 }
        PROVE  \/ \E i \in DOMAIN timeout' : timeout'[i].type = "INFORM"
               \/ \E i \in DOMAIN timing' :
                    timing'[i].type = "INFORM" /\ timing'[i].time \in Nat \ { 0 }
    <3> DEFINE e == Decremented(timing[j])
    <3>1. e.type = "INFORM" /\ e.time \in Nat
      BY <1>4, <2>2
    <3>2. IF e.time = 0 THEN Has(timeout', e) ELSE Has(timing', e)
      BY <1>1 DEF Ticked
    <3> HIDE DEF e
    <3>3. e.time # 0 => e.time \in Nat \ { 0 }
      BY <3>1
    <3> QED BY <3>1, <3>2, <3>3 DEF Has
  <2> QED BY <1>3, <2>1, <2>2 DEF AlwaysWakes
<1> QED
  BY <1>5, <1>6, <1>7

LEMMA EventScheduleOrStunStep ==
  ASSUME WakeInv, EventScheduleOrStun
  PROVE  WakeInv'
<1> USE DEF WakeInv
<1>1. timing \in Seq(Events)
  BY DEF TypeOK
<1>2. job.type = "SCHEDULE"
  <2>1. job.type \in Kinds \cup { "INFORM" }
    BY DEF EventThreadHolds, Events, EventScheduleOrStun, Calls
  <2> QED BY <2>1, CallsByType DEF EventScheduleOrStun, Calls
<1>3. timing' \in Seq(Events) /\ (timing' = timing \/ InformSet(timing'))
  <2>1. CASE timing' = timing
    BY <1>1, <2>1
  <2>2. CASE timing' = AddEvent(timing, InformEvent(NOW, { "SCHEDULED" }))
    <3>1. { "SCHEDULED" } \in SUBSET Codes /\ NOW \in Nat /\ NOW # 0
      BY DEF Codes, NOW
    <3> QED BY <1>1, <2>2, <3>1, AddInform
  <2> QED BY <2>1, <2>2 DEF EventScheduleOrStun
<1>4. TypeOK'
  <2>1. task' \in [ Files -> { NoKey } \cup Requested ]
    BY DEF TypeOK, EventScheduleOrStun
  <2> QED BY <1>3, <2>1 DEF TypeOK, EventScheduleOrStun, EventDone, session, history, bounds
<1>5. IndicesFollowRequests' /\ SessionKnows' /\ EventThreadHolds'
  BY DEF TypeOK, IndicesFollowRequests, SessionKnows, EventThreadHolds, EventScheduleOrStun,
         EventDone, session, history
<1>6. AlwaysWakes'
  BY <1>2, <1>3 DEF AlwaysWakes, InformSet, EventScheduleOrStun, session, history
<1> QED
  BY <1>4, <1>5, <1>6

LEMMA ServeTaskStep ==
  ASSUME WakeInv, ServeTask
  PROVE  WakeInv'
<1> USE DEF WakeInv
<1> DEFINE r == Requests[asked + 1]
           e == Event(r.rpc, freeIndex[r.rpc], r.delay, {}, asked + 1)
<1>1. timing \in Seq(Events)
  BY DEF TypeOK
<1>2. asked \in Nat /\ asked + 1 \in Requested /\ asked' = asked + 1 /\ asked + 1 <= Len(Requests)
  BY RequestsTyped DEF TypeOK, ServeTask, Requested
<1>3. r.rpc \in Kinds /\ r.delay \in Nat
  BY <1>2, RequestsTyped DEF ServeTask
<1>4. timing' = AddEvent(timing, e) /\ freeIndex' = [ freeIndex EXCEPT ![r.rpc] = @ + 1 ]
  BY DEF ServeTask
<1> HIDE DEF r
<1>5. freeIndex[r.rpc] \in Nat /\ freeIndex[r.rpc] <= asked + 1 /\ freeIndex[r.rpc] >= 1
  BY <1>3 DEF TypeOK, IndicesFollowRequests
<1>6. e \in Events /\ e.type # "INFORM"
  BY <1>2, <1>3, <1>5 DEF Event, Events, Kinds, TransferKinds
<1> HIDE DEF e
<1>7. timing' \in Seq(Events)
  BY <1>1, <1>4, <1>6, AddEventElements
<1>8. freeIndex' \in [ Kinds -> 1 .. Len(Requests) + 1 ] /\ \A k \in Kinds : freeIndex'[k] <= asked' + 1
  <2>1. ASSUME NEW k \in Kinds
        PROVE  freeIndex'[k] \in 1 .. Len(Requests) + 1 /\ freeIndex'[k] <= asked' + 1
    <3>1. freeIndex[k] \in 1 .. Len(Requests) + 1 /\ freeIndex[k] <= asked + 1
      BY DEF TypeOK, IndicesFollowRequests
    <3>2. freeIndex'[k] = IF k = r.rpc THEN freeIndex[k] + 1 ELSE freeIndex[k]
      BY <1>3, <1>4 DEF TypeOK
    <3> QED BY <1>2, <3>1, <3>2, RequestsTyped
  <2>2. freeIndex' = [ k \in Kinds |-> freeIndex'[k] ]
    BY <1>4 DEF TypeOK
  <2> QED BY <2>1, <2>2
<1>9. TypeOK'
  <2>1. asked' \in 0 .. Len(Requests)
    BY <1>2, RequestsTyped
  <2> QED BY <1>7, <1>8, <2>1 DEF TypeOK, ServeTask, Goto, disk, bounds
<1>10. IndicesFollowRequests'
  <2>1. \A f \in Files : f[2] \in Nat
    BY DEF Files, Requested
  <2> QED BY <1>2, <1>8, <2>1 DEF IndicesFollowRequests, ServeTask, disk
<1>11. SessionKnows' /\ EventThreadHolds' /\ AlwaysWakes'
  BY <1>2 DEF SessionKnows, EventThreadHolds, AlwaysWakes, ServeTask, Goto
<1> QED
  BY <1>9, <1>10, <1>11

LEMMA EndSessionStep ==
  ASSUME WakeInv, EndSession
  PROVE  WakeInv'
<1> USE DEF WakeInv
<1>1. timing \in Seq(Events)
  BY DEF TypeOK
<1>2. PICK s \in ManagementServer :
        /\ timing' = IF s.enable THEN AddEvent(timing, InformEvent(s.interval, { "PERIODIC" }))
                                 ELSE timing
        /\ silent' = (~s.enable \/ s.interval = 0)
  BY DEF EndSession
<1>3. { "PERIODIC" } \in SUBSET Codes /\ s.interval \in Nat
  BY AgentAssumption DEF Codes
<1>4. timing' \in Seq(Events) /\ (~silent' => InformSet(timing')) /\ silent' \in BOOLEAN
  BY <1>1, <1>2, <1>3, AddInform
<1>5. TypeOK'
  BY <1>4 DEF TypeOK, EndSession, Goto, disk, bounds
<1>6. IndicesFollowRequests' /\ SessionKnows' /\ EventThreadHolds'
  BY DEF IndicesFollowRequests, SessionKnows, EventThreadHolds, EndSession, Goto, disk
<1>7. AlwaysWakes'
  BY <1>4 DEF AlwaysWakes, InformSet
<1> QED
  BY <1>5, <1>6, <1>7

LEMMA HostEventStep ==
  ASSUME WakeInv, HostEvent
  PROVE  WakeInv'
<1> USE DEF WakeInv
<1>1. timing \in Seq(Events)
  BY DEF TypeOK
<1>2. PICK c \in HostCodes :
        /\ gEventCode' = IF c = "VALUE_CHANGE" THEN gEventCode \cup { c } ELSE gEventCode
        /\ \/ timing' = AddEvent(timing, InformEvent(NOW, { c })) /\ silent' = FALSE
           \/ UNCHANGED <<timing, silent>>
  BY DEF HostEvent
<1>3. { c } \in SUBSET Codes /\ NOW \in Nat /\ NOW # 0
  BY DEF Codes, NOW
<1>4. /\ timing' \in Seq(Events) /\ silent' \in BOOLEAN
      /\ InformSet(timing') \/ UNCHANGED <<timing, silent>>
  BY <1>1, <1>2, <1>3, AddInform DEF TypeOK
<1>5. TypeOK'
  <2>1. gEventCode' \subseteq Codes
    BY <1>2, <1>3 DEF TypeOK
  <2>2. hostEvents' \in Nat
    BY DEF TypeOK, HostEvent
  <2> QED BY <1>4, <2>1, <2>2 DEF TypeOK, HostEvent, session, disk
<1>6. IndicesFollowRequests' /\ SessionKnows' /\ EventThreadHolds'
  BY DEF IndicesFollowRequests, SessionKnows, EventThreadHolds, HostEvent, session, disk
<1>7. AlwaysWakes'
  BY <1>4 DEF AlwaysWakes, InformSet, HostEvent, session
<1> QED
  BY <1>5, <1>6, <1>7

(* A start: the delay events, the first inform event and the free indices  *)
(* are made from the files, whatever the session was doing.                *)
LEMMA InitEndLists ==
  ASSUME WakeInv, InitEnd
  PROVE  /\ timing' \in Seq(Events) /\ InformSet(timing')
         /\ gEventCode' \subseteq Codes
         /\ freeIndex' \in [ Kinds -> 1 .. Len(Requests) + 1 ]
         /\ \A k \in Kinds : freeIndex'[k] <= asked + 1
<1> USE DEF WakeInv
<1> DEFINE codes == { "BOOT" } \cup IF noBootstrap THEN {} ELSE { "BOOTSTRAP" }
<1>1. PICK waits : /\ \A f \in Stored : waits[f] \in StillToWait(f)
                   /\ timing' = AddEvent(DelayEvents(waits), InformEvent(NOW, codes))
  BY DEF InitEnd
<1>2. codes \in SUBSET Codes /\ NOW \in Nat /\ NOW # 0 /\ gEventCode' \subseteq Codes
  BY DEF Codes, NOW, InitEnd
<1> HIDE DEF codes
<1>3. DelayEvents(waits) \in Seq(Events)
  BY <1>1, DelayEventsTyped
<1>4. timing' \in Seq(Events) /\ InformSet(timing')
  BY <1>1, <1>2, <1>3, AddInform
<1>5. ASSUME NEW k \in Kinds
      PROVE  freeIndex'[k] \in 1 .. Len(Requests) + 1 /\ freeIndex'[k] <= asked + 1
  <2> DEFINE used == { 0 } \cup { i \in Requested : task[<<k, i>>] # NoKey }
  <2>1. used \subseteq 0 .. Len(Requests) /\ used # {} /\ Len(Requests) \in Nat
    BY RequestsTyped DEF Requested
  <2>2. \A i \in used : i <= asked
    <3>1. ASSUME NEW i \in Requested, task[<<k, i>>] # NoKey PROVE i <= asked
      <4>1. <<k, i>> \in Files
        BY DEF Files
      <4> QED BY <3>1, <4>1 DEF IndicesFollowRequests
    <3> QED BY <3>1 DEF TypeOK
  <2>3. freeIndex'[k] = 1 + Max(used)
    BY DEF InitEnd
  <2> HIDE DEF used
  <2>4. Max(used) \in used
    BY <2>1, MaxOfBounded
  <2>5. Max(used) \in 0 .. Len(Requests) /\ Max(used) <= asked
    BY <2>1, <2>2, <2>4
  <2>6. asked \in Nat
    BY DEF TypeOK
  <2> QED BY <2>1, <2>3, <2>5, <2>6
<1>6. freeIndex' = [ k \in Kinds |-> freeIndex'[k] ]
  BY DEF InitEnd
<1> QED
  BY <1>2, <1>4, <1>5, <1>6

LEMMA RestartStep ==
  ASSUME WakeInv, Restart, crashes' \in Nat
  PROVE  WakeInv'
<1> USE DEF WakeInv
<1>1. /\ timing' \in Seq(Events) /\ InformSet(timing')
      /\ gEventCode' \subseteq Codes
      /\ freeIndex' \in [ Kinds -> 1 .. Len(Requests) + 1 ]
      /\ \A k \in Kinds : freeIndex'[k] <= asked + 1
  BY InitEndLists DEF Restart
<1>2. TypeOK'
  <2>1. timeout' \in Seq(Events) /\ job' \in Events \cup { NoEvent }
    BY DEF Restart
  <2>2. gRetryTimes' \in 0 .. MaxRetryTimes /\ wake' \in Nat
    BY AgentAssumption DEF Restart
  <2> QED BY <1>1, <2>1, <2>2 DEF TypeOK, Restart, disk
<1>3. IndicesFollowRequests' /\ SessionKnows' /\ EventThreadHolds'
  BY <1>1 DEF IndicesFollowRequests, SessionKnows, EventThreadHolds, Restart, disk
<1>4. AlwaysWakes'
  BY <1>1 DEF AlwaysWakes, InformSet
<1> QED
  BY <1>2, <1>3, <1>4

LEMMA WakeInvInit == Init => WakeInv
<1> SUFFICES ASSUME Init PROVE WakeInv
  OBVIOUS
<1> DEFINE e == InformEvent(NOW, { "BOOT", "BOOTSTRAP" })
<1>1. e \in Events /\ e.type = "INFORM" /\ e.time = 1
  BY InformEventTyped DEF Codes, NOW
<1>2. timing = << e >>
  BY DEF Init
<1> HIDE DEF e
<1>3. timing \in Seq(Events) /\ DOMAIN timing = { 1 } /\ timing[1] = e
  BY <1>1, <1>2
<1>4. TypeOK
  <2>1. timeout \in Seq(Events) /\ job \in Events \cup { NoEvent }
    BY DEF Init
  <2>2. freeIndex \in [ Kinds -> 1 .. Len(Requests) + 1 ] /\ asked \in 0 .. Len(Requests)
    BY RequestsTyped DEF Init
  <2>3. gRetryTimes \in 0 .. MaxRetryTimes /\ requestDownload \in BOOLEAN
    BY AgentAssumption DEF Init
  <2> QED BY <1>3, <2>1, <2>2, <2>3 DEF TypeOK, Init, Codes
<1>5. IndicesFollowRequests /\ SessionKnows /\ EventThreadHolds
  BY DEF Init, IndicesFollowRequests, SessionKnows, EventThreadHolds
<1>6. AlwaysWakes
  BY <1>1, <1>3 DEF AlwaysWakes
<1> QED
  BY <1>4, <1>5, <1>6 DEF WakeInv

LEMMA WakeInvNext == WakeInv /\ [Next]_vars => WakeInv'
<1> SUFFICES ASSUME WakeInv, [Next]_vars PROVE WakeInv'
  OBVIOUS
<1>1. CASE Tick
  BY <1>1, TickStep
<1>2. CASE EventThread
  BY <1>2, EventTakeStep, EventInformStep, EventScheduleOrStunStep, EventTransferStep,
     OpenResultStep, WriteResultStep, DeleteTaskStep DEF EventThread
<1>3. CASE MainSession
  <2>1. CASE Reboot
    <3>1. crashes' \in Nat
      BY <2>1 DEF Reboot, WakeInv, TypeOK
    <3> QED BY <2>1, <3>1, RestartStep DEF Reboot
  <2> QED BY <1>3, <2>1, WakeStep, ConnectStep, UpdateInformStep, SendInformStep,
             NextTransferStep, SendTransferStep, RequestDownloadStep, SendStep, ServeTaskStep,
             StoreTaskStep, ServeRebootStep, ServeEmptyStep, EndSessionStep DEF MainSession
<1>4. CASE HostEvent
  BY <1>4, HostEventStep
<1>5. CASE Crash
  <2>1. crashes' \in Nat
    BY <1>5 DEF Crash, WakeInv, TypeOK
  <2> QED BY <1>5, <2>1, RestartStep DEF Crash
<1>6. CASE UNCHANGED vars
  BY <1>6 DEF vars, memory, session, disk, history, bounds, WakeInv, TypeOK,
     IndicesFollowRequests, SessionKnows, EventThreadHolds, AlwaysWakes
<1> QED
  BY <1>1, <1>2, <1>3, <1>4, <1>5, <1>6 DEF Next

LEMMA WakeInvariant == Spec => []WakeInv
  BY WakeInvInit, WakeInvNext, PTL DEF Spec

(* The types of the agent's state: above all, no free index runs past the  *)
(* requests, no session counts more retries than MAX_RETRY_TIMES, and the  *)
(* lists of events stay well-formed through add_event, the timer thread    *)
(* and every start.                                                        *)
THEOREM AgentTypes == Spec => []TypeOK
  BY WakeInvariant, PTL DEF WakeInv

(* main_session never waits on gMainSessionSem without an inform event in  *)
(* the lists or in the hands of the event thread that will post it.        *)
THEOREM AgentAlwaysWakes == Spec => []AlwaysWakes
  BY WakeInvariant, PTL DEF WakeInv
=============================================================================
