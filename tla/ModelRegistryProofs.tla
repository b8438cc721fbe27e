------------------------- MODULE ModelRegistryProofs -------------------------
(***************************************************************************)
(* Proofs about ModelRegistry, for any providers, groups and priorities:   *)
(* its types, that what the routers are offered can be served, and that a  *)
(* policy only reorders.  They rest on lemmas about the lists of Listing,  *)
(* which come first: a sorted list is the only one in its order, and a     *)
(* filter keeps the order.                                                 *)
(***************************************************************************)
EXTENDS ModelRegistry, FiniteSetTheorems, SequenceTheorems,
        WellFoundedInduction, TLAPS

-----------------------------------------------------------------------------
(* Sorted lists.                                                           *)

\* A set of pairs that orders S strictly, and totally.
StrictOrder(before, S) ==
    /\ \A x \in S : <<x, x>> \notin before
    /\ \A x, y, z \in S :
          <<x, y>> \in before /\ <<y, z>> \in before => <<x, z>> \in before
    /\ \A x, y \in S : x = y \/ <<x, y>> \in before \/ <<y, x>> \in before

\* The elements of S before x.
Before(S, before, x) == {y \in S : <<y, x>> \in before}

\* The first n numbers are n.
LEMMA UpTo ==
    ASSUME NEW n \in Nat
    PROVE  IsFiniteSet(1..n) /\ Cardinality(1..n) = n
<1>1. IsFiniteSet(1..n) /\ Cardinality(1..n) = IF 1 > n THEN 0 ELSE n - 1 + 1
  BY FS_Interval
<1>2. QED  BY <1>1

\* The elements before an element of a finite set are as many as its place
\* says: there is one for each place.
LEMMA Places ==
    ASSUME NEW S, IsFiniteSet(S), NEW before, StrictOrder(before, S)
    PROVE  /\ Cardinality(S) \in Nat
           /\ \A x \in S :
                 Cardinality(Before(S, before, x)) \in 0..(Cardinality(S) - 1)
           /\ \A x, y \in S : <<x, y>> \in before =>
                 Cardinality(Before(S, before, x))
                    < Cardinality(Before(S, before, y))
           /\ \A k \in 1..Cardinality(S) : \E x \in S :
                 Cardinality(Before(S, before, x)) = k - 1
<1> DEFINE n == Cardinality(S)
           rank == [x \in S |-> Cardinality(Before(S, before, x))]
<1>1. n \in Nat
  BY FS_CardinalityType
<1>2. ASSUME NEW x \in S
      PROVE  /\ IsFiniteSet(Before(S, before, x))
             /\ Cardinality(Before(S, before, x)) \in 0..(n - 1)
  <2>1. /\ IsFiniteSet(S \ {x}) /\ Cardinality(S \ {x}) = n - 1
    BY FS_RemoveElement
  <2>2. Before(S, before, x) \in SUBSET (S \ {x})
    BY DEF Before, StrictOrder
  <2>3. /\ IsFiniteSet(Before(S, before, x))
        /\ Cardinality(Before(S, before, x)) <= Cardinality(S \ {x})
    BY <2>1, <2>2, FS_Subset
  <2>4. Cardinality(Before(S, before, x)) \in Nat
    BY <2>3, FS_CardinalityType
  <2>5. QED  BY <1>1, <2>1, <2>3, <2>4
<1>3. ASSUME NEW x \in S, NEW y \in S, <<x, y>> \in before
      PROVE  Cardinality(Before(S, before, x))
                < Cardinality(Before(S, before, y))
  <2>1. /\ Before(S, before, x) \in SUBSET Before(S, before, y)
        /\ x \in Before(S, before, y) /\ x \notin Before(S, before, x)
    BY <1>3 DEF Before, StrictOrder
  <2>2. /\ Cardinality(Before(S, before, x))
              <= Cardinality(Before(S, before, y))
        /\ Cardinality(Before(S, before, x))
              # Cardinality(Before(S, before, y))
    BY <1>2, <2>1, FS_Subset
  <2>3. QED  BY <1>1, <1>2, <2>2
<1>4. rank \in Injection(S, 0..(n - 1))
  <2>1. rank \in [S -> 0..(n - 1)]
    BY <1>2
  <2>2. ASSUME NEW x \in S, NEW y \in S, rank[x] = rank[y]
        PROVE  x = y
    <3>1. \A z \in S : rank[z] \in Int
      BY <1>1, <1>2
    <3>2. (<<x, y>> \in before => rank[x] < rank[y])
          /\ (<<y, x>> \in before => rank[y] < rank[x])
      BY <1>3
    <3> HIDE DEF rank
    <3>3. QED  BY <2>2, <3>1, <3>2 DEF StrictOrder
  <2> HIDE DEF rank
  <2>3. QED  BY <2>1, <2>2 DEF Injection, IsInjective
<1>5. IsFiniteSet(0..(n - 1)) /\ Cardinality(0..(n - 1)) = n
  <2>1. /\ IsFiniteSet(0..(n - 1))
        /\ Cardinality(0..(n - 1)) = IF 0 > n - 1 THEN 0 ELSE n - 1 - 0 + 1
    BY <1>1, FS_Interval
  <2>2. QED  BY <1>1, <2>1
<1>6. rank \in Surjection(S, 0..(n - 1))
  <2> HIDE DEF rank
  <2>1. QED  BY <1>4, <1>5, FS_Injection
<1>7. ASSUME NEW k \in 1..n
      PROVE  \E x \in S : Cardinality(Before(S, before, x)) = k - 1
  <2>1. k - 1 \in 0..(n - 1)
    BY <1>1
  <2>2. PICK x \in S : rank[x] = k - 1
    <3> HIDE DEF rank
    <3>1. QED  BY <1>6, <2>1 DEF Surjection
  <2>3. QED  BY <2>2
<1>8. QED  BY <1>1, <1>2, <1>3, <1>7

\* A list of a set's elements, each at the place that the order gives it.
Lists(s, S, before) ==
    /\ s \in Seq(S)
    /\ \A x \in S : \E k \in 1..Len(s) : s[k] = x
    /\ \A i, j \in 1..Len(s) : i < j => <<s[i], s[j]>> \in before

Ranks(s, S, before) ==
    /\ Len(s) = Cardinality(S)
    /\ \A k \in 1..Len(s) : Cardinality(Before(S, before, s[k])) = k - 1

\* sorted() makes such a list.
LEMMA SortedIs ==
    ASSUME NEW S, IsFiniteSet(S), NEW before, StrictOrder(before, S)
    PROVE  /\ Lists(Sorted(S, before), S, before)
           /\ Ranks(Sorted(S, before), S, before)
<1>0. PICK s : s = Sorted(S, before)
  OBVIOUS
<1> DEFINE n == Cardinality(S)
<1>1. /\ n \in Nat
      /\ \A x \in S : Cardinality(Before(S, before, x)) \in 0..(n - 1)
      /\ \A x, y \in S : <<x, y>> \in before =>
            Cardinality(Before(S, before, x)) < Cardinality(Before(S, before, y))
      /\ \A k \in 1..n : \E x \in S : Cardinality(Before(S, before, x)) = k - 1
  BY Places
<1>2. s = [k \in 1..n |->
              CHOOSE x \in S : Cardinality(Before(S, before, x)) = k - 1]
  BY <1>0 DEF Sorted, Before
<1>3. ASSUME NEW k \in 1..n
      PROVE  s[k] \in S /\ Cardinality(Before(S, before, s[k])) = k - 1
  <2>1. s[k] = CHOOSE x \in S : Cardinality(Before(S, before, x)) = k - 1
    BY <1>2
  <2>2. \E x \in S : Cardinality(Before(S, before, x)) = k - 1
    BY <1>1
  <2>3. QED  BY <2>1, <2>2
<1> HIDE DEF n
<1>4. s \in Seq(S) /\ Len(s) = n
  <2>1. DOMAIN s = 1..n /\ s = [k \in 1..n |-> s[k]]
    BY <1>2
  <2>2. QED  BY <1>1, <1>3, <2>1
<1>5. ASSUME NEW x \in S, NEW y \in S,
             Cardinality(Before(S, before, x)) = Cardinality(Before(S, before, y))
      PROVE  x = y
  <2>1. <<x, y>> \notin before /\ <<y, x>> \notin before
    BY <1>1, <1>5
  <2>2. QED  BY <2>1 DEF StrictOrder
<1>6. ASSUME NEW x \in S
      PROVE  \E k \in 1..n : s[k] = x
  <2>1. PICK k \in 1..n : k - 1 = Cardinality(Before(S, before, x))
    <3>1. PICK c \in 0..(n - 1) : c = Cardinality(Before(S, before, x))
      BY <1>1
    <3>2. c + 1 \in 1..n /\ (c + 1) - 1 = c
      BY <1>1
    <3>3. QED  BY <3>1, <3>2
  <2>2. QED  BY <1>3, <1>5, <2>1
<1>7. ASSUME NEW i \in 1..n, NEW j \in 1..n, i < j
      PROVE  <<s[i], s[j]>> \in before
  <2>1. /\ s[i] \in S /\ s[j] \in S
        /\ Cardinality(Before(S, before, s[i])) = i - 1
        /\ Cardinality(Before(S, before, s[j])) = j - 1
    BY <1>3
  <2>2. i \in Int /\ j \in Int /\ i - 1 # j - 1 /\ ~(j - 1 < i - 1)
    BY <1>1, <1>7
  <2>3. s[i] # s[j] /\ <<s[j], s[i]>> \notin before
    BY <1>1, <2>1, <2>2
  <2>4. QED  BY <2>1, <2>3 DEF StrictOrder
<1>8. Lists(s, S, before)
  BY <1>4, <1>6, <1>7 DEF Lists
<1>9. Ranks(s, S, before)
  BY <1>3, <1>4 DEF Ranks, n
<1>10. QED  BY <1>0, <1>8, <1>9, Zenon

\* No other list does.
LEMMA OnlySorted ==
    ASSUME NEW S, IsFiniteSet(S), NEW before, StrictOrder(before, S),
           NEW s, Lists(s, S, before)
    PROVE  s = Sorted(S, before)
<1>1. /\ s \in Seq(S) /\ Len(s) \in Nat /\ \A k \in 1..Len(s) : s[k] \in S
      /\ \A x \in S : \E k \in 1..Len(s) : s[k] = x
      /\ \A i, j \in 1..Len(s) : i < j => <<s[i], s[j]>> \in before
  BY DEF Lists
<1>2. \A i, j \in 1..Len(s) : s[i] = s[j] => i = j
  <2>1. SUFFICES ASSUME NEW i \in 1..Len(s), NEW j \in 1..Len(s), s[i] = s[j]
                 PROVE  i = j
    OBVIOUS
  <2>2. ~(i < j) /\ ~(j < i)
    BY <1>1, <2>1 DEF StrictOrder
  <2>3. QED  BY <1>1, <2>2
<1>3. Cardinality(S) = Len(s)
  <2>1. PICK f : f = [k \in 1..Len(s) |-> s[k]]
    OBVIOUS
  <2>2. f \in Bijection(1..Len(s), S)
    <3>1. f \in [1..Len(s) -> S] /\ \A k \in 1..Len(s) : f[k] = s[k]
      BY <1>1, <2>1
    <3>2. f \in Injection(1..Len(s), S)
      BY <1>2, <3>1 DEF Injection, IsInjective
    <3>3. f \in Surjection(1..Len(s), S)
      BY <1>1, <3>1 DEF Surjection
    <3>4. QED  BY <3>2, <3>3 DEF Bijection
  <2>3. IsFiniteSet(1..Len(s)) /\ Cardinality(1..Len(s)) = Len(s)
    BY <1>1, UpTo
  <2>4. QED  BY <2>2, <2>3, FS_Bijection DEF ExistsBijection
<1>4. ASSUME NEW k \in 1..Len(s)
      PROVE  Cardinality(Before(S, before, s[k])) = k - 1
  <2>1. PICK f : f = [i \in 1..(k - 1) |-> s[i]]
    OBVIOUS
  <2>2. f \in Bijection(1..(k - 1), Before(S, before, s[k]))
    <3>1. ASSUME NEW i \in 1..(k - 1)
          PROVE  s[i] \in Before(S, before, s[k])
      <4>1. i \in 1..Len(s) /\ i < k
        BY <1>1
      <4>2. s[i] \in S /\ <<s[i], s[k]>> \in before
        BY <1>1, <4>1
      <4>3. QED  BY <4>2 DEF Before
    <3>2. ASSUME NEW x \in Before(S, before, s[k])
          PROVE  \E i \in 1..(k - 1) : s[i] = x
      <4>1. x \in S /\ <<x, s[k]>> \in before
        BY DEF Before
      <4>2. PICK i \in 1..Len(s) : s[i] = x
        BY <1>1, <4>1
      <4>3. i # k
        BY <4>1, <4>2 DEF StrictOrder
      <4>4. ~(k < i)
        <5>1. s[k] \in S /\ (k < i => <<s[k], x>> \in before)
          BY <1>1, <4>2
        <5>2. QED  BY <4>1, <5>1 DEF StrictOrder
      <4>5. QED  BY <1>1, <4>2, <4>3, <4>4
    <3>3. \A i, j \in 1..(k - 1) : s[i] = s[j] => i = j
      <4>1. \A i \in 1..(k - 1) : i \in 1..Len(s)
        BY <1>1
      <4>2. QED  BY <1>2, <4>1
    <3>4. /\ f \in [1..(k - 1) -> Before(S, before, s[k])]
          /\ \A i \in 1..(k - 1) : f[i] = s[i]
      BY <2>1, <3>1
    <3>5. f \in Injection(1..(k - 1), Before(S, before, s[k]))
      BY <3>3, <3>4 DEF Injection, IsInjective
    <3>6. f \in Surjection(1..(k - 1), Before(S, before, s[k]))
      BY <3>2, <3>4 DEF Surjection
    <3>7. QED  BY <3>5, <3>6 DEF Bijection
  <2>3. IsFiniteSet(1..(k - 1)) /\ Cardinality(1..(k - 1)) = k - 1
    <3>1. k - 1 \in Nat
      BY <1>1
    <3>2. QED  BY <3>1, UpTo
  <2>4. QED  BY <2>2, <2>3, FS_Bijection DEF ExistsBijection
<1>5. PICK t : t = Sorted(S, before)
  OBVIOUS
<1>6. /\ t \in Seq(S) /\ Len(t) = Cardinality(S)
      /\ \A k \in 1..Len(t) : Cardinality(Before(S, before, t[k])) = k - 1
  <2>1. Lists(t, S, before) /\ Ranks(t, S, before)
    BY <1>5, SortedIs
  <2>2. QED  BY <2>1 DEF Lists, Ranks
<1>7. ASSUME NEW k \in 1..Len(s)
      PROVE  s[k] = t[k]
  <2>1. PICK x, y : x = s[k] /\ y = t[k]
    OBVIOUS
  <2>2. /\ x \in S /\ y \in S
        /\ Cardinality(Before(S, before, x)) = k - 1
        /\ Cardinality(Before(S, before, y)) = k - 1
    BY <1>1, <1>3, <1>4, <1>6, <2>1
  <2>3. /\ <<x, y>> \in before => k - 1 < k - 1
        /\ <<y, x>> \in before => k - 1 < k - 1
    BY <2>2, Places, Zenon
  <2>4. <<x, y>> \notin before /\ <<y, x>> \notin before
    BY <1>1, <2>3
  <2>5. QED  BY <2>1, <2>2, <2>4 DEF StrictOrder
<1>8. QED  BY <1>1, <1>3, <1>5, <1>6, <1>7, SeqEqual

\* A filter keeps the elements at the places that hold what is kept, in
\* their order.
LEMMA FilteredIs ==
    ASSUME NEW X, NEW list \in Seq(X), NEW kept,
           NEW f, f = Filtered(list, kept)
    PROVE  \E place \in Seq(1..Len(list)) :
              /\ f \in Seq(X \cap kept) /\ Len(f) = Len(place)
              /\ \A k \in 1..Len(f) : f[k] = list[place[k]]
              /\ \A i \in 1..Len(list) : list[i] \in kept =>
                    \E k \in 1..Len(f) : place[k] = i
              /\ \A k, l \in 1..Len(f) : k < l => place[k] < place[l]
<1>1. Len(list) \in Nat /\ \A i \in 1..Len(list) : list[i] \in X
  OBVIOUS
<1>2. PICK places : places = {i \in 1..Len(list) : list[i] \in kept}
  OBVIOUS
<1>3. PICK before : before = {pair \in places \X places : pair[1] < pair[2]}
  OBVIOUS
<1>4. IsFiniteSet(places)
  <2>1. IsFiniteSet(1..Len(list)) /\ places \in SUBSET (1..Len(list))
    BY <1>1, <1>2, UpTo
  <2>2. QED  BY <2>1, FS_Subset
<1>5. \A i, j \in places : <<i, j>> \in before <=> i < j
  BY <1>3
<1>6. StrictOrder(before, places)
  <2>1. places \subseteq Int
    BY <1>1, <1>2
  <2>2. QED  BY <1>5, <2>1 DEF StrictOrder
<1>7. PICK place : place = Sorted(places, before)
  OBVIOUS
<1>8. Lists(place, places, before) /\ Ranks(place, places, before)
  BY <1>4, <1>6, <1>7, SortedIs
<1>9. /\ place \in Seq(places) /\ Len(place) = Cardinality(places)
      /\ \A i \in places : \E k \in 1..Len(place) : place[k] = i
      /\ \A k, l \in 1..Len(place) : k < l => <<place[k], place[l]>> \in before
  BY <1>8 DEF Lists, Ranks
<1>10. /\ place \in Seq(1..Len(list)) /\ Len(place) \in Nat
      /\ \A k \in 1..Len(place) : place[k] \in places
  <2>1. places \subseteq 1..Len(list)
    BY <1>2
  <2>2. place \in Seq(1..Len(list))
    BY <1>9, <2>1, SeqMonotonic
  <2>3. \A k \in 1..Len(place) : place[k] \in places
    BY <1>9
  <2>4. QED  BY <2>2, <2>3
<1>11. f = [k \in 1..Len(place) |-> list[place[k]]]
  BY <1>2, <1>3, <1>7, <1>9, Zenon DEF Filtered
<1>12. \A k \in 1..Len(place) : list[place[k]] \in X \cap kept
  BY <1>1, <1>2, <1>10
<1>13. f \in Seq(X \cap kept) /\ Len(f) = Len(place)
  BY <1>10, <1>11, <1>12
<1>14. \A k, l \in 1..Len(place) : k < l => place[k] < place[l]
  BY <1>5, <1>9, <1>10
<1>15. \A i \in 1..Len(list) : list[i] \in kept =>
          \E k \in 1..Len(place) : place[k] = i
  BY <1>2, <1>9
<1>16. \A k \in 1..Len(place) : f[k] = list[place[k]]
  BY <1>11
<1>17. QED  BY <1>10, <1>13, <1>14, <1>15, <1>16

-----------------------------------------------------------------------------
(* Lists without repetition.                                               *)

\* The elements of a list are what stands at its places.
LEMMA ElementsOf ==
    ASSUME NEW X, NEW list \in Seq(X)
    PROVE  /\ Len(list) \in Nat /\ DOMAIN list = 1..Len(list)
           /\ ToSet(list) \subseteq X
           /\ \A x : x \in ToSet(list) <=> \E i \in 1..Len(list) : list[i] = x
           /\ IsFiniteSet(ToSet(list))
<1>1. Len(list) \in Nat /\ DOMAIN list = 1..Len(list)
  OBVIOUS
<1>2. \A x : x \in ToSet(list) <=> \E i \in 1..Len(list) : list[i] = x
  BY <1>1 DEF ToSet
<1>3. ToSet(list) \subseteq X
  BY <1>2
<1>4. list \in Surjection(1..Len(list), ToSet(list))
  <2>1. list \in [1..Len(list) -> ToSet(list)]
    BY <1>1, <1>2
  <2>2. QED  BY <1>2, <2>1 DEF Surjection
<1>5. IsFiniteSet(ToSet(list))
  BY <1>1, <1>4, UpTo, FS_Surjection
<1>6. QED  BY <1>1, <1>2, <1>3, <1>5

\* What stands before what in a list.
LEMMA InOrder ==
    ASSUME NEW X, NEW list \in Seq(X)
    PROVE  \A x, y : <<x, y>> \in Order(list) <=>
              \E i, j \in 1..Len(list) : i < j /\ list[i] = x /\ list[j] = y
<1> SUFFICES ASSUME NEW x, NEW y
             PROVE  <<x, y>> \in Order(list) <=>
                       \E i, j \in 1..Len(list) :
                           i < j /\ list[i] = x /\ list[j] = y
  OBVIOUS
<1>1. <<x, y>> \in Order(list) <=>
         /\ x \in ToSet(list) /\ y \in ToSet(list)
         /\ \E i, j \in 1..Len(list) : i < j /\ list[i] = x /\ list[j] = y
  BY DEF Order
<1>2. QED  BY <1>1, ElementsOf

\* A list without repetition orders its elements.
LEMMA OrderIsStrict ==
    ASSUME NEW X, NEW list \in Seq(X), IsInjective(list),
           NEW S, S \subseteq ToSet(list)
    PROVE  StrictOrder(Order(list), S)
<1>1. /\ Len(list) \in Nat
      /\ \A i, j \in 1..Len(list) : list[i] = list[j] => i = j
      /\ \A x \in S : \E i \in 1..Len(list) : list[i] = x
  BY ElementsOf DEF IsInjective
<1>2. \A i, j \in 1..Len(list) :
         <<list[i], list[j]>> \in Order(list) <=> i < j
  <2> SUFFICES ASSUME NEW i \in 1..Len(list), NEW j \in 1..Len(list)
               PROVE  <<list[i], list[j]>> \in Order(list) <=> i < j
    OBVIOUS
  <2>1. <<list[i], list[j]>> \in Order(list) <=>
           \E k, l \in 1..Len(list) :
               k < l /\ list[k] = list[i] /\ list[l] = list[j]
    BY InOrder
  <2>2. QED  BY <1>1, <2>1
<1>3. \A x \in S : <<x, x>> \notin Order(list)
  BY <1>1, <1>2
<1>4. ASSUME NEW x \in S, NEW y \in S, NEW z \in S,
             <<x, y>> \in Order(list), <<y, z>> \in Order(list)
      PROVE  <<x, z>> \in Order(list)
  <2>1. PICK i \in 1..Len(list), j \in 1..Len(list), k \in 1..Len(list) :
           list[i] = x /\ list[j] = y /\ list[k] = z
    BY <1>1
  <2>2. i < j /\ j < k
    BY <1>2, <1>4, <2>1
  <2>3. i < k
    BY <1>1, <2>2
  <2>4. QED  BY <1>2, <2>1, <2>3
<1>5. ASSUME NEW x \in S, NEW y \in S
      PROVE  x = y \/ <<x, y>> \in Order(list) \/ <<y, x>> \in Order(list)
  <2>1. PICK i \in 1..Len(list), j \in 1..Len(list) :
           list[i] = x /\ list[j] = y
    BY <1>1
  <2>2. i = j \/ i < j \/ j < i
    BY <1>1
  <2>3. QED  BY <1>2, <2>1, <2>2
<1>6. QED  BY <1>3, <1>4, <1>5 DEF StrictOrder

\* What a filter keeps of such a list, it keeps in the order of the list.
LEMMA FilteredKeeps ==
    ASSUME NEW X, NEW list \in Seq(X), NEW kept
    PROVE  /\ Filtered(list, kept) \in Seq(X)
           /\ ToSet(Filtered(list, kept)) = ToSet(list) \cap kept
           /\ IsInjective(list) =>
                 /\ IsInjective(Filtered(list, kept))
                 /\ Filtered(list, kept)
                       = Sorted(ToSet(list) \cap kept, Order(list))
<1>1. PICK f : f = Filtered(list, kept)
  OBVIOUS
<1>2. PICK place \in Seq(1..Len(list)) :
         /\ f \in Seq(X \cap kept) /\ Len(f) = Len(place)
         /\ \A k \in 1..Len(f) : f[k] = list[place[k]]
         /\ \A i \in 1..Len(list) : list[i] \in kept =>
               \E k \in 1..Len(f) : place[k] = i
         /\ \A k, l \in 1..Len(f) : k < l => place[k] < place[l]
  BY <1>1, FilteredIs
<1>3. /\ Len(f) \in Nat /\ Len(list) \in Nat
      /\ \A k \in 1..Len(f) : place[k] \in 1..Len(list) /\ f[k] \in X \cap kept
  BY <1>2
<1>4. f \in Seq(X)
  <2>1. X \cap kept \subseteq X
    OBVIOUS
  <2>2. QED  BY <1>2, <2>1, SeqMonotonic
<1>5. ASSUME NEW x
      PROVE  x \in ToSet(f) <=> x \in ToSet(list) \cap kept
  <2>1. x \in ToSet(f) <=> \E k \in 1..Len(f) : f[k] = x
    BY <1>4, ElementsOf
  <2>2. x \in ToSet(list) <=> \E i \in 1..Len(list) : list[i] = x
    BY ElementsOf
  <2>3. ASSUME NEW k \in 1..Len(f), f[k] = x
        PROVE  x \in kept /\ \E i \in 1..Len(list) : list[i] = x
    BY <1>2, <1>3, <2>3
  <2>4. ASSUME NEW i \in 1..Len(list), list[i] = x, x \in kept
        PROVE  \E k \in 1..Len(f) : f[k] = x
    <3>1. PICK k \in 1..Len(f) : place[k] = i
      BY <1>2, <2>4
    <3>2. f[k] = list[place[k]]
      BY <1>2
    <3>3. QED  BY <2>4, <3>1, <3>2
  <2>5. QED  BY <2>1, <2>2, <2>3, <2>4
<1>6. ToSet(f) = ToSet(list) \cap kept
  BY <1>5
<1>7. ASSUME IsInjective(list)
      PROVE  IsInjective(f) /\ f = Sorted(ToSet(list) \cap kept, Order(list))
  <2>1. \A i, j \in 1..Len(list) : list[i] = list[j] => i = j
    BY <1>7, ElementsOf DEF IsInjective
  <2>2. ASSUME NEW k \in 1..Len(f), NEW l \in 1..Len(f), f[k] = f[l]
        PROVE  k = l
    <3>1. place[k] = place[l] /\ place[k] \in Int
      BY <1>2, <1>3, <2>1, <2>2
    <3>2. ~(k < l) /\ ~(l < k)
      BY <1>2, <3>1
    <3>3. QED  BY <1>3, <3>2
  <2>3. IsInjective(f)
    BY <1>4, <2>2, ElementsOf DEF IsInjective
  <2>4. PICK S : S = ToSet(list) \cap kept
    OBVIOUS
  <2>5. IsFiniteSet(S) /\ StrictOrder(Order(list), S)
    <3>1. IsFiniteSet(ToSet(list)) /\ S \in SUBSET ToSet(list)
      BY <2>4, ElementsOf
    <3>2. QED  BY <1>7, <3>1, FS_Subset, OrderIsStrict
  <2>6. Lists(f, S, Order(list))
    <3>1. f \in Seq(S) /\ \A x \in S : \E k \in 1..Len(f) : f[k] = x
      <4>1. \A x \in S : \E k \in 1..Len(f) : f[k] = x
        BY <1>4, <1>6, <2>4, ElementsOf
      <4>2. \A k \in 1..Len(f) : f[k] \in S
        BY <1>4, <1>6, <2>4, ElementsOf
      <4>3. f \in Seq(S)
        <5>1. f = [k \in 1..Len(f) |-> f[k]]
          BY <1>4
        <5>2. QED  BY <1>3, <4>2, <5>1
      <4>4. QED  BY <4>1, <4>3
    <3>2. ASSUME NEW k \in 1..Len(f), NEW l \in 1..Len(f), k < l
          PROVE  <<f[k], f[l]>> \in Order(list)
      <4>1. /\ place[k] \in 1..Len(list) /\ place[l] \in 1..Len(list)
            /\ place[k] < place[l]
            /\ f[k] = list[place[k]] /\ f[l] = list[place[l]]
        BY <1>2, <1>3, <3>2
      <4>2. QED  BY <4>1, InOrder
    <3>3. QED  BY <3>1, <3>2 DEF Lists
  <2>7. f = Sorted(S, Order(list))
    BY <2>5, <2>6, OnlySorted
  <2>8. QED  BY <2>3, <2>4, <2>7
<1>8. QED  BY <1>1, <1>4, <1>6, <1>7

\* An element is taken out of a list without repetition: the others stay.
LEMMA FirstRemoved ==
    ASSUME NEW X, NEW list \in Seq(X), IsInjective(list),
           NEW x \in ToSet(list)
    PROVE  /\ RemoveFirst(list, x) \in Seq(X)
           /\ IsInjective(RemoveFirst(list, x))
           /\ ToSet(RemoveFirst(list, x)) = ToSet(list) \ {x}
<1> DEFINE I == {i \in 1..Len(list) : list[i] = x}
<1>1. /\ Len(list) \in Nat
      /\ \A y : y \in ToSet(list) <=> \E i \in 1..Len(list) : list[i] = y
      /\ \A i, j \in 1..Len(list) : list[i] = list[j] => i = j
  BY ElementsOf DEF IsInjective
<1>2. PICK p \in 1..Len(list) : list[p] = x
  BY <1>1
<1>3. I = {p}
  BY <1>1, <1>2
<1>4. SelectInSeq(list, LAMBDA v : v = x) = p
  <2>1. Min({p}) = p
    BY <1>1 DEF Min
  <2>2. SelectInSeq(list, LAMBDA v : v = x) = IF I # {} THEN Min(I) ELSE 0
    BY DEF SelectInSeq
  <2>3. QED  BY <1>3, <2>1, <2>2
<1>5. PICK r : r = SubSeq(list, 1, p - 1) \o SubSeq(list, p + 1, Len(list))
  OBVIOUS
<1>6. RemoveFirst(list, x) = r
  BY <1>2, <1>4, <1>5 DEF RemoveFirst, RemoveAt
<1>7. /\ r \in Seq(X) /\ Len(r) = Len(list) - 1
      /\ \A k \in 1..Len(r) : r[k] = IF k < p THEN list[k] ELSE list[k + 1]
  <2>1. /\ p \in Int /\ 1 <= p /\ p <= Len(list)
        /\ SubSeq(list, 1, p - 1) \in Seq(X)
        /\ Len(SubSeq(list, 1, p - 1)) = p - 1
        /\ \A k \in 1..(p - 1) : SubSeq(list, 1, p - 1)[k] = list[k]
    BY <1>1
  <2>2. /\ SubSeq(list, p + 1, Len(list)) \in Seq(X)
        /\ Len(SubSeq(list, p + 1, Len(list))) = Len(list) - p
        /\ \A k \in 1..(Len(list) - p) :
              SubSeq(list, p + 1, Len(list))[k] = list[p + k]
    BY <1>1, <2>1
  <2>3. PICK front \in Seq(X), back \in Seq(X) :
           front = SubSeq(list, 1, p - 1) /\ back = SubSeq(list, p + 1, Len(list))
    BY <2>1, <2>2
  <2>4. /\ r \in Seq(X) /\ Len(r) = Len(front) + Len(back)
        /\ \A k \in 1..Len(r) : r[k] = IF k <= Len(front) THEN front[k]
                                      ELSE back[k - Len(front)]
    <3>1. r = front \o back
      BY <1>5, <2>3, Zenon
    <3>2. QED  BY <3>1, ConcatProperties
  <2>5. Len(front) = p - 1 /\ Len(back) = Len(list) - p
    BY <2>1, <2>2, <2>3
  <2>6. ASSUME NEW k \in 1..Len(r)
        PROVE  r[k] = IF k < p THEN list[k] ELSE list[k + 1]
    <3>1. CASE k < p
      <4>1. k \in 1..(p - 1) /\ k <= Len(front)
        BY <2>1, <2>5, <3>1
      <4>2. QED  BY <2>1, <2>3, <2>4, <3>1, <4>1
    <3>2. CASE ~(k < p)
      <4>1. /\ ~(k <= Len(front)) /\ k - (p - 1) \in 1..(Len(list) - p)
            /\ p + (k - (p - 1)) = k + 1
        BY <1>1, <2>1, <2>4, <2>5, <3>2
      <4>2. r[k] = back[k - (p - 1)] /\ back[k - (p - 1)] = list[k + 1]
        BY <2>2, <2>3, <2>4, <2>5, <4>1
      <4>3. QED  BY <3>2, <4>2
    <3>3. QED  BY <3>1, <3>2
  <2>7. QED  BY <1>1, <2>1, <2>4, <2>5, <2>6
<1>8. DOMAIN r = 1..Len(r) /\ Len(r) \in Nat
  BY <1>7
<1>9. IsInjective(r)
  <2>1. SUFFICES ASSUME NEW k \in 1..Len(r), NEW l \in 1..Len(r), r[k] = r[l]
                 PROVE  k = l
    BY <1>8 DEF IsInjective
  <2>2. PICK i \in 1..Len(list), j \in 1..Len(list) :
           /\ i = IF k < p THEN k ELSE k + 1
           /\ j = IF l < p THEN l ELSE l + 1
           /\ r[k] = list[i] /\ r[l] = list[j]
    BY <1>1, <1>7
  <2>3. i = j
    BY <1>1, <2>1, <2>2
  <2>4. QED  BY <1>1, <1>8, <2>2, <2>3
<1>10. ASSUME NEW y
       PROVE  y \in ToSet(r) <=> y \in ToSet(list) \ {x}
  <2>1. y \in ToSet(r) <=> \E k \in 1..Len(r) : r[k] = y
    BY <1>7, ElementsOf
  <2>2. ASSUME NEW k \in 1..Len(r), r[k] = y
        PROVE  y \in ToSet(list) \ {x}
    <3>1. PICK i \in 1..Len(list) :
             i = (IF k < p THEN k ELSE k + 1) /\ r[k] = list[i]
      BY <1>1, <1>7
    <3>2. i # p
      BY <1>1, <1>8, <3>1
    <3>3. list[i] # x
      BY <1>1, <1>2, <3>2
    <3>4. QED  BY <1>1, <2>2, <3>1, <3>3
  <2>3. ASSUME y \in ToSet(list) \ {x}
        PROVE  \E k \in 1..Len(r) : r[k] = y
    <3>1. PICK i \in 1..Len(list) : list[i] = y
      BY <1>1, <2>3
    <3>2. i # p
      BY <1>2, <2>3, <3>1
    <3>3. PICK k \in 1..Len(r) : k = IF i < p THEN i ELSE i - 1
      BY <1>1, <1>7, <3>2
    <3>4. r[k] = list[i]
      BY <1>1, <1>7, <3>2, <3>3
    <3>5. QED  BY <3>1, <3>4
  <2>4. QED  BY <2>1, <2>2, <2>3
<1>11. ToSet(r) = ToSet(list) \ {x}
  BY <1>10
<1>12. QED  BY <1>6, <1>7, <1>9, <1>11

\* A new element is put at the end of a list without repetition.
LEMMA Appended ==
    ASSUME NEW X, NEW list \in Seq(X), IsInjective(list),
           NEW x, x \notin ToSet(list)
    PROVE  /\ Append(list, x) \in Seq(X \cup {x})
           /\ IsInjective(Append(list, x))
           /\ ToSet(Append(list, x)) = ToSet(list) \cup {x}
<1>1. /\ Len(list) \in Nat
      /\ \A y : y \in ToSet(list) <=> \E i \in 1..Len(list) : list[i] = y
      /\ \A i, j \in 1..Len(list) : list[i] = list[j] => i = j
  BY ElementsOf DEF IsInjective
<1>2. PICK r : r = Append(list, x)
  OBVIOUS
<1>3. list \in Seq(X \cup {x})
  <2>1. X \subseteq X \cup {x}
    OBVIOUS
  <2>2. QED  BY <2>1, SeqMonotonic
<1>4. /\ r \in Seq(X \cup {x}) /\ Len(r) = Len(list) + 1
      /\ \A k \in 1..Len(list) : r[k] = list[k]
      /\ r[Len(list) + 1] = x
  BY <1>2, <1>3, AppendProperties
<1>5. DOMAIN r = 1..Len(r) /\ Len(r) \in Nat
      /\ \A k \in 1..Len(r) : k = Len(list) + 1 \/ k \in 1..Len(list)
  BY <1>1, <1>4
<1>6. IsInjective(r)
  <2>1. SUFFICES ASSUME NEW k \in 1..Len(r), NEW l \in 1..Len(r), r[k] = r[l]
                 PROVE  k = l
    BY <1>5 DEF IsInjective
  <2>2. \A i \in 1..Len(list) : list[i] # x
    BY <1>1
  <2>3. QED  BY <1>1, <1>4, <1>5, <2>1, <2>2
<1>7. ASSUME NEW y
      PROVE  y \in ToSet(r) <=> y \in ToSet(list) \cup {x}
  <2>1. y \in ToSet(r) <=> \E k \in 1..Len(r) : r[k] = y
    BY <1>4, ElementsOf
  <2>2. Len(list) + 1 \in 1..Len(r) /\ 1..Len(list) \subseteq 1..Len(r)
    BY <1>1, <1>4
  <2>3. QED  BY <1>1, <1>4, <1>5, <2>1, <2>2
<1>8. ToSet(r) = ToSet(list) \cup {x}
  BY <1>7
<1>9. QED  BY <1>2, <1>4, <1>6, <1>8

-----------------------------------------------------------------------------
(* The registry's state.                                                   *)

\* What Settings sees to when a provider is configured: the providers of a
\* group have different priorities.
PrioritiesUnique ==
    \A id, other \in Registered :
        id # other /\ providers[id].task_group = providers[other].task_group
        => providers[id].priority # providers[other].priority

RegistryInv == TypeOK /\ PrioritiesUnique

LEMMA Initially == Init => RegistryInv
<1>1. SUFFICES ASSUME Init
               PROVE  RegistryInv
  OBVIOUS
<1>2. Registered = {} /\ order = << >>
  BY <1>1 DEF Init, Registered
<1>3. /\ providers \in [Registered -> ProviderConfig] /\ order \in Seq(Registered)
      /\ ToSet(order) = Registered /\ IsInjective(order)
  BY <1>1, <1>2 DEF Init, ToSet, IsInjective, Registered
<1>4. QED  BY <1>2, <1>3 DEF RegistryInv, TypeOK, PrioritiesUnique

\* register keeps the two structures together, and priorities apart.
LEMMA Registering ==
    ASSUME RegistryInv, NEW id \in Ids, NEW config \in ProviderConfig,
           Register(id, config)
    PROVE  RegistryInv'
<1>1. /\ Registered \subseteq Ids /\ providers \in [Registered -> ProviderConfig]
      /\ order \in Seq(Registered) /\ ToSet(order) = Registered
      /\ IsInjective(order)
  BY DEF RegistryInv, TypeOK
<1>2. /\ providers' = [known \in Registered \cup {id} |->
                          IF known = id THEN config ELSE providers[known]]
      /\ order' = IF id \in Registered THEN order ELSE Append(order, id)
      /\ \A other \in Registered \ {id} :
            providers[other].task_group = config.task_group
            => providers[other].priority # config.priority
  BY DEF Register
<1>3. PICK known : known = Registered \cup {id}
  OBVIOUS
<1>4. /\ Registered' = known /\ known \subseteq Ids
      /\ providers' \in [known -> ProviderConfig]
      /\ providers'[id] = config
      /\ \A other \in known \ {id} :
            other \in Registered /\ providers'[other] = providers[other]
  BY <1>1, <1>2, <1>3 DEF Registered
<1>5. order' \in Seq(known) /\ ToSet(order') = known /\ IsInjective(order')
  <2>1. CASE id \in Registered
    BY <1>1, <1>2, <1>3, <2>1
  <2>2. CASE id \notin Registered
    BY <1>1, <1>2, <1>3, <2>2, Appended
  <2>3. QED  BY <2>1, <2>2
<1>6. PICK list, configs : list = order' /\ configs = providers'
  OBVIOUS
<1>7. TypeOK'
  BY <1>4, <1>5 DEF TypeOK
<1>8. PrioritiesUnique'
  <2>1. SUFFICES ASSUME NEW x \in known, NEW y \in known, x # y,
                        configs[x].task_group = configs[y].task_group
                 PROVE  configs[x].priority # configs[y].priority
    BY <1>4, <1>6 DEF PrioritiesUnique
  <2>2. CASE x = id
    BY <1>2, <1>4, <1>6, <2>1, <2>2
  <2>3. CASE y = id
    BY <1>2, <1>4, <1>6, <2>1, <2>3
  <2>4. CASE x # id /\ y # id
    BY <1>4, <1>6, <2>1, <2>4 DEF RegistryInv, PrioritiesUnique
  <2>5. QED  BY <2>2, <2>3, <2>4
<1>9. QED  BY <1>7, <1>8 DEF RegistryInv

LEMMA Removing ==
    ASSUME RegistryInv, NEW id \in Ids, RemoveProvider(id)
    PROVE  RegistryInv'
<1>1. /\ Registered \subseteq Ids /\ providers \in [Registered -> ProviderConfig]
      /\ order \in Seq(Registered) /\ ToSet(order) = Registered
      /\ IsInjective(order)
  BY DEF RegistryInv, TypeOK
<1>2. /\ id \in Registered /\ order' = RemoveFirst(order, id)
      /\ providers' = [known \in Registered \ {id} |-> providers[known]]
  BY DEF RemoveProvider
<1>3. PICK known : known = Registered \ {id}
  OBVIOUS
<1>4. /\ Registered' = known /\ known \subseteq Registered
      /\ providers' \in [known -> ProviderConfig]
      /\ \A other \in known : providers'[other] = providers[other]
  BY <1>1, <1>2, <1>3 DEF Registered
<1>5. /\ order' \in Seq(Registered) /\ ToSet(order') = known
      /\ IsInjective(order')
  BY <1>1, <1>2, <1>3, FirstRemoved
<1>6. order' \in Seq(known)
  <2>1. PICK list : list = order'
    OBVIOUS
  <2>2. list \in Seq(Registered) /\ list = [k \in 1..Len(list) |-> list[k]]
        /\ Len(list) \in Nat /\ \A k \in 1..Len(list) : list[k] \in known
    BY <1>5, <2>1, ElementsOf
  <2>3. list \in Seq(known)
    BY <2>2
  <2>4. QED  BY <2>1, <2>3
<1>7. TypeOK'
  BY <1>1, <1>4, <1>5, <1>6 DEF TypeOK
<1>8. PrioritiesUnique'
  BY <1>4 DEF RegistryInv, PrioritiesUnique
<1>9. QED  BY <1>7, <1>8 DEF RegistryInv

LEMMA Enabling ==
    ASSUME RegistryInv, NEW id \in Ids, NEW enabled \in BOOLEAN,
           SetEnabled(id, enabled)
    PROVE  RegistryInv'
<1>1. /\ Registered \subseteq Ids /\ providers \in [Registered -> ProviderConfig]
      /\ order \in Seq(Registered) /\ ToSet(order) = Registered
      /\ IsInjective(order)
  BY DEF RegistryInv, TypeOK
<1>2. /\ id \in Registered /\ order' = order
      /\ providers' = [providers EXCEPT ![id].enabled = enabled]
  BY DEF SetEnabled
<1>3. PICK config : config = [providers[id] EXCEPT !.enabled = enabled]
  OBVIOUS
<1>4. /\ config \in ProviderConfig
      /\ config.task_group = providers[id].task_group
      /\ config.priority = providers[id].priority
  <2>1. providers[id] \in ProviderConfig
    BY <1>1, <1>2
  <2>2. QED  BY <1>3, <2>1 DEF ProviderConfig
<1>5. /\ Registered' = Registered
      /\ providers' \in [Registered -> ProviderConfig]
      /\ providers'[id] = config
      /\ \A other \in Registered \ {id} : providers'[other] = providers[other]
  BY <1>1, <1>2, <1>3, <1>4 DEF Registered
<1>6. TypeOK'
  BY <1>1, <1>2, <1>5 DEF TypeOK
<1>7. \A other \in Registered :
         /\ providers'[other].task_group = providers[other].task_group
         /\ providers'[other].priority = providers[other].priority
  BY <1>4, <1>5
<1>8. PrioritiesUnique'
  BY <1>5, <1>7 DEF RegistryInv, PrioritiesUnique
<1>9. QED  BY <1>6, <1>8 DEF RegistryInv

\* No operation leaves the invariant.
LEMMA RegistryStep == RegistryInv /\ [Next]_vars => RegistryInv'
<1> SUFFICES ASSUME RegistryInv, [Next]_vars
             PROVE  RegistryInv'
  OBVIOUS
<1>1. ASSUME NEW id \in Ids, NEW config \in ProviderConfig, Register(id, config)
      PROVE  RegistryInv'
  BY <1>1, Registering
<1>2. ASSUME NEW id \in Ids, RemoveProvider(id)
      PROVE  RegistryInv'
  BY <1>2, Removing
<1>3. ASSUME NEW id \in Ids, NEW enabled \in BOOLEAN, SetEnabled(id, enabled)
      PROVE  RegistryInv'
  BY <1>3, Enabling
<1>4. CASE UNCHANGED vars
  BY <1>4 DEF vars, RegistryInv, TypeOK, PrioritiesUnique, Registered
<1>5. QED  BY <1>1, <1>2, <1>3, <1>4 DEF Next

LEMMA RegistryStands == Spec => []RegistryInv
<1>1. QED  BY Initially, RegistryStep, PTL DEF Spec

\* The registry's dictionary and its list never part: the list has each
\* registered id once, whatever is registered, removed, enabled or disabled
\* (ModelRegistry.register, remove, enable, disable).
THEOREM TypeCorrect == Spec => []TypeOK
<1>1. RegistryInv => TypeOK
  BY DEF RegistryInv
<1>2. QED  BY <1>1, RegistryStands, PTL

-----------------------------------------------------------------------------
(* The queries.                                                            *)

\* available_for_router lists, each once, the enabled providers that are not
\* excluded.
LEMMA AvailableIs ==
    ASSUME TypeOK, NEW excluded
    PROVE  /\ AvailableForRouter(excluded) \in Seq(Registered)
           /\ IsInjective(AvailableForRouter(excluded))
           /\ ToSet(AvailableForRouter(excluded))
                 = {id \in Registered : providers[id].enabled} \ excluded
<1>1. PICK kept : kept = {id \in ToSet(order) : providers[id].enabled} \ excluded
  OBVIOUS
<1>2. /\ order \in Seq(Registered) /\ ToSet(order) = Registered
      /\ IsInjective(order)
  BY DEF TypeOK
<1>3. AvailableForRouter(excluded) = Filtered(order, kept)
  BY <1>1 DEF AvailableForRouter
<1>4. ToSet(order) \cap kept = kept
      /\ kept = {id \in Registered : providers[id].enabled} \ excluded
  BY <1>1, <1>2
<1>5. PICK f : f = Filtered(order, kept)
  OBVIOUS
<1>6. f \in Seq(Registered) /\ IsInjective(f) /\ ToSet(f) = kept
  BY <1>2, <1>4, <1>5, FilteredKeeps
<1>7. QED  BY <1>3, <1>4, <1>5, <1>6

\* A list of allowed ids, none of them excluded.
Ranking(allowed, excluded) ==
    /\ allowed \in Seq(Registered)
    /\ IsInjective(allowed)
    /\ ToSet(allowed) \subseteq Registered \ excluded

\* What governance and policy make of the available is such a list.
LEMMA RankingIs ==
    ASSUME TypeOK, NEW excluded, NEW allowed \in Rankings(excluded)
    PROVE  Ranking(allowed, excluded)
<1>1. PICK S : S = {id \in Registered : providers[id].enabled} \ excluded
  OBVIOUS
<1>2. PICK s \in SUBSET S : allowed \in SetToSeqs(s)
  BY <1>1, AvailableIs DEF Rankings, SetToAllKPermutations
<1>3. /\ allowed \in [1..Cardinality(s) -> s]
      /\ \A i, j \in 1..Cardinality(s) : i # j => allowed[i] # allowed[j]
  BY <1>2 DEF SetToSeqs
<1>4. IsFiniteSet(s) /\ Cardinality(s) \in Nat
  <2>1. IsFiniteSet(Registered)
    BY ElementsOf DEF TypeOK
  <2>2. s \in SUBSET Registered
    BY <1>1
  <2>3. QED  BY <2>1, <2>2, FS_Subset, FS_CardinalityType
<1>5. allowed \in Seq(s) /\ s \subseteq Registered
  BY <1>1, <1>3, <1>4
<1>6. allowed \in Seq(Registered)
  BY <1>5, SeqMonotonic
<1>7. ToSet(allowed) \subseteq s
  BY <1>5, ElementsOf
<1>8. IsInjective(allowed)
  BY <1>3 DEF IsInjective
<1>9. QED  BY <1>1, <1>6, <1>7, <1>8 DEF Ranking

\* (priority, id) orders the registered providers.
LEMMA PriorityOrder ==
    ASSUME TypeOK, NEW S, S \subseteq Registered
    PROVE  StrictOrder(ByPriority, S)
<1>1. \A id \in Registered : id \in Int /\ providers[id].priority \in Int
  <2>1. SUFFICES ASSUME NEW id \in Registered
                 PROVE  id \in Int /\ providers[id].priority \in Int
    OBVIOUS
  <2>2. id \in Ids /\ providers[id] \in ProviderConfig
    BY DEF TypeOK
  <2>3. providers[id].priority \in Priorities
    BY <2>2 DEF ProviderConfig
  <2>4. Ids \subseteq Nat /\ Priorities \subseteq Nat
    BY RegistryAssumption
  <2>5. id \in Nat /\ providers[id].priority \in Nat
    BY <2>2, <2>3, <2>4
  <2>6. QED  BY <2>5
<1>2. \A x, y \in Registered : <<x, y>> \in ByPriority <=>
         \/ providers[x].priority < providers[y].priority
         \/ providers[x].priority = providers[y].priority /\ x < y
  BY DEF ByPriority
<1>3. \A x \in Registered : <<x, x>> \notin ByPriority
  BY <1>1, <1>2
<1>4. ASSUME NEW x \in Registered, NEW y \in Registered, NEW z \in Registered,
             <<x, y>> \in ByPriority, <<y, z>> \in ByPriority
      PROVE  <<x, z>> \in ByPriority
  BY <1>1, <1>2, <1>4
<1>5. ASSUME NEW x \in Registered, NEW y \in Registered
      PROVE  x = y \/ <<x, y>> \in ByPriority \/ <<y, x>> \in ByPriority
  BY <1>1, <1>2
<1>6. QED  BY <1>3, <1>4, <1>5 DEF StrictOrder

\* The candidates of a group can be sorted either way.
LEMMA CandidatesIs ==
    ASSUME TypeOK, NEW excluded, NEW allowed, Ranking(allowed, excluded),
           NEW image, NEW group,
           NEW before \in {Order(allowed), ByPriority},
           NEW C, C = Candidates(group, image, excluded, allowed),
           NEW s, s = Sorted(C, before)
    PROVE  /\ C = {id \in ToSet(order) : providers[id].task_group = group
                                         /\ Usable(id, image, allowed)}
           /\ C \subseteq ToSet(allowed) /\ C \subseteq Registered
           /\ s \in Seq(C) /\ ToSet(s) = C
           /\ Len(s) = Cardinality(C) /\ Lists(s, C, before)
<1>1. /\ ToSet(order) = Registered /\ IsFiniteSet(Registered)
  BY ElementsOf DEF TypeOK
<1>2. /\ allowed \in Seq(Registered) /\ IsInjective(allowed)
      /\ \A id \in ToSet(allowed) : id \in Registered \ excluded
  BY DEF Ranking
<1>3. /\ C \subseteq ToSet(allowed) /\ C \in SUBSET Registered
      /\ C = {id \in ToSet(order) : providers[id].task_group = group
                                    /\ Usable(id, image, allowed)}
  BY <1>1, <1>2 DEF Candidates, Usable
<1>4. IsFiniteSet(C)
  BY <1>1, <1>3, FS_Subset
<1>5. StrictOrder(before, C)
  BY <1>2, <1>3, OrderIsStrict, PriorityOrder
<1>6. Lists(s, C, before) /\ Ranks(s, C, before)
  BY <1>4, <1>5, SortedIs
<1>7. s \in Seq(C) /\ Len(s) = Cardinality(C)
      /\ \A x \in C : \E k \in 1..Len(s) : s[k] = x
  BY <1>6 DEF Lists, Ranks
<1>8. ToSet(s) \subseteq C /\ \A x \in C : x \in ToSet(s)
  BY <1>7, ElementsOf
<1>9. QED  BY <1>3, <1>6, <1>7, <1>8

\* A list is empty when it has no element.
LEMMA EmptyList ==
    ASSUME NEW X, NEW list \in Seq(X)
    PROVE  list = << >> <=> ToSet(list) = {}
<1>1. /\ Len(list) \in Nat
      /\ \A x : x \in ToSet(list) <=> \E i \in 1..Len(list) : list[i] = x
  BY ElementsOf
<1>2. list = << >> <=> Len(list) = 0
  BY EmptySeq
<1>3. ASSUME ToSet(list) = {}
      PROVE  Len(list) = 0
  <2>1. 1 \in 1..Len(list) => list[1] \in ToSet(list)
    BY <1>1
  <2>2. QED  BY <1>1, <1>3, <2>1
<1>4. ASSUME Len(list) = 0
      PROVE  ToSet(list) = {}
  BY <1>1, <1>4
<1>5. QED  BY <1>2, <1>3, <1>4

\* The candidates of a group are among the allowed and can do what is asked,
\* and a group is on offer exactly when it has one.
LEMMA CandidatesServe ==
    ASSUME TypeOK, NEW excluded, NEW allowed, Ranking(allowed, excluded),
           NEW image, NEW preserve \in BOOLEAN, NEW group,
           NEW s, s = CandidatesFor(group, image, excluded, allowed, preserve)
    PROVE  /\ s \in Seq(ToSet(allowed))
           /\ \A i \in 1..Len(s) : image => providers[s[i]].image
           /\ s # << >> <=> group \in AvailableTaskGroups(allowed, image)
<1>1. PICK before \in {Order(allowed), ByPriority} :
         before = IF preserve THEN Order(allowed) ELSE ByPriority
  OBVIOUS
<1>2. PICK C : C = Candidates(group, image, excluded, allowed)
  OBVIOUS
<1>3. s = Sorted(C, before)
  BY <1>1, <1>2 DEF CandidatesFor
<1>4. /\ s \in Seq(C) /\ ToSet(s) = C /\ C \subseteq ToSet(allowed)
      /\ C = {id \in ToSet(order) : providers[id].task_group = group
                                    /\ Usable(id, image, allowed)}
  BY <1>2, <1>3, CandidatesIs
<1>5. s \in Seq(ToSet(allowed))
  BY <1>4, SeqMonotonic
<1>6. \A i \in 1..Len(s) : Usable(s[i], image, allowed)
  BY <1>4
<1>7. s # << >> <=> C # {}
  BY <1>4, EmptyList
<1>8. group \in AvailableTaskGroups(allowed, image) <=> \E id \in ToSet(order) :
         Usable(id, image, allowed) /\ providers[id].task_group = group
  BY DEF AvailableTaskGroups
<1>9. C # {} <=> \E id \in ToSet(order) :
         Usable(id, image, allowed) /\ providers[id].task_group = group
  BY <1>4
<1>10. QED  BY <1>5, <1>6, <1>7, <1>8, <1>9 DEF Usable

\* What the routers are offered can be served: an ANSWER that the validator
\* accepts, for a conversation with an image too, has somewhere to go.
LEMMA OfferedIsServable == TypeOK => AcceptedAnswerServable
<1>1. SUFFICES ASSUME TypeOK, NEW excluded \in SUBSET Ids,
                      NEW image \in BOOLEAN, NEW preserve \in BOOLEAN,
                      NEW allowed \in Rankings(excluded)
               PROVE
    LET groups == AvailableTaskGroups(allowed, image)
        candidates(group) ==
            CandidatesFor(group, image, excluded, allowed, preserve)
    IN  /\ groups = {group \in TaskGroups : candidates(group) # << >>}
        /\ \A decision \in Decisions :
              /\ Valid(decision, groups, image, FALSE)
              /\ decision.action = "ANSWER"
              => /\ candidates(decision.task_group) # << >>
                 /\ image => \A i \in 1..Len(candidates(decision.task_group)) :
                                providers[candidates(decision.task_group)[i]].image
  BY DEF AcceptedAnswerServable
<1> DEFINE candidates(group) ==
               CandidatesFor(group, image, excluded, allowed, preserve)
<1>2. PICK groups : groups = AvailableTaskGroups(allowed, image)
  OBVIOUS
<1>3. groups \subseteq TaskGroups
  <2>1. /\ ToSet(order) = Registered
        /\ \A id \in Registered : providers[id].task_group \in TaskGroups
    BY <1>1 DEF TypeOK, ProviderConfig
  <2>2. QED  BY <1>2, <2>1 DEF AvailableTaskGroups
<1>4. ASSUME NEW group, NEW s, s = candidates(group)
      PROVE  /\ s # << >> <=> group \in groups
             /\ \A i \in 1..Len(s) : image => providers[s[i]].image
  BY <1>1, <1>2, <1>4, CandidatesServe, RankingIs
<1> HIDE DEF candidates
<1>5. groups = {group \in TaskGroups : candidates(group) # << >>}
  BY <1>3, <1>4
<1>6. \A decision \in Decisions :
          /\ Valid(decision, groups, image, FALSE)
          /\ decision.action = "ANSWER"
          => /\ candidates(decision.task_group) # << >>
             /\ image => \A i \in 1..Len(candidates(decision.task_group)) :
                            providers[candidates(decision.task_group)[i]].image
  BY <1>4 DEF Valid
<1>7. QED  BY <1>2, <1>5, <1>6 DEF candidates

\* Governance takes away and policy only reorders: a group has the same
\* candidates in the policy's order and in the registry's.
LEMMA ReorderingOnly == RegistryInv => PolicyOnlyReorders
<1>1. SUFFICES ASSUME RegistryInv, NEW excluded \in SUBSET Ids,
                      NEW image \in BOOLEAN, NEW group \in TaskGroups,
                      NEW allowed \in Rankings(excluded)
               PROVE
    LET ranked == CandidatesFor(group, image, excluded, allowed, TRUE)
        listed == CandidatesFor(group, image, excluded, allowed, FALSE)
    IN  /\ ranked = Filtered(allowed, ToSet(listed))
        /\ Len(ranked) = Len(listed)
        /\ \A i \in 1..(Len(listed) - 1) :
              providers[listed[i]].priority < providers[listed[i + 1]].priority
  BY DEF PolicyOnlyReorders
<1>2. PICK C, ranked, listed :
         /\ C = Candidates(group, image, excluded, allowed)
         /\ ranked = CandidatesFor(group, image, excluded, allowed, TRUE)
         /\ listed = CandidatesFor(group, image, excluded, allowed, FALSE)
  OBVIOUS
<1>3. TypeOK /\ Ranking(allowed, excluded)
  BY <1>1, RankingIs DEF RegistryInv
<1>4. /\ C = {id \in ToSet(order) : providers[id].task_group = group
                                    /\ Usable(id, image, allowed)}
      /\ C \subseteq ToSet(allowed) /\ C \subseteq Registered
      /\ ranked = Sorted(C, Order(allowed)) /\ Len(ranked) = Cardinality(C)
  <2>1. PICK before \in {Order(allowed), ByPriority} : before = Order(allowed)
    OBVIOUS
  <2>2. ranked = Sorted(C, before)
    BY <1>2, <2>1 DEF CandidatesFor
  <2>3. C = Candidates(group, image, excluded, allowed)
    BY <1>2
  <2>4. QED  BY <1>1, <1>3, <2>1, <2>2, <2>3, CandidatesIs
<1>5. /\ listed \in Seq(C) /\ ToSet(listed) = C
      /\ Len(listed) = Cardinality(C) /\ Lists(listed, C, ByPriority)
  <2>1. PICK before \in {Order(allowed), ByPriority} : before = ByPriority
    OBVIOUS
  <2>2. listed = Sorted(C, before)
    BY <1>2, <2>1 DEF CandidatesFor
  <2>3. C = Candidates(group, image, excluded, allowed)
    BY <1>2
  <2>4. QED  BY <1>1, <1>3, <2>1, <2>2, <2>3, CandidatesIs
<1>6. ranked = Filtered(allowed, ToSet(listed))
  <2>1. allowed \in Seq(Registered) /\ IsInjective(allowed)
    BY <1>3 DEF Ranking
  <2>2. Filtered(allowed, C) = Sorted(ToSet(allowed) \cap C, Order(allowed))
    BY <2>1, FilteredKeeps
  <2>3. ToSet(allowed) \cap C = C
    BY <1>4
  <2>4. QED  BY <1>4, <1>5, <2>2, <2>3
<1>7. ASSUME NEW i \in 1..(Len(listed) - 1)
      PROVE  providers[listed[i]].priority < providers[listed[i + 1]].priority
  <2>1. PICK x, y : x = listed[i] /\ y = listed[i + 1]
    OBVIOUS
  <2>2. /\ i \in 1..Len(listed) /\ i + 1 \in 1..Len(listed) /\ i < i + 1
    BY <1>5
  <2>3. x \in C /\ y \in C /\ <<x, y>> \in ByPriority
    BY <1>5, <2>1, <2>2 DEF Lists
  <2>4. x # y
    BY <1>3, <1>4, <2>3, PriorityOrder DEF StrictOrder
  <2>5. providers[x].priority # providers[y].priority
    <3>1. /\ x \in Registered /\ y \in Registered
          /\ providers[x].task_group = providers[y].task_group
      BY <1>4, <2>3
    <3>2. QED  BY <1>1, <2>4, <3>1 DEF RegistryInv, PrioritiesUnique
  <2>6. \/ providers[x].priority < providers[y].priority
        \/ providers[x].priority = providers[y].priority /\ x < y
    BY <2>3 DEF ByPriority
  <2>7. QED  BY <2>1, <2>5, <2>6
<1>8. Len(ranked) = Len(listed)
  BY <1>4, <1>5
<1>9. QED  BY <1>2, <1>6, <1>7, <1>8

\* A group is offered to the routers exactly when it has a candidate, so an
\* ANSWER that the validator accepts always has a provider to go to, one that
\* takes images when it must: for any providers, and whatever governance and
\* policy leave of them (ModelRegistry.available_task_groups and
\* candidates_for, DecisionValidator.validate).
THEOREM AnswersServable == Spec => []AcceptedAnswerServable
<1>1. QED  BY OfferedIsServable, TypeCorrect, PTL

\* A policy changes the order of a group's candidates and nothing else, and
\* without one they stand by strictly increasing priority
\* (ModelRegistry.candidates_for).
THEOREM PoliciesReorder == Spec => []PolicyOnlyReorders
<1>1. QED  BY ReorderingOnly, RegistryStands, PTL

=============================================================================
