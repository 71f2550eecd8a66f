------------------------------ MODULE OrderProofs ----------------------------
(****************************************************************************)
(* What sorting and filtering return (Order), for every finite set, and     *)
(* induction over the natural numbers in a form the provers can use: about  *)
(* a set, where the library's theorem is about a predicate.                 *)
(****************************************************************************)
EXTENDS Order, Sequences, FiniteSetTheorems, WellFoundedInduction, TLAPS

\* A set of numbers that is not empty has a least one.
LEMMA LeastNumber ==
  ASSUME NEW T \in SUBSET Nat, T # {}
  PROVE  \E x \in T : \A y \in T : x <= y
<1>1. IsWellFoundedOn(OpToRel(<, Nat), Nat)
  BY NatLessThanWellFounded
<1>2. PICK x \in T : \A y \in T : <<y, x>> \notin OpToRel(<, Nat)
  BY <1>1, WFMin
<1>3. \A y \in T : <<y, x>> \in OpToRel(<, Nat) <=> y < x
  BY DEF OpToRel
<1>4. \A y \in T : ~(y < x)
  BY <1>2, <1>3, Zenon
<1> QED BY <1>4

\* Induction: a set with zero and every successor has every number.
LEMMA SetInduction ==
  ASSUME NEW S, 0 \in S, \A n \in Nat : n \in S => n + 1 \in S
  PROVE  Nat \subseteq S
<1> SUFFICES ASSUME Nat \ S # {} PROVE FALSE
  OBVIOUS
<1>1. PICK x \in Nat \ S : \A y \in Nat \ S : x <= y
  BY LeastNumber
<1>2. x # 0 /\ x - 1 \in Nat /\ x - 1 \in S
  BY <1>1
<1> QED BY <1>1, <1>2

------------------------------------------------------------------------------
\* A strict total order on S.
Orders(before, S) ==
  /\ \A x \in S : <<x, x>> \notin before
  /\ \A x, y \in S : x # y => <<x, y>> \in before \/ <<y, x>> \in before
  /\ \A x, y, z \in S : <<x, y>> \in before /\ <<y, z>> \in before => <<x, z>> \in before

\* The elements in front of x are fewer than those in front of any later one.
LEMMA FrontGrows ==
  ASSUME NEW S, IsFiniteSet(S), NEW before, Orders(before, S), NEW x \in S
  PROVE  /\ Cardinality({z \in S : <<z, x>> \in before}) \in 0 .. Cardinality(S) - 1
         /\ \A y \in S : <<x, y>> \in before =>
              Cardinality({z \in S : <<z, x>> \in before})
                < Cardinality({z \in S : <<z, y>> \in before})
<1> DEFINE Front(y) == {z \in S : <<z, y>> \in before}
<1>1. \A y \in S : /\ IsFiniteSet(Front(y)) /\ Cardinality(Front(y)) \in Nat
                   /\ Front(y) \in SUBSET S /\ y \notin Front(y)
  <2>1. \A y \in S : Front(y) \in SUBSET S /\ y \notin Front(y)
    BY DEF Orders
  <2> HIDE DEF Front
  <2> QED BY <2>1, FS_Subset, FS_CardinalityType
<1>2. \A y \in S : <<x, y>> \in before => Front(x) \in SUBSET Front(y) /\ x \in Front(y)
  BY DEF Orders
<1> HIDE DEF Front
<1>3. Cardinality(S) \in Nat
  BY FS_CardinalityType
<1>4. Cardinality(Front(x)) < Cardinality(S)
  <2>1. Cardinality(Front(x)) <= Cardinality(S)
    BY <1>1, FS_Subset
  <2>2. Cardinality(Front(x)) # Cardinality(S)
    BY <1>1, FS_Subset
  <2> QED BY <1>1, <1>3, <2>1, <2>2
<1>5. ASSUME NEW y \in S, <<x, y>> \in before PROVE Cardinality(Front(x)) < Cardinality(Front(y))
  <2>1. Cardinality(Front(x)) <= Cardinality(Front(y))
    BY <1>1, <1>2, <1>5, FS_Subset
  <2>2. Cardinality(Front(x)) # Cardinality(Front(y))
    BY <1>1, <1>2, <1>5, FS_Subset
  <2> QED BY <1>1, <2>1, <2>2
<1>6. Cardinality(Front(x)) \in 0 .. Cardinality(S) - 1
  BY <1>1, <1>3, <1>4
<1> QED BY <1>5, <1>6 DEF Front

\* Sorting a finite set: each element once, in the order of the relation.
LEMMA InOrderProperties ==
  ASSUME NEW S, IsFiniteSet(S), NEW before, Orders(before, S)
  PROVE  /\ Cardinality(S) \in Nat
         /\ InOrder(S, before) \in [1 .. Cardinality(S) -> S]
         /\ \A x \in S : \E k \in 1 .. Cardinality(S) : InOrder(S, before)[k] = x
         /\ \A i, j \in 1 .. Cardinality(S) :
              i < j <=> <<InOrder(S, before)[i], InOrder(S, before)[j]>> \in before
<1> DEFINE n == Cardinality(S)
           Place == 1 .. n
           front == [x \in S |-> Cardinality({z \in S : <<z, x>> \in before})]
           rank == [x \in S |-> front[x] + 1]
           o == InOrder(S, before)
<1>1. n \in Nat /\ IsFiniteSet(Place) /\ Cardinality(Place) = n
  <2>1. n \in Nat
    BY FS_CardinalityType
  <2> QED BY <2>1, FS_Interval
<1>2. /\ \A x \in S : front[x] \in 0 .. n - 1
      /\ \A x, y \in S : <<x, y>> \in before => front[x] < front[y]
  BY FrontGrows
<1> HIDE DEF front
<1>3. rank \in [S -> Place] /\ \A x, y \in S : <<x, y>> \in before => rank[x] < rank[y]
  BY <1>1, <1>2
<1>4. \A x, y \in S : rank[x] = rank[y] => x = y
  <2> SUFFICES ASSUME NEW x \in S, NEW y \in S, x # y PROVE rank[x] # rank[y]
    OBVIOUS
  <2>1. rank[x] \in Int /\ rank[y] \in Int
    BY <1>1, <1>3
  <2>2. <<x, y>> \in before \/ <<y, x>> \in before
    BY DEF Orders
  <2>3. rank[x] < rank[y] \/ rank[y] < rank[x]
    BY <1>3, <2>2
  <2> QED BY <2>1, <2>3
<1>5. \A k \in Place, x \in S : rank[x] = k <=> front[x] = k - 1
  BY <1>1, <1>2
<1> HIDE DEF rank
<1>6. rank \in Injection(S, Place)
  BY <1>3, <1>4 DEF Injection, IsInjective
<1>7. rank \in Surjection(S, Place)
  <2> HIDE DEF Place
  <2> QED BY <1>1, <1>6, FS_Injection
<1>8. ASSUME NEW k \in Place PROVE o[k] \in S /\ rank[o[k]] = k
  <2>1. o[k] = CHOOSE x \in S : Cardinality({y \in S : <<y, x>> \in before}) = k - 1
    BY DEF InOrder
  <2>2. \E x \in S : front[x] = k - 1
    BY <1>5, <1>7 DEF Surjection
  <2>3. \E x \in S : Cardinality({y \in S : <<y, x>> \in before}) = k - 1
    BY <2>2 DEF front
  <2>4. o[k] \in S /\ Cardinality({y \in S : <<y, o[k]>> \in before}) = k - 1
    BY <2>1, <2>3
  <2>5. front[o[k]] = k - 1
    BY <2>4 DEF front
  <2> QED BY <1>5, <2>4, <2>5
<1>9. o \in [Place -> S]
  BY <1>8 DEF InOrder
<1> HIDE DEF o
<1>10. \A x \in S : o[rank[x]] = x /\ rank[x] \in Place
  BY <1>3, <1>4, <1>8
<1>11. ASSUME NEW i \in Place, NEW j \in Place PROVE i < j <=> <<o[i], o[j]>> \in before
  <2>1. o[i] \in S /\ o[j] \in S /\ rank[o[i]] = i /\ rank[o[j]] = j /\ i \in Int /\ j \in Int
    BY <1>1, <1>8
  <2>2. <<o[i], o[j]>> \in before => i < j
    BY <1>3, <2>1
  <2>3. <<o[j], o[i]>> \in before => j < i
    BY <1>3, <2>1
  <2>4. i # j => <<o[i], o[j]>> \in before \/ <<o[j], o[i]>> \in before
    BY <2>1 DEF Orders
  <2> QED BY <2>1, <2>2, <2>3, <2>4
<1> QED BY <1>1, <1>10, <1>11, <1>9 DEF o

\* Sorting numbers.
LEMMA AscendingProperties ==
  ASSUME NEW S \in SUBSET Int, IsFiniteSet(S)
  PROVE  /\ Cardinality(S) \in Nat
         /\ Ascending(S) \in [1 .. Cardinality(S) -> S]
         /\ \A x \in S : \E k \in 1 .. Cardinality(S) : Ascending(S)[k] = x
         /\ \A i, j \in 1 .. Cardinality(S) : i < j <=> Ascending(S)[i] < Ascending(S)[j]
<1> DEFINE less == {p \in S \X S : p[1] < p[2]}
<1>1. \A x, y \in S : <<x, y>> \in less <=> x < y
  OBVIOUS
<1> HIDE DEF less
<1>2. Orders(less, S)
  <2>1. \A x \in S : x \in Int
    OBVIOUS
  <2> QED BY <1>1, <2>1 DEF Orders
<1>3. /\ Cardinality(S) \in Nat
      /\ InOrder(S, less) \in [1 .. Cardinality(S) -> S]
      /\ \A x \in S : \E k \in 1 .. Cardinality(S) : InOrder(S, less)[k] = x
      /\ \A i, j \in 1 .. Cardinality(S) :
           i < j <=> <<InOrder(S, less)[i], InOrder(S, less)[j]>> \in less
  BY <1>2, InOrderProperties
<1>4. Ascending(S) = InOrder(S, less)
  BY DEF Ascending, less
<1> QED BY <1>1, <1>3, <1>4
\* There is one way to list a set in ascending order.
LEMMA AscendingUnique ==
  ASSUME NEW S \in SUBSET Int, NEW n \in Nat, NEW a \in [1 .. n -> S], NEW b \in [1 .. n -> S],
         \A i, j \in 1 .. n : i < j => a[i] < a[j],
         \A i, j \in 1 .. n : i < j => b[i] < b[j],
         \A x \in S : \E k \in 1 .. n : a[k] = x,
         \A x \in S : \E k \in 1 .. n : b[k] = x
  PROVE  a = b
<1> DEFINE D == {k \in 1 .. n : a[k] # b[k]}
<1> SUFFICES ASSUME D # {} PROVE FALSE
  OBVIOUS
<1>1. PICK k \in 1 .. n : a[k] # b[k] /\ \A j \in 1 .. n : a[j] # b[j] => k <= j
  <2>1. D \in SUBSET Nat
    OBVIOUS
  <2>2. PICK k \in D : \A j \in D : k <= j
    <3> HIDE DEF D
    <3> QED BY <2>1, LeastNumber
  <2> QED BY <2>2
<1>2. a[k] \in Int /\ b[k] \in Int /\ a[k] \in S /\ b[k] \in S
  OBVIOUS
<1>3. \A j \in 1 .. n : j < k => a[j] = b[j]
  BY <1>1
<1>4. CASE a[k] < b[k]
  <2>1. PICK j \in 1 .. n : b[j] = a[k]
    BY <1>2
  <2>2. b[j] \in Int
    OBVIOUS
  <2>3. j < k
    BY <1>2, <1>4, <2>1, <2>2
  <2> QED BY <1>2, <1>3, <2>1, <2>3
<1>5. CASE b[k] < a[k]
  <2>1. PICK j \in 1 .. n : a[j] = b[k]
    BY <1>2
  <2>2. a[j] \in Int
    OBVIOUS
  <2>3. j < k
    BY <1>2, <1>5, <2>1, <2>2
  <2> QED BY <1>2, <1>3, <2>1, <2>3
<1> QED BY <1>1, <1>2, <1>4, <1>5

\* Nothing comes before or after nothing.
LEMMA AscendingEmpty == Ascending({}) = <<>>
<1>1. /\ Cardinality({}) = 0 /\ Ascending({}) \in [1 .. Cardinality({}) -> {}]
  BY AscendingProperties, FS_EmptySet
<1>2. Ascending({}) \in [1 .. 0 -> {}]
  BY <1>1
<1> QED BY <1>2

\* A number above all others comes last.
LEMMA AscendingAppend ==
  ASSUME NEW S \in SUBSET Int, IsFiniteSet(S), NEW m \in Int, \A x \in S : x < m
  PROVE  Ascending(S \cup {m}) = Append(Ascending(S), m)
<1> DEFINE n == Cardinality(S)
           a == Ascending(S)
           T == S \cup {m}
           b == Ascending(T)
<1>1. /\ n \in Nat /\ a \in [1 .. n -> S] /\ \A x \in S : \E k \in 1 .. n : a[k] = x
      /\ \A i, j \in 1 .. n : i < j => a[i] < a[j]
  BY AscendingProperties
<1>2. T \in SUBSET Int /\ IsFiniteSet(T) /\ Cardinality(T) = n + 1
  <2>1. m \notin S
    OBVIOUS
  <2> QED BY <2>1, FS_AddElement
<1> HIDE DEF n, a
<1>3. /\ b \in [1 .. n + 1 -> T] /\ \A x \in T : \E k \in 1 .. n + 1 : b[k] = x
      /\ \A i, j \in 1 .. n + 1 : i < j => b[i] < b[j]
  <2> HIDE DEF T
  <2> QED BY <1>2, AscendingProperties
<1> HIDE DEF b
<1> DEFINE c == Append(a, m)
<1>4. /\ c \in [1 .. n + 1 -> T] /\ c[n + 1] = m
      /\ \A k \in 1 .. n : k \in 1 .. n + 1 /\ c[k] = a[k] /\ c[k] \in S
  <2>1. a \in Seq(Int) /\ Len(a) = n
    <3>1. a \in [1 .. n -> Int]
      BY <1>1
    <3>2. a \in Seq(Int)
      BY <1>1, <3>1
    <3>3. Len(a) \in Nat /\ 1 .. Len(a) = 1 .. n
      BY <3>1, <3>2
    <3> QED BY <1>1, <3>2, <3>3
  <2>2. /\ c \in Seq(Int) /\ Len(c) = n + 1 /\ c[n + 1] = m
        /\ \A k \in 1 .. n : c[k] = a[k]
    BY <1>1, <2>1
  <2> HIDE DEF c
  <2>3. \A k \in 1 .. n : k \in 1 .. n + 1 /\ c[k] \in S
    BY <1>1, <2>2
  <2>4. DOMAIN c = 1 .. n + 1 /\ \A k \in 1 .. n + 1 : c[k] \in T
    <3>1. \A k \in 1 .. n + 1 : k \in 1 .. n \/ k = n + 1
      BY <1>1
    <3> QED BY <2>2, <2>3, <3>1
  <2> QED BY <2>2, <2>3, <2>4
<1> HIDE DEF c
<1>5. \A x \in T : \E k \in 1 .. n + 1 : c[k] = x
  <2>1. n + 1 \in 1 .. n + 1
    BY <1>1
  <2> QED BY <1>1, <1>4, <2>1
<1>6. ASSUME NEW i \in 1 .. n + 1, NEW j \in 1 .. n + 1, i < j PROVE c[i] < c[j]
  <2>1. i \in 1 .. n
    BY <1>1, <1>6
  <2>2. CASE j = n + 1
    BY <1>4, <2>1, <2>2
  <2>3. CASE j \in 1 .. n
    BY <1>1, <1>4, <1>6, <2>1, <2>3
  <2> QED BY <1>1, <2>2, <2>3
<1>7. n + 1 \in Nat
  BY <1>1
<1>8. b = c
  <2> HIDE DEF T
  <2> QED BY <1>2, <1>3, <1>4, <1>5, <1>6, <1>7, AscendingUnique
<1> QED BY <1>8 DEF a, b, c

\* What a filter keeps: the entries at the places that pass, in their order.
LEMMA ThoseProperties ==
  ASSUME NEW s, NEW places \in SUBSET Int, IsFiniteSet(places)
  PROVE  /\ Cardinality(places) \in Nat
         /\ Ascending(places) \in [1 .. Cardinality(places) -> places]
         /\ \A i \in places : \E k \in 1 .. Cardinality(places) : Ascending(places)[k] = i
         /\ \A i, j \in 1 .. Cardinality(places) :
              i < j <=> Ascending(places)[i] < Ascending(places)[j]
         /\ Those(s, places) = [k \in 1 .. Cardinality(places) |-> s[Ascending(places)[k]]]
<1>1. DOMAIN Ascending(places) = 1 .. Cardinality(places)
  BY AscendingProperties
<1> QED BY <1>1, AscendingProperties DEF Those

\* A filtered sequence is one of the same entries.
LEMMA ThoseType ==
  ASSUME NEW S, NEW s \in Seq(S), NEW places \in SUBSET DOMAIN s
  PROVE  /\ Those(s, places) \in Seq(S)
         /\ IsFiniteSet(places) /\ places \in SUBSET Int
<1>1. IsFiniteSet(DOMAIN s) /\ DOMAIN s \in SUBSET Int
  <2>1. DOMAIN s = 1 .. Len(s) /\ Len(s) \in Nat
    OBVIOUS
  <2> QED BY <2>1, FS_Interval
<1>2. IsFiniteSet(places) /\ places \in SUBSET Int
  BY <1>1, FS_Subset
<1> DEFINE n == Cardinality(places)
           a == Ascending(places)
<1>3. n \in Nat /\ a \in [1 .. n -> places] /\ Those(s, places) = [k \in 1 .. n |-> s[a[k]]]
  BY <1>2, ThoseProperties
<1> HIDE DEF n, a
<1>4. \A k \in 1 .. n : s[a[k]] \in S
  BY <1>3
<1> QED BY <1>2, <1>3, <1>4

==============================================================================
