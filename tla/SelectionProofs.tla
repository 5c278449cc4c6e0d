--------------------------- MODULE SelectionProofs ---------------------------
(***************************************************************************)
(* Lemmas about finite sets of numbers and about Selections: what Select   *)
(* keeps of a sequence, and how a selection grows.                         *)
(***************************************************************************)
EXTENDS Selections, FiniteSetsExt, FiniteSetTheorems, WellFoundedInduction, TLAPS

-----------------------------------------------------------------------------
(* Sets of integers *)

\* Natural numbers from 0 upwards.
LEMMA Upwards ==
  ASSUME NEW P \in SUBSET Nat, 0 \in P, \A n \in P : n + 1 \in P
  PROVE  P = Nat
<1> DEFINE R == {p \in Nat \X Nat : p[1] < p[2]}
<1>1. IsWellFoundedOn(R, Nat)
  BY NatLessThanWellFounded DEF OpToRel
<1>2. \A y, x \in Nat : y < x => <<y, x>> \in R
  OBVIOUS
<1> HIDE DEF R
<1>3. SUFFICES ASSUME Nat \ P # {} PROVE FALSE
  OBVIOUS
<1>4. PICK x \in Nat \ P : \A y \in Nat \ P : ~(<<y, x>> \in R)
  BY <1>1, <1>3, WFMin
<1>5. x # 0 /\ x - 1 \in Nat /\ x - 1 < x
  OBVIOUS
<1>6. x - 1 \in P
  BY <1>2, <1>4, <1>5
<1> QED  BY <1>5, <1>6

\* A finite set of integers has a least and a greatest element.
LEMMA MinMax ==
  ASSUME NEW S \in SUBSET Int, IsFiniteSet(S), S # {}
  PROVE  /\ Min(S) \in S /\ Min(S) \in Int /\ \A y \in S : Min(S) <= y
         /\ Max(S) \in S /\ Max(S) \in Int /\ \A y \in S : y <= Max(S)
<1> DEFINE Bounded(T) == \E lo, hi \in T : \A y \in T : lo <= y /\ y <= hi
           P == {n \in Nat : \A T \in SUBSET Int :
                    IsFiniteSet(T) /\ Cardinality(T) = n + 1 => Bounded(T)}
<1>1. 0 \in P
  <2> SUFFICES ASSUME NEW T \in SUBSET Int, IsFiniteSet(T), Cardinality(T) = 0 + 1
               PROVE  Bounded(T)
    OBVIOUS
  <2>1. PICK x : T = {x}
    <3>1. Cardinality(T) = 1
      OBVIOUS
    <3> QED  BY <3>1, FS_Singleton, Zenon
  <2> QED  BY <2>1
<1>2. ASSUME NEW n \in P PROVE n + 1 \in P
  <2> SUFFICES ASSUME NEW T \in SUBSET Int, IsFiniteSet(T), Cardinality(T) = (n + 1) + 1
               PROVE  Bounded(T)
    OBVIOUS
  <2>1. PICK x : x \in T
    BY FS_EmptySet
  <2>2. IsFiniteSet(T \ {x}) /\ Cardinality(T \ {x}) = n + 1
    BY <2>1, FS_RemoveElement
  <2>3. PICK lo \in T \ {x}, hi \in T \ {x} : \A y \in T \ {x} : lo <= y /\ y <= hi
    BY <2>2
  <2>4. \E l \in {lo, x}, h \in {hi, x} : \A y \in T : l <= y /\ y <= h
    <3>1. x \in Int /\ lo \in Int /\ hi \in Int
      BY <2>1
    <3> QED  BY <2>3, <3>1
  <2> QED  BY <2>1, <2>4
<1>3. P = Nat
  <2>1. P \in SUBSET Nat
    OBVIOUS
  <2> HIDE DEF P
  <2> QED  BY <1>1, <1>2, <2>1, Upwards
<1>4. Cardinality(S) - 1 \in P
  <2>1. Cardinality(S) \in Nat /\ Cardinality(S) # 0
    BY FS_CardinalityType, FS_EmptySet
  <2> HIDE DEF P
  <2> QED  BY <1>3, <2>1
<1>5. PICK lo \in S, hi \in S : \A y \in S : lo <= y /\ y <= hi
  <2>1. Cardinality(S) \in Nat
    BY FS_CardinalityType
  <2> QED  BY <1>4, <2>1
<1>6. Min(S) \in S /\ \A y \in S : Min(S) <= y
  BY <1>5 DEF Min
<1>7. Max(S) \in S /\ \A y \in S : Max(S) >= y
  BY <1>5 DEF Max
<1> QED  BY <1>6, <1>7

\* A function from the numbers up to n is a sequence.
LEMMA FunctionIsSeq ==
  ASSUME NEW n \in Nat, NEW S, NEW f \in [1..n -> S]
  PROVE  f \in Seq(S)
OBVIOUS

-----------------------------------------------------------------------------
(* Listings *)

\* The number of positions of a listing.
LEMMA ListingSize ==
  ASSUME NEW S \in SUBSET Int, IsFiniteSet(S)
  PROVE  /\ Cardinality(S) \in Nat
         /\ \A f \in Listing(S) : DOMAIN f = 1..Cardinality(S) /\ \A i \in DOMAIN f : f[i] \in S
  BY FS_CardinalityType DEF Listing

\* A listing of a set and then a number above all of it is a listing of both.
LEMMA ListingGrows ==
  ASSUME NEW S \in SUBSET Int, IsFiniteSet(S), NEW n \in Int, \A x \in S : x < n,
         NEW f \in Listing(S)
  PROVE  /\ IsFiniteSet(S \cup {n}) /\ Cardinality(S \cup {n}) = Cardinality(S) + 1
         /\ [i \in 1..(Cardinality(S) + 1) |-> IF i \in DOMAIN f THEN f[i] ELSE n]
               \in Listing(S \cup {n})
<1> DEFINE c == Cardinality(S)
           g == [i \in 1..(c + 1) |-> IF i \in DOMAIN f THEN f[i] ELSE n]
<1>1. n \notin S
  OBVIOUS
<1>2. IsFiniteSet(S \cup {n}) /\ Cardinality(S \cup {n}) = c + 1
  BY <1>1, FS_AddElement
<1>3. c \in Nat /\ DOMAIN f = 1..c /\ \A i \in 1..c : f[i] \in S
  BY ListingSize
<1>4. /\ \A x \in S : \E i \in 1..c : f[i] = x
      /\ \A i, j \in 1..c : i < j => f[i] < f[j]
  BY <1>3 DEF Listing
<1> HIDE DEF c
<1>5. g \in [1..(c + 1) -> S \cup {n}]
  BY <1>3
<1>6. \A x \in S \cup {n} : \E i \in 1..(c + 1) : g[i] = x
  <2>1. g[c + 1] = n /\ c + 1 \in 1..(c + 1)
    BY <1>3
  <2>2. \A i \in 1..c : g[i] = f[i] /\ i \in 1..(c + 1)
    BY <1>3
  <2>3. \A x \in S : \E i \in 1..(c + 1) : g[i] = x
    BY <1>4, <2>2, Zenon
  <2> QED  BY <2>1, <2>3, Zenon
<1>7. \A i, j \in 1..(c + 1) : i < j => g[i] < g[j]
  <2> SUFFICES ASSUME NEW i \in 1..(c + 1), NEW j \in 1..(c + 1), i < j
               PROVE  g[i] < g[j]
    OBVIOUS
  <2>1. i \in 1..c /\ g[i] = f[i] /\ f[i] \in S
    BY <1>3
  <2>2. CASE j \in 1..c
    BY <1>3, <1>4, <2>1, <2>2
  <2>3. CASE j = c + 1
    <3>1. g[j] = n
      BY <1>3, <2>3
    <3> QED  BY <2>1, <3>1
  <2> QED  BY <1>3, <2>2, <2>3
<1>8. DOMAIN g = 1..(c + 1)
  OBVIOUS
<1> HIDE DEF g
<1>9. g \in Listing(S \cup {n})
  BY <1>2, <1>5, <1>6, <1>7, <1>8 DEF Listing
<1> QED  BY <1>2, <1>9 DEF g, c

\* Every finite set of numbers can be listed.
LEMMA ListingExists ==
  ASSUME NEW S \in SUBSET Int, IsFiniteSet(S)
  PROVE  Listing(S) # {}
<1> DEFINE P == {n \in Nat : \A T \in SUBSET Int :
                    IsFiniteSet(T) /\ Cardinality(T) = n => Listing(T) # {}}
<1>1. 0 \in P
  <2> SUFFICES ASSUME NEW T \in SUBSET Int, IsFiniteSet(T), Cardinality(T) = 0
               PROVE  Listing(T) # {}
    OBVIOUS
  <2>1. T = {}
    BY FS_EmptySet
  <2>2. [i \in 1..0 |-> 0] \in Listing({})
    <3>1. Cardinality({}) = 0
      BY FS_EmptySet
    <3> QED  BY <3>1 DEF Listing
  <2> QED  BY <2>1, <2>2
<1>2. ASSUME NEW n \in P PROVE n + 1 \in P
  <2> SUFFICES ASSUME NEW T \in SUBSET Int, IsFiniteSet(T), Cardinality(T) = n + 1
               PROVE  Listing(T) # {}
    OBVIOUS
  <2>1. T # {}
    BY FS_EmptySet
  <2> DEFINE top == Max(T)
             R == T \ {top}
  <2>2. top \in T /\ \A x \in T : x <= top
    BY <2>1, MinMax
  <2> HIDE DEF top
  <2>3. IsFiniteSet(R) /\ Cardinality(R) = n
    <3>1. IsFiniteSet(R) /\ Cardinality(R) = Cardinality(T) - 1
      BY <2>2, FS_RemoveElement
    <3> QED  BY <3>1
  <2>4. PICK f : f \in Listing(R)
    BY <2>3
  <2>5. \A x \in R : x < top
    BY <2>2
  <2>6. Listing(R \cup {top}) # {}
    BY <2>2, <2>3, <2>4, <2>5, ListingGrows
  <2>7. R \cup {top} = T
    BY <2>2
  <2> QED  BY <2>6, <2>7
<1>3. P = Nat
  <2>1. P \in SUBSET Nat
    OBVIOUS
  <2> HIDE DEF P
  <2> QED  BY <1>1, <1>2, <2>1, Upwards
<1>4. Cardinality(S) \in P
  <2> HIDE DEF P
  <2> QED  BY <1>3, FS_CardinalityType
<1> QED  BY <1>4

\* Two listings of a set agree: where they differed first, one of them would
\* have passed over the smaller number.
LEMMA ListingUnique ==
  ASSUME NEW S \in SUBSET Int, IsFiniteSet(S), NEW f \in Listing(S), NEW g \in Listing(S)
  PROVE  f = g
<1> DEFINE c == Cardinality(S)
           P == {n \in Nat : \A i \in 1..c : i <= n => f[i] = g[i]}
<1>1. c \in Nat /\ f \in [1..c -> S] /\ g \in [1..c -> S]
  BY ListingSize DEF Listing
<1>2. /\ \A x \in S : \E i \in 1..c : f[i] = x
      /\ \A x \in S : \E i \in 1..c : g[i] = x
      /\ \A i, j \in 1..c : i < j => f[i] < f[j]
      /\ \A i, j \in 1..c : i < j => g[i] < g[j]
  BY <1>1 DEF Listing
<1> HIDE DEF c
<1>3. 0 \in P
  OBVIOUS
<1>4. ASSUME NEW n \in P PROVE n + 1 \in P
  <2>1. n \in Nat /\ \A i \in 1..c : i <= n => f[i] = g[i]
    OBVIOUS
  <2>2. CASE n + 1 \in 1..c
    <3> DEFINE m == n + 1
    <3>1. PICK k \in 1..c : g[k] = f[m]
      BY <1>1, <1>2, <2>2
    <3>2. PICK l \in 1..c : f[l] = g[m]
      BY <1>1, <1>2, <2>2
    <3>3. k >= m
      <4> SUFFICES ASSUME k < m PROVE FALSE
        BY <2>1
      <4>1. f[k] = g[k] /\ f[k] < f[m]
        BY <1>2, <2>1, <2>2
      <4>2. f[m] \in Int
        BY <1>1, <2>2
      <4> QED  BY <3>1, <4>1, <4>2
    <3>4. l >= m
      <4> SUFFICES ASSUME l < m PROVE FALSE
        BY <2>1
      <4>1. f[l] = g[l] /\ g[l] < g[m]
        BY <1>2, <2>1, <2>2
      <4>2. g[m] \in Int
        BY <1>1, <2>2
      <4> QED  BY <3>2, <4>1, <4>2
    <3>5. g[m] <= g[k] /\ f[m] <= f[l]
      <4>1. f[m] \in Int /\ g[m] \in Int
        BY <1>1, <2>2
      <4>2. k = m \/ m < k
        BY <2>1, <3>3
      <4>3. l = m \/ m < l
        BY <2>1, <3>4
      <4>4. g[m] < g[k] \/ g[m] = g[k]
        BY <1>2, <2>2, <4>2
      <4>5. f[m] < f[l] \/ f[m] = f[l]
        BY <1>2, <2>2, <4>3
      <4>6. f[l] \in Int /\ g[k] \in Int
        BY <3>1, <3>2, <4>1
      <4> QED  BY <4>1, <4>4, <4>5, <4>6
    <3>6. f[m] = g[m]
      <4>1. f[m] \in Int /\ g[m] \in Int
        BY <1>1, <2>2
      <4> QED  BY <3>1, <3>2, <3>5, <4>1
    <3> QED  BY <2>1, <3>6
  <2>3. CASE n + 1 \notin 1..c
    BY <1>1, <2>1, <2>3
  <2> QED  BY <2>2, <2>3
<1>5. P = Nat
  <2>1. P \in SUBSET Nat
    OBVIOUS
  <2> HIDE DEF P
  <2> QED  BY <1>3, <1>4, <2>1, Upwards
<1>6. c \in P
  <2> HIDE DEF P
  <2> QED  BY <1>1, <1>5
<1>7. \A i \in 1..c : f[i] = g[i]
  BY <1>1, <1>6
<1> QED  BY <1>1, <1>7

\* What Ordered chooses is the listing.
LEMMA OrderedIs ==
  ASSUME NEW S \in SUBSET Int, IsFiniteSet(S)
  PROVE  /\ Ordered(S) \in Listing(S)
         /\ \A f \in Listing(S) : f = Ordered(S)
<1>1. Ordered(S) \in Listing(S)
  BY ListingExists DEF Ordered
<1> QED  BY <1>1, ListingUnique

\* Ordered goes through the numbers of the set once each, upwards.
LEMMA OrderedFacts ==
  ASSUME NEW S \in SUBSET Int, IsFiniteSet(S)
  PROVE  /\ Cardinality(S) \in Nat
         /\ Ordered(S) \in [1..Cardinality(S) -> S]
         /\ \A x \in S : \E i \in 1..Cardinality(S) : Ordered(S)[i] = x
         /\ \A i, j \in 1..Cardinality(S) : i < j => Ordered(S)[i] < Ordered(S)[j]
         /\ \A i, j \in 1..Cardinality(S) : Ordered(S)[i] = Ordered(S)[j] => i = j
<1> DEFINE c == Cardinality(S)
           o == Ordered(S)
<1>1. c \in Nat /\ o \in Listing(S)
  BY FS_CardinalityType, OrderedIs
<1>2. /\ o \in [1..c -> S]
      /\ \A x \in S : \E i \in 1..c : o[i] = x
      /\ \A i, j \in 1..c : i < j => o[i] < o[j]
  BY <1>1 DEF Listing
<1> HIDE DEF c, o
<1>3. ASSUME NEW i \in 1..c, NEW j \in 1..c, o[i] = o[j] PROVE i = j
  <2>1. o[i] \in Int
    BY <1>2
  <2>2. ~(i < j) /\ ~(j < i)
    BY <1>2, <1>3, <2>1
  <2> QED  BY <1>1, <2>2
<1> QED  BY <1>1, <1>2, <1>3, Zenon DEF c, o

-----------------------------------------------------------------------------
(* Selections *)

\* Nothing is selected at no position.
LEMMA SelectNone ==
  ASSUME NEW s PROVE Select(s, {}) = <<>>
<1>1. Cardinality({}) = 0
  BY FS_EmptySet
<1> QED  BY <1>1 DEF Select

\* The elements of a selection.
LEMMA SelectElems ==
  ASSUME NEW E, NEW s \in Seq(E), NEW S \in SUBSET (DOMAIN s)
  PROVE  /\ S \in SUBSET Int /\ IsFiniteSet(S) /\ Cardinality(S) \in Nat
         /\ Select(s, S) \in Seq(E) /\ Len(Select(s, S)) = Cardinality(S)
         /\ \A i \in 1..Cardinality(S) : Select(s, S)[i] = s[Ordered(S)[i]]
<1>1. DOMAIN s = 1..Len(s) /\ Len(s) \in Nat
  OBVIOUS
<1>2. IsFiniteSet(1..Len(s))
  BY <1>1, FS_Interval
<1>3. S \in SUBSET Int /\ IsFiniteSet(S)
  BY <1>1, <1>2, FS_Subset
<1>4. /\ Cardinality(S) \in Nat
      /\ \A i \in 1..Cardinality(S) : Ordered(S)[i] \in S
  BY <1>3, OrderedFacts
<1>5. Select(s, S) = [i \in 1..Cardinality(S) |-> s[Ordered(S)[i]]]
  BY DEF Select
<1>6. \A i \in 1..Cardinality(S) : s[Ordered(S)[i]] \in E
  BY <1>4
<1>7. Select(s, S) \in Seq(E) /\ Len(Select(s, S)) = Cardinality(S)
  BY <1>4, <1>5, <1>6
<1> QED  BY <1>3, <1>4, <1>5, <1>7

\* A further position behind the others appends its element.
LEMMA SelectNext ==
  ASSUME NEW E, NEW s \in Seq(E), NEW S \in SUBSET (DOMAIN s), NEW n \in DOMAIN s,
         \A x \in S : x < n
  PROVE  Select(s, S \cup {n}) = Append(Select(s, S), s[n])
<1> DEFINE c == Cardinality(S)
           T == S \cup {n}
           g == [i \in 1..(c + 1) |-> IF i \in DOMAIN Ordered(S) THEN Ordered(S)[i] ELSE n]
<1>1. S \in SUBSET Int /\ IsFiniteSet(S) /\ n \in Int /\ c \in Nat
  BY SelectElems
<1>2. Ordered(S) \in Listing(S)
  BY <1>1, OrderedIs
<1>3. Cardinality(T) = c + 1 /\ g \in Listing(T) /\ IsFiniteSet(T) /\ T \in SUBSET Int
  BY <1>1, <1>2, ListingGrows
<1>4. g = Ordered(T)
  <2> HIDE DEF g, T
  <2> QED  BY <1>3, OrderedIs
<1>5. Ordered(S) \in [1..c -> S]
  BY <1>1, OrderedFacts
<1> HIDE DEF c
<1>6. \A i \in 1..(c + 1) : Ordered(T)[i] = IF i \in 1..c THEN Ordered(S)[i] ELSE n
  BY <1>4, <1>5
<1>7. Select(s, T) = [i \in 1..(c + 1) |-> s[Ordered(T)[i]]]
  BY <1>3 DEF Select
<1>8. /\ Select(s, S) = [i \in 1..c |-> s[Ordered(S)[i]]]
      /\ Select(s, S) \in Seq(E) /\ Len(Select(s, S)) = c
  BY SelectElems DEF Select, c
<1>9. Append(Select(s, S), s[n]) = [i \in 1..(c + 1) |-> IF i \in 1..c THEN s[Ordered(S)[i]] ELSE s[n]]
  BY <1>1, <1>8
<1>10. \A i \in 1..(c + 1) : s[Ordered(T)[i]] = IF i \in 1..c THEN s[Ordered(S)[i]] ELSE s[n]
  BY <1>6
<1> QED  BY <1>7, <1>9, <1>10

\* Appending to a sequence does not change what was selected of it.
LEMMA SelectOfAppend ==
  ASSUME NEW E, NEW s \in Seq(E), NEW e \in E, NEW S \in SUBSET (DOMAIN s)
  PROVE  Select(Append(s, e), S) = Select(s, S)
<1>1. S \in SUBSET Int /\ IsFiniteSet(S)
  BY SelectElems
<1>2. Ordered(S) \in [1..Cardinality(S) -> S]
  BY <1>1, OrderedFacts
<1>3. \A x \in S : Append(s, e)[x] = s[x]
  OBVIOUS
<1>4. \A i \in 1..Cardinality(S) : Append(s, e)[Ordered(S)[i]] = s[Ordered(S)[i]]
  BY <1>2, <1>3
<1> QED  BY <1>4 DEF Select

=============================================================================
