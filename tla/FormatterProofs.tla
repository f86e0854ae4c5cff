-------------------------- MODULE FormatterProofs --------------------------
(***************************************************************************)
(* Proofs about the formatter's comments, for every file the parser        *)
(* accepts: of any length and with any number of comments.                 *)
(***************************************************************************)
EXTENDS FormatterComments, FiniteSetTheorems, SequenceTheorems, WellFoundedInduction, TLAPS

(***************************************************************************)
(* Sorting.  A finite set in a total order has one increasing enumeration, *)
(* and Listed is it: the rank of an element is the number of those before. *)
(***************************************************************************)

(* A strict order of all the elements of a set. *)
TotalOrder(S, before) ==
  /\ \A x \in S : <<x, x>> \notin before
  /\ \A x, y \in S : x = y \/ <<x, y>> \in before \/ <<y, x>> \in before
  /\ \A x, y, z \in S : <<x, y>> \in before /\ <<y, z>> \in before => <<x, z>> \in before

(* f lists n elements, all those of S, in that order. *)
Enumerates(f, n, S, before) ==
  /\ f \in [1 .. n -> S]
  /\ \A x \in S : \E i \in 1 .. n : f[i] = x
  /\ \A i, j \in 1 .. n : i < j => <<f[i], f[j]>> \in before

(* How many elements come before x. *)
Rank(S, before, x) == Cardinality({y \in S : <<y, x>> \in before})

(* A rank is less than the number of elements. *)
LEMMA RankBound ==
  ASSUME NEW S, IsFiniteSet(S), NEW before, TotalOrder(S, before), NEW x \in S
  PROVE  Rank(S, before, x) \in 0 .. Cardinality(S) - 1
<1> DEFINE B == {y \in S : <<y, x>> \in before}
<1>1. B \subseteq S \ {x}
  BY DEF TotalOrder
<1>2. IsFiniteSet(S \ {x}) /\ Cardinality(S \ {x}) = Cardinality(S) - 1
  BY FS_RemoveElement
<1>3. IsFiniteSet(B) /\ Cardinality(B) <= Cardinality(S \ {x})
  BY <1>1, <1>2, FS_Subset
<1>4. Cardinality(B) \in Nat /\ Cardinality(S) \in Nat
  BY <1>3, FS_CardinalityType
<1> HIDE DEF B
<1>5. Cardinality(B) \in 0 .. Cardinality(S) - 1
  BY <1>2, <1>3, <1>4
<1> QED BY <1>5 DEF Rank, B

(* A later element has a greater rank. *)
LEMMA RankGrows ==
  ASSUME NEW S, IsFiniteSet(S), NEW before, TotalOrder(S, before),
         NEW x \in S, NEW y \in S, <<x, y>> \in before
  PROVE  Rank(S, before, x) < Rank(S, before, y)
<1> DEFINE B(z) == {w \in S : <<w, z>> \in before}
<1>1. x \notin B(x)
  BY DEF TotalOrder
<1>2. B(x) \cup {x} \subseteq B(y)
  BY DEF TotalOrder
<1>3. IsFiniteSet(B(x)) /\ IsFiniteSet(B(y))
  BY FS_Subset
<1>4. Cardinality(B(x)) \in Nat /\ Cardinality(B(y)) \in Nat
  BY <1>3, FS_CardinalityType
<1>5. Cardinality(B(x) \cup {x}) = Cardinality(B(x)) + 1
  BY <1>1, <1>3, FS_AddElement
<1>6. Cardinality(B(x) \cup {x}) <= Cardinality(B(y))
  BY <1>2, <1>3, FS_Subset
<1>7. Rank(S, before, x) = Cardinality(B(x)) /\ Rank(S, before, y) = Cardinality(B(y))
  BY DEF Rank
<1> HIDE DEF B
<1> QED BY <1>4, <1>5, <1>6, <1>7

(* Elements of one rank are one element. *)
LEMMA RankInjective ==
  ASSUME NEW S, IsFiniteSet(S), NEW before, TotalOrder(S, before),
         NEW x \in S, NEW y \in S, Rank(S, before, x) = Rank(S, before, y)
  PROVE  x = y
<1>1. Rank(S, before, x) \in Int /\ Rank(S, before, y) \in Int
  BY RankBound
<1>2. <<x, y>> \notin before /\ <<y, x>> \notin before
  BY <1>1, RankGrows
<1> QED BY <1>2 DEF TotalOrder

(* Every rank there may be is the rank of an element. *)
LEMMA RankOnto ==
  ASSUME NEW S, IsFiniteSet(S), NEW before, TotalOrder(S, before),
         NEW i \in 1 .. Cardinality(S)
  PROVE  \E x \in S : Rank(S, before, x) = i - 1
<1> PICK n \in Nat : n = Cardinality(S)
  BY FS_CardinalityType
<1> DEFINE g == [x \in S |-> Rank(S, before, x)]
<1>1. g \in [S -> 0 .. n - 1]
  BY RankBound
<1>2. \A x, y \in S : g[x] = g[y] => x = y
  BY RankInjective
<1>3. g \in Injection(S, 0 .. n - 1)
  BY <1>1, <1>2 DEF Injection, IsInjective
<1>4. IsFiniteSet(0 .. n - 1) /\ Cardinality(0 .. n - 1) = n
  <2>1. 0 \in Int /\ n - 1 \in Int
    OBVIOUS
  <2>2. IsFiniteSet(0 .. n - 1) /\ Cardinality(0 .. n - 1) = IF 0 > n - 1 THEN 0 ELSE n - 1 - 0 + 1
    BY <2>1, FS_Interval
  <2> QED BY <2>2
<1>5. g \in Surjection(S, 0 .. n - 1)
  BY <1>3, <1>4, FS_Injection
<1>6. i - 1 \in 0 .. n - 1
  OBVIOUS
<1> QED BY <1>5, <1>6 DEF Surjection

(* The sort of a finite set lists its elements in order. *)
LEMMA ListedEnumerates ==
  ASSUME NEW S, IsFiniteSet(S), NEW before, TotalOrder(S, before)
  PROVE  Enumerates(Listed(S, before), Cardinality(S), S, before)
<1> PICK n \in Nat : n = Cardinality(S)
  BY FS_CardinalityType
<1> DEFINE L == Listed(S, before)
<1>1. L = [i \in 1 .. n |-> CHOOSE x \in S : Rank(S, before, x) = i - 1]
  BY DEF Listed, Rank
<1> HIDE DEF L
<1>2. ASSUME NEW i \in 1 .. n
      PROVE  L[i] \in S /\ Rank(S, before, L[i]) = i - 1
  <2>1. \E x \in S : Rank(S, before, x) = i - 1
    BY RankOnto
  <2> QED BY <1>1, <2>1
<1>3. L \in [1 .. n -> S]
  BY <1>1, <1>2
<1>4. ASSUME NEW x \in S
      PROVE  \E i \in 1 .. n : L[i] = x
  <2>1. PICK r \in 0 .. n - 1 : r = Rank(S, before, x)
    BY RankBound
  <2>2. r + 1 \in 1 .. n /\ (r + 1) - 1 = r
    OBVIOUS
  <2>3. L[r + 1] \in S /\ Rank(S, before, L[r + 1]) = r
    BY <1>2, <2>2
  <2>4. L[r + 1] = x
    BY <2>1, <2>3, RankInjective
  <2> QED BY <2>2, <2>4
<1>5. ASSUME NEW i \in 1 .. n, NEW j \in 1 .. n, i < j
      PROVE  <<L[i], L[j]>> \in before
  <2>1. L[i] \in S /\ L[j] \in S /\ Rank(S, before, L[i]) = i - 1 /\ Rank(S, before, L[j]) = j - 1
    BY <1>2
  <2>2. L[i] # L[j]
    BY <1>5, <2>1
  <2>3. <<L[j], L[i]>> \notin before
    <3>1. SUFFICES ASSUME <<L[j], L[i]>> \in before PROVE FALSE
      OBVIOUS
    <3>2. Rank(S, before, L[j]) < Rank(S, before, L[i])
      BY <2>1, <3>1, RankGrows
    <3> QED BY <1>5, <2>1, <3>2
  <2> QED BY <2>1, <2>2, <2>3 DEF TotalOrder
<1>6. Enumerates(L, n, S, before)
  BY <1>3, <1>4, <1>5 DEF Enumerates
<1> QED BY <1>6 DEF L

(* There is no other way to list them: an increasing enumeration is the sort. *)
LEMMA EnumerationIsListed ==
  ASSUME NEW S, NEW before, TotalOrder(S, before), NEW n \in Nat, NEW f,
         Enumerates(f, n, S, before)
  PROVE  IsFiniteSet(S) /\ Cardinality(S) = n /\ Listed(S, before) = f
<1>1. f \in [1 .. n -> S] /\ (\A x \in S : \E i \in 1 .. n : f[i] = x)
      /\ (\A i, j \in 1 .. n : i < j => <<f[i], f[j]>> \in before)
  BY DEF Enumerates
<1>2. ASSUME NEW i \in 1 .. n, NEW j \in 1 .. n
      PROVE  (f[i] = f[j] => i = j) /\ (<<f[i], f[j]>> \in before <=> i < j)
  <2>1. i < j \/ i = j \/ j < i
    OBVIOUS
  <2>2. f[i] \in S /\ f[j] \in S
    BY <1>1
  <2>3. i < j => <<f[i], f[j]>> \in before
    BY <1>1
  <2>4. j < i => <<f[j], f[i]>> \in before
    BY <1>1
  <2> QED BY <2>1, <2>2, <2>3, <2>4 DEF TotalOrder
<1>3. IsFiniteSet(1 .. n) /\ Cardinality(1 .. n) = n
  <2>1. 1 \in Int /\ n \in Int /\ n - 1 + 1 = n
    OBVIOUS
  <2> QED BY <2>1, FS_Interval
<1>4. f \in Injection(1 .. n, S) /\ f \in Surjection(1 .. n, S)
  BY <1>1, <1>2 DEF Injection, Surjection, IsInjective
<1>5. IsFiniteSet(S) /\ Cardinality(S) = n
  BY <1>3, <1>4, FS_Surjection
<1>6. ASSUME NEW i \in 1 .. n
      PROVE  Rank(S, before, f[i]) = i - 1
  <2> DEFINE B == {y \in S : <<y, f[i]>> \in before}
             g == [k \in 1 .. i - 1 |-> f[k]]
  <2>1. g \in [1 .. i - 1 -> B] /\ (\A y \in B : \E k \in 1 .. i - 1 : g[k] = y)
    <3>1. \A k \in 1 .. i - 1 : k \in 1 .. n /\ k < i
      OBVIOUS
    <3>2. \A k \in 1 .. i - 1 : f[k] \in B
      BY <1>1, <1>2, <3>1
    <3>3. \A y \in B : \E k \in 1 .. i - 1 : f[k] = y
      <4>1. TAKE y \in B
      <4>2. PICK k \in 1 .. n : f[k] = y
        BY <1>1
      <4>3. k < i
        BY <1>2, <4>2
      <4> QED BY <4>2, <4>3
    <3> QED BY <3>2, <3>3
  <2>2. \A j, k \in 1 .. i - 1 : g[j] = g[k] => j = k
    <3>1. \A k \in 1 .. i - 1 : k \in 1 .. n
      OBVIOUS
    <3> QED BY <1>2, <3>1
  <2> HIDE DEF B
  <2>3. g \in Injection(1 .. i - 1, B) /\ g \in Surjection(1 .. i - 1, B)
    BY <2>1, <2>2 DEF Injection, Surjection, IsInjective
  <2>4. IsFiniteSet(1 .. i - 1) /\ Cardinality(1 .. i - 1) = i - 1
    <3>1. 1 \in Int /\ i - 1 \in Int /\ (i - 1) - 1 + 1 = i - 1
      OBVIOUS
    <3>2. Cardinality(1 .. i - 1) = IF 1 > i - 1 THEN 0 ELSE (i - 1) - 1 + 1
      BY <3>1, FS_Interval
    <3> QED BY <3>1, <3>2, FS_Interval
  <2>5. Cardinality(B) = i - 1
    BY <2>3, <2>4, FS_Surjection
  <2> QED BY <2>5 DEF B, Rank
<1> DEFINE L == Listed(S, before)
<1>7. L = [i \in 1 .. n |-> CHOOSE x \in S : Rank(S, before, x) = i - 1]
  BY <1>5 DEF Listed, Rank
<1> HIDE DEF L
<1>8. ASSUME NEW i \in 1 .. n
      PROVE  L[i] = f[i]
  <2>1. f[i] \in S
    BY <1>1
  <2>2. L[i] \in S /\ Rank(S, before, L[i]) = i - 1
    BY <1>6, <1>7, <2>1
  <2> QED BY <1>5, <1>6, <2>1, <2>2, RankInjective
<1>9. L = f
  BY <1>1, <1>7, <1>8
<1> QED BY <1>5, <1>9 DEF L

(***************************************************************************)
(* Counting up.  Induction is stated on sets of numbers, from the least    *)
(* one a set misses.                                                       *)
(***************************************************************************)

(* A set of naturals has a least element. *)
LEMMA LeastElement ==
  ASSUME NEW T \in SUBSET Nat, T # {}
  PROVE  \E x \in T : \A y \in T : x <= y
<1> DEFINE R == {ss \in Nat \X Nat : ss[1] < ss[2]}
<1>1. IsWellFoundedOn(R, Nat)
  BY NatLessThanWellFounded DEF OpToRel
<1>2. \E x \in T : \A y \in T : <<y, x>> \notin R
  BY <1>1, WFMin
<1>3. ASSUME NEW x \in T, NEW y \in T, <<y, x>> \notin R
      PROVE  x <= y
  <2>1. x \in Nat /\ y \in Nat
    OBVIOUS
  <2>2. <<y, x>> \in Nat \X Nat /\ <<y, x>>[1] = y /\ <<y, x>>[2] = x
    BY <2>1
  <2>3. ~(y < x)
    BY <1>3, <2>2
  <2> QED BY <2>1, <2>3
<1> QED BY <1>2, <1>3

(* A set that holds 0, and with a number below m the next one, holds all up to m. *)
LEMMA CountingUp ==
  ASSUME NEW m \in Nat, NEW Q, 0 \in Q, \A i \in 0 .. m - 1 : i \in Q => i + 1 \in Q
  PROVE  \A i \in 0 .. m : i \in Q
<1> DEFINE B == (0 .. m) \ Q
<1> SUFFICES ASSUME B # {} PROVE FALSE
  OBVIOUS
<1>1. PICK b \in B : \A c \in B : b <= c
  <2>1. B \in SUBSET Nat
    OBVIOUS
  <2> HIDE DEF B
  <2> QED BY <2>1, LeastElement
<1>2. b \in 0 .. m /\ b \notin Q /\ b # 0
  BY <1>1
<1>3. b - 1 \in 0 .. m - 1 /\ ~(b <= b - 1) /\ (b - 1) + 1 = b
  BY <1>2
<1>4. b - 1 \in Q
  BY <1>1, <1>3
<1> QED BY <1>2, <1>3, <1>4

(***************************************************************************)
(* Joining lines.  The sequences FlattenSeq joins are in the result one    *)
(* after the other; where each of them ends says where every element is.   *)
(***************************************************************************)

(* The first m results of the library's function. *)
JoinedUpTo(s, m, h) == h = [i \in 1 .. m |-> IF i = 1 THEN s[i] ELSE h[i - 1] \o s[i]]

(* There is a function with the library's equation, for sequences of every length. *)
LEMMA SomeJoined ==
  ASSUME NEW s, NEW n \in Nat
  PROVE  \E h : JoinedUpTo(s, n, h)
<1> DEFINE Q == {m \in Nat : \E h : JoinedUpTo(s, m, h)}
<1>1. 0 \in Q
  <2> DEFINE h == [i \in 1 .. 0 |-> s[i]]
  <2>1. \A i \in 1 .. 0 : FALSE
    OBVIOUS
  <2>2. h = [i \in 1 .. 0 |-> IF i = 1 THEN s[i] ELSE h[i - 1] \o s[i]]
    BY <2>1
  <2> HIDE DEF h
  <2>3. JoinedUpTo(s, 0, h)
    BY <2>2 DEF JoinedUpTo
  <2> QED BY <2>3
<1>2. ASSUME NEW m \in 0 .. n - 1, m \in Q
      PROVE  m + 1 \in Q
  <2>1. PICK g : JoinedUpTo(s, m, g)
    BY <1>2
  <2> DEFINE h == [i \in 1 .. m + 1 |-> IF i = 1 THEN s[i] ELSE g[i - 1] \o s[i]]
  <2>2. \A i \in 1 .. m : g[i] = IF i = 1 THEN s[i] ELSE g[i - 1] \o s[i]
    BY <2>1 DEF JoinedUpTo
  <2>3. \A i \in 1 .. m : i \in 1 .. m + 1
    OBVIOUS
  <2>4. \A i \in 1 .. m : h[i] = g[i]
    BY <2>2, <2>3
  <2>5. \A i \in 1 .. m + 1 : i # 1 => i - 1 \in 1 .. m
    OBVIOUS
  <2>6. h = [i \in 1 .. m + 1 |-> IF i = 1 THEN s[i] ELSE h[i - 1] \o s[i]]
    BY <2>4, <2>5
  <2> HIDE DEF h
  <2>7. JoinedUpTo(s, m + 1, h)
    BY <2>6 DEF JoinedUpTo
  <2>8. m + 1 \in Nat
    OBVIOUS
  <2> QED BY <2>7, <2>8
<1> HIDE DEF Q
<1>3. \A m \in 0 .. n : m \in Q
  BY <1>1, <1>2, CountingUp
<1>4. n \in Q
  BY <1>3
<1> QED BY <1>4 DEF Q

(* Where each part of a joined sequence ends, and where its elements are. *)
Ends(s, e) ==
  /\ e \in [0 .. Len(s) -> Nat] /\ e[0] = 0
  /\ \A i \in 1 .. Len(s) : e[i] = e[i - 1] + Len(s[i])

LaidOut(s, e, r) ==
  /\ Ends(s, e)
  /\ Len(r) = e[Len(s)]
  /\ \A i \in 1 .. Len(s) : \A j \in 1 .. Len(s[i]) : r[e[i - 1] + j] = s[i][j]

(* The parts joined so far. *)
PartsIn(s, h, e, i, T) ==
  /\ h[i] \in Seq(T) /\ e[i] = Len(h[i])
  /\ \A k \in 1 .. i : /\ e[k] <= e[i] /\ e[k - 1] \in Nat /\ e[k] = e[k - 1] + Len(s[k])
                       /\ \A j \in 1 .. Len(s[k]) : h[i][e[k - 1] + j] = s[k][j]

(* Joining one more part to the ones joined so far. *)
LEMMA JoinNext ==
  ASSUME NEW T, NEW n \in Nat, NEW s \in [1 .. n -> Seq(T)], NEW h, NEW e,
         NEW i \in 1 .. n - 1, PartsIn(s, h, e, i, T),
         h[i + 1] = h[i] \o s[i + 1], e[i + 1] = Len(h[i + 1])
  PROVE  PartsIn(s, h, e, i + 1, T)
<1>1. s[i + 1] \in Seq(T) /\ h[i] \in Seq(T) /\ i + 1 \in 1 .. n /\ (i + 1) - 1 = i
  BY DEF PartsIn
<1>2. PICK a \in Nat : a = Len(h[i])
  BY <1>1
<1>3. PICK b \in Nat : b = Len(s[i + 1])
  BY <1>1
<1>4. h[i + 1] \in Seq(T) /\ Len(h[i + 1]) = a + b
  BY <1>1, <1>2, <1>3, ConcatProperties
<1>5. /\ \A j \in 1 .. a : h[i + 1][j] = h[i][j]
      /\ \A j \in 1 .. b : h[i + 1][a + j] = s[i + 1][j]
  <2>1. \A j \in 1 .. a + b : h[i + 1][j] = IF j <= a THEN h[i][j] ELSE s[i + 1][j - a]
    BY <1>1, <1>2, <1>3, ConcatProperties
  <2>2. \A j \in 1 .. a : j \in 1 .. a + b /\ j <= a
    OBVIOUS
  <2>3. \A j \in 1 .. b : a + j \in 1 .. a + b /\ ~(a + j <= a) /\ (a + j) - a = j
    OBVIOUS
  <2> QED BY <2>1, <2>2, <2>3
<1>6. e[i] = a /\ e[i + 1] = a + b
  BY <1>2, <1>4 DEF PartsIn
<1>7. ASSUME NEW k \in 1 .. i
      PROVE  /\ e[k] <= e[i + 1] /\ e[k - 1] \in Nat /\ e[k] = e[k - 1] + Len(s[k])
             /\ \A j \in 1 .. Len(s[k]) : h[i + 1][e[k - 1] + j] = s[k][j]
  <2>1. k \in 1 .. n /\ s[k] \in Seq(T)
    BY <1>1
  <2>2. PICK c \in Nat : c = Len(s[k])
    BY <2>1
  <2>3. PICK d \in Nat : d = e[k - 1]
    BY DEF PartsIn
  <2>4. e[k] = d + c /\ e[k] <= a
    BY <1>2, <2>2, <2>3 DEF PartsIn
  <2>5. \A j \in 1 .. c : h[i][d + j] = s[k][j]
    BY <2>2, <2>3 DEF PartsIn
  <2>6. \A j \in 1 .. c : d + j \in 1 .. a
    BY <2>4
  <2>7. \A j \in 1 .. c : h[i + 1][d + j] = s[k][j]
    BY <1>5, <2>5, <2>6
  <2>8. e[k - 1] \in Nat /\ e[k] = e[k - 1] + Len(s[k])
    BY <2>2, <2>3, <2>4, Zenon
  <2>9. \A j \in 1 .. Len(s[k]) : h[i + 1][e[k - 1] + j] = s[k][j]
    BY <2>2, <2>3, <2>7, Zenon
  <2>10. d + c <= a + b
    BY <2>4
  <2>11. e[k] <= e[i + 1]
    BY <1>6, <2>4, <2>10, Zenon
  <2> QED BY <2>8, <2>9, <2>11
<1>8. /\ e[i + 1] <= e[i + 1] /\ e[i] \in Nat /\ e[i + 1] = e[i] + b
      /\ \A j \in 1 .. b : h[i + 1][e[i] + j] = s[i + 1][j]
  <2>1. a + b <= a + b
    OBVIOUS
  <2>2. e[i + 1] <= e[i + 1]
    BY <1>6, <2>1, Zenon
  <2>3. e[i] \in Nat /\ e[i + 1] = e[i] + b
    BY <1>6, Zenon
  <2>4. \A j \in 1 .. b : h[i + 1][e[i] + j] = s[i + 1][j]
    BY <1>5, <1>6, Zenon
  <2> QED BY <2>2, <2>3, <2>4
<1>9. \A k \in 1 .. i + 1 : k \in 1 .. i \/ k = i + 1
  OBVIOUS
<1>10. \A k \in 1 .. i + 1 :
          /\ e[k] <= e[i + 1] /\ e[k - 1] \in Nat /\ e[k] = e[k - 1] + Len(s[k])
          /\ \A j \in 1 .. Len(s[k]) : h[i + 1][e[k - 1] + j] = s[k][j]
  BY <1>1, <1>3, <1>7, <1>8, <1>9
<1> QED BY <1>4, <1>10 DEF PartsIn

(* What the library's function returns. *)
LEMMA FlattenLaidOut ==
  ASSUME NEW T, NEW n \in Nat, NEW s \in [1 .. n -> Seq(T)]
  PROVE  FlattenSeq(s) \in Seq(T) /\ \E e : LaidOut(s, e, FlattenSeq(s))
<1>1. Len(s) = n
  OBVIOUS
<1>2. CASE n = 0
  <2>1. s = <<>> /\ FlattenSeq(s) = s
    BY <1>1, <1>2 DEF FlattenSeq
  <2> DEFINE e == [i \in 0 .. 0 |-> 0]
  <2>2. 0 \in 0 .. 0 /\ 0 .. Len(s) = 0 .. 0 /\ e \in [0 .. 0 -> Nat] /\ e[0] = 0
    BY <1>1, <1>2
  <2>3. \A i \in 1 .. Len(s) : FALSE
    BY <1>1, <1>2
  <2> HIDE DEF e
  <2>4. LaidOut(s, e, FlattenSeq(s))
    BY <1>1, <1>2, <2>1, <2>2, <2>3 DEF LaidOut, Ends
  <2>5. FlattenSeq(s) \in Seq(T)
    BY <2>1, EmptySeq
  <2> QED BY <2>4, <2>5
<1>3. CASE n > 0
  <2>1. PICK g : JoinedUpTo(s, n, g)
    BY SomeJoined
  <2>2. PICK h : h = CHOOSE f : JoinedUpTo(s, n, f)
    OBVIOUS
  <2>3. JoinedUpTo(s, n, h)
    BY <2>1, <2>2
  <2>4. FlattenSeq(s) = h[n]
    BY <1>1, <1>3, <2>2 DEF FlattenSeq, JoinedUpTo
  <2>5. \A i \in 1 .. n : h[i] = IF i = 1 THEN s[i] ELSE h[i - 1] \o s[i]
    BY <2>3 DEF JoinedUpTo
  <2> DEFINE e == [i \in 0 .. n |-> IF i = 0 THEN 0 ELSE Len(h[i])]
  <2>6. e[0] = 0 /\ \A i \in 1 .. n : e[i] = Len(h[i])
    OBVIOUS
  <2>7. DOMAIN e = 0 .. n /\ e = [i \in 0 .. n |-> e[i]]
    OBVIOUS
  <2> HIDE DEF e
  <2> DEFINE Q == {i \in 0 .. n : i = 0 \/ PartsIn(s, h, e, i, T)}
  <2>8. PartsIn(s, h, e, 1, T)
    <3>1. h[1] = s[1] /\ s[1] \in Seq(T) /\ e[1] = Len(s[1]) /\ Len(s[1]) \in Nat
      BY <1>3, <2>5, <2>6
    <3>2. \A k \in 1 .. 1 : k = 1 /\ k - 1 = 0
      OBVIOUS
    <3>3. \A j \in 1 .. Len(s[1]) : 0 + j = j
      OBVIOUS
    <3> QED BY <2>6, <3>1, <3>2, <3>3 DEF PartsIn
  <2>9. ASSUME NEW i \in 0 .. n - 1, i \in Q
        PROVE  i + 1 \in Q
    <3>1. CASE i = 0
      BY <2>8, <3>1, <1>3
    <3>2. CASE i # 0
      <4>1. i \in 1 .. n - 1 /\ i + 1 \in 1 .. n /\ i + 1 # 1 /\ (i + 1) - 1 = i
        BY <3>2
      <4>2. h[i + 1] = h[i] \o s[i + 1] /\ e[i + 1] = Len(h[i + 1])
        BY <2>5, <2>6, <4>1
      <4>3. PartsIn(s, h, e, i, T)
        BY <2>9, <3>2
      <4>4. PartsIn(s, h, e, i + 1, T)
        BY <4>1, <4>2, <4>3, JoinNext
      <4> QED BY <4>1, <4>4
    <3> QED BY <3>1, <3>2
  <2>10. 0 \in Q
    OBVIOUS
  <2> HIDE DEF Q
  <2>11. \A i \in 0 .. n : i \in Q
    BY <2>9, <2>10, CountingUp
  <2>12. \A i \in 1 .. n : PartsIn(s, h, e, i, T)
    <3>1. \A i \in 1 .. n : i \in 0 .. n /\ i # 0
      OBVIOUS
    <3> QED BY <2>11, <3>1 DEF Q
  <2>13. n \in 1 .. n
    BY <1>3
  <2>14. \A i \in 1 .. n : e[i] \in Nat
    BY <2>12, LenProperties DEF PartsIn
  <2>15. e \in [0 .. n -> Nat]
    <3>1. \A i \in 0 .. n : i = 0 \/ i \in 1 .. n
      OBVIOUS
    <3>2. \A i \in 0 .. n : e[i] \in Nat
      BY <2>6, <2>14, <3>1
    <3> QED BY <2>7, <3>2
  <2>16. Ends(s, e)
    BY <1>1, <2>6, <2>12, <2>13, <2>15 DEF Ends, PartsIn
  <2>17. LaidOut(s, e, h[n])
    BY <1>1, <2>12, <2>13, <2>16 DEF LaidOut, PartsIn
  <2>18. h[n] \in Seq(T)
    BY <2>12, <2>13 DEF PartsIn
  <2> QED BY <2>4, <2>17, <2>18
<1> QED BY <1>2, <1>3

(* Ends grow, and every position of the result is in one of the parts. *)
LEMMA EndsGrow ==
  ASSUME NEW T, NEW n \in Nat, NEW s \in [1 .. n -> Seq(T)], NEW e, Ends(s, e),
         NEW i \in 0 .. n, NEW j \in i .. n
  PROVE  e[i] <= e[j]
<1> DEFINE Q == {d \in 0 .. n - i : e[i] <= e[i + d]}
<1>0. Len(s) = n
  OBVIOUS
<1>1. Len(s) = n /\ e \in [0 .. n -> Nat]
  BY <1>0 DEF Ends
<1>2. 0 \in Q
  BY <1>1
<1>3. ASSUME NEW d \in 0 .. (n - i) - 1, d \in Q
      PROVE  d + 1 \in Q
  <2>1. i + d \in 0 .. n /\ i + (d + 1) \in 1 .. n /\ (i + (d + 1)) - 1 = i + d
    OBVIOUS
  <2>2. e[i + (d + 1)] = e[i + d] + Len(s[i + (d + 1)]) /\ Len(s[i + (d + 1)]) \in Nat
    BY <1>1, <2>1, LenProperties DEF Ends
  <2>3. e[i] <= e[i + d] /\ e[i] \in Nat /\ e[i + d] \in Nat
    BY <1>1, <1>3, <2>1
  <2> QED BY <2>2, <2>3
<1> HIDE DEF Q
<1>4. n - i \in Nat /\ j - i \in 0 .. n - i /\ i + (j - i) = j
  OBVIOUS
<1>5. j - i \in Q
  BY <1>2, <1>3, <1>4, CountingUp
<1> QED BY <1>4, <1>5 DEF Q

(* Position k is the j-th of a block. *)
InBlock(s, e, n, k) == \E i \in 1 .. n : \E j \in 1 .. Len(s[i]) : k = e[i - 1] + j

(* Every position of a sequence of blocks laid end to end is in one of the blocks. *)
LEMMA EveryPosition ==
  ASSUME NEW T, NEW n \in Nat, NEW s \in [1 .. n -> Seq(T)], NEW e, Ends(s, e),
         NEW k \in 1 .. e[n]
  PROVE  InBlock(s, e, n, k)
<1>0. Len(s) = n
  OBVIOUS
<1>1. Len(s) = n /\ e \in [0 .. n -> Nat] /\ e[0] = 0
  BY <1>0 DEF Ends
<1> DEFINE B == {i \in 0 .. n : k <= e[i]}
<1>2. B \in SUBSET Nat /\ n \in B
  BY <1>1
<1>3. PICK i \in B : \A y \in B : i <= y
  <2> HIDE DEF B
  <2> QED BY <1>2, LeastElement
<1>4. i \in 1 .. n /\ i - 1 \in 0 .. n /\ ~(i <= i - 1)
  BY <1>1, <1>3
<1>5. i - 1 \notin B
  BY <1>3, <1>4
<1>6. PICK a \in Nat : a = e[i - 1]
  BY <1>1, <1>4
<1>7. PICK b \in Nat : b = Len(s[i])
  BY <1>4, LenProperties
<1>8. e[i] = a + b
  BY <1>1, <1>4, <1>6, <1>7 DEF Ends
<1>9. k <= a + b /\ ~(k <= a)
  BY <1>3, <1>4, <1>5, <1>6, <1>8
<1>10. k - a \in 1 .. b /\ k = a + (k - a)
  BY <1>1, <1>9
<1> QED BY <1>4, <1>6, <1>7, <1>10 DEF InBlock

(***************************************************************************)
(* The walk.  It is described by what the formatter goes by: the nodes are *)
(* 1 .. m in the order of the walk, "pos" their lines, "dep" their depths, *)
(* "vis" the ones comments are attached to, "nt" the lines of the comments *)
(* and "cm" the comments.  "S" are the nodes the walk is inside of.        *)
(***************************************************************************)

WalkOf(m, pos, dep, vis, nt) ==
  /\ m \in Nat /\ pos \in [1 .. m -> Nat] /\ dep \in [1 .. m -> Nat] /\ vis \subseteq 1 .. m
  /\ \A u, w \in 1 .. m : u < w => pos[u] < pos[w]
  /\ nt \in Seq(Nat) /\ \A p, q \in 1 .. Len(nt) : p < q => nt[p] < nt[q]

(* Node u is inside node w. *)
NestedIn(dep, w, u) == w < u /\ \A k \in w + 1 .. u : dep[k] > dep[w]

(* A comment on line l is above node u and taken by nothing before it: it is below every node the
   walk visits before u, or beside one that u is inside of. *)
LeadsTo(pos, dep, vis, l, u) ==
  /\ l < pos[u]
  /\ \A w \in vis : w < u => pos[w] < l \/ (pos[w] = l /\ NestedIn(dep, w, u))

(* A comment beside node u waits for it: nothing visited is inside. *)
Waits(dep, vis, u) == \A w \in vis : ~ NestedIn(dep, u, w)

(* The comments above node u, one after the other. *)
HasLeading(pos, dep, vis, nt, cm, ld, u) ==
  \E b, c \in 0 .. Len(nt) :
    /\ b <= c /\ ld[u] = [j \in 1 .. c - b |-> cm[b + j]]
    /\ \A q \in 1 .. Len(nt) : b < q /\ q <= c <=> LeadsTo(pos, dep, vis, nt[q], u)

(* The comment beside node u. *)
HasTrailing(pos, dep, vis, nt, cm, tr, u) ==
  /\ \A q \in 1 .. Len(nt) : nt[q] = pos[u] /\ Waits(dep, vis, u) => tr[u] = cm[q]
  /\ (Waits(dep, vis, u) => \A q \in 1 .. Len(nt) : nt[q] # pos[u]) => tr[u] = None

(* Where the walk is. *)
WalkAt(m, pos, dep, vis, nt, i, a, S) ==
  /\ i \in 1 .. Len(nt) + 1 /\ a \in 0 .. m /\ S \subseteq vis
  /\ \A u \in S : u <= a /\ \A w \in u + 1 .. a : dep[w] > dep[u]

(* The comments taken so far: none is below all the nodes reached, all above one of them are taken,
   the one beside a node is taken when it is left, and not before unless something is inside. *)
WalkTaken(m, pos, dep, vis, nt, i, a, S) ==
  /\ \A q \in 1 .. i - 1 : \E w \in vis : w <= a /\ nt[q] <= pos[w]
  /\ \A w \in vis : w <= a => \A q \in 1 .. Len(nt) : nt[q] < pos[w] => q < i
  /\ \A u \in vis \ S : u <= a =>
       /\ \A q \in 1 .. Len(nt) : nt[q] = pos[u] => q < i
       /\ a = m \/ \E k \in u + 1 .. a + 1 : dep[k] <= dep[u]
  /\ \A u \in S : \/ \E w \in vis : u < w /\ w <= a
                  \/ \A q \in 1 .. i - 1 : nt[q] < pos[u]

(* What the nodes have been given. *)
WalkGiven(m, pos, dep, vis, nt, cm, a, S, ld, tr) ==
  /\ DOMAIN ld = 1 .. m /\ DOMAIN tr = 1 .. m
  /\ \A u \in 1 .. m :
       IF u \in vis /\ u <= a THEN HasLeading(pos, dep, vis, nt, cm, ld, u) ELSE ld[u] = <<>>
  /\ \A u \in 1 .. m :
       IF u \in vis /\ u <= a /\ u \notin S
       THEN HasTrailing(pos, dep, vis, nt, cm, tr, u) ELSE tr[u] = None

(* A node the walk arrives at takes what leads to it. *)
LEMMA ArriveTakes ==
  ASSUME NEW m, NEW pos, NEW dep, NEW vis, NEW nt, WalkOf(m, pos, dep, vis, nt),
         NEW i, NEW a, NEW S, WalkAt(m, pos, dep, vis, nt, i, a, S),
         WalkTaken(m, pos, dep, vis, nt, i, a, S),
         a < m, a + 1 \in vis, \A v \in S : dep[a + 1] > dep[v],
         NEW q \in 1 .. Len(nt)
  PROVE  q >= i /\ nt[q] < pos[a + 1] <=> LeadsTo(pos, dep, vis, nt[q], a + 1)
<1>1. m \in Nat /\ a \in Nat /\ i \in Nat /\ a + 1 \in 1 .. m /\ vis \subseteq 1 .. m
  BY DEF WalkOf, WalkAt
<1>2. nt[q] \in Nat /\ Len(nt) \in Nat /\ q \in Nat
  BY ElementOfSeq, LenProperties DEF WalkOf
<1>3. pos \in [1 .. m -> Nat] /\ dep \in [1 .. m -> Nat]
  BY DEF WalkOf
<1>4. ASSUME q >= i, nt[q] < pos[a + 1], NEW w \in vis, w < a + 1
      PROVE  pos[w] < nt[q] \/ (pos[w] = nt[q] /\ NestedIn(dep, w, a + 1))
  <2>1. w \in 1 .. m /\ w <= a /\ pos[w] \in Nat
    BY <1>1, <1>3, <1>4
  <2>2. ~(q < i)
    BY <1>1, <1>2, <1>4
  <2>3. ~(nt[q] < pos[w])
    BY <2>1, <2>2 DEF WalkTaken
  <2>4. CASE pos[w] = nt[q]
    <3>1. w \in S
      BY <2>1, <2>2, <2>4 DEF WalkTaken
    <3>2. \A k \in w + 1 .. a : dep[k] > dep[w]
      BY <3>1 DEF WalkAt
    <3>3. \A k \in w + 1 .. a + 1 : k \in w + 1 .. a \/ k = a + 1
      BY <1>1, <2>1
    <3>4. dep[a + 1] > dep[w]
      BY <3>1
    <3>5. NestedIn(dep, w, a + 1)
      BY <1>4, <3>2, <3>3, <3>4 DEF NestedIn
    <3> QED BY <2>4, <3>5
  <2> QED BY <1>2, <2>1, <2>3, <2>4
<1>5. ASSUME LeadsTo(pos, dep, vis, nt[q], a + 1), q < i
      PROVE  FALSE
  <2>1. q \in 1 .. i - 1
    BY <1>1, <1>2, <1>5
  <2>2. PICK w \in vis : w <= a /\ nt[q] <= pos[w]
    BY <2>1 DEF WalkTaken
  <2>3. w \in 1 .. m /\ pos[w] \in Nat /\ w < a + 1
    BY <1>1, <1>3, <2>2
  <2>4. pos[w] = nt[q] /\ NestedIn(dep, w, a + 1)
    BY <1>2, <1>5, <2>2, <2>3 DEF LeadsTo
  <2>5. CASE w \in S
    <3>1. ~(nt[q] < pos[w])
      BY <1>2, <2>4
    <3>2. PICK x \in vis : w < x /\ x <= a
      BY <2>1, <2>5, <3>1 DEF WalkTaken
    <3>3. x \in 1 .. m /\ pos[x] \in Nat /\ x < a + 1 /\ pos[w] < pos[x]
      BY <1>1, <1>3, <2>3, <3>2 DEF WalkOf
    <3>4. pos[x] < nt[q] \/ pos[x] = nt[q]
      BY <1>5, <3>3 DEF LeadsTo
    <3> QED BY <1>2, <2>3, <2>4, <3>3, <3>4
  <2>6. CASE w \notin S
    <3>1. a # m
      BY <1>1
    <3>2. PICK k \in w + 1 .. a + 1 : dep[k] <= dep[w]
      BY <2>2, <2>6, <3>1 DEF WalkTaken
    <3>3. dep[k] > dep[w]
      BY <2>4, <3>2 DEF NestedIn
    <3>4. k \in 1 .. m /\ dep[k] \in Nat /\ dep[w] \in Nat
      BY <1>1, <1>3, <2>3, <3>2
    <3> QED BY <3>2, <3>3, <3>4
  <2> QED BY <2>5, <2>6
<1>6. LeadsTo(pos, dep, vis, nt[q], a + 1) => nt[q] < pos[a + 1]
  BY DEF LeadsTo
<1> QED BY <1>1, <1>2, <1>4, <1>5, <1>6 DEF LeadsTo

(* All there is to know of the walk. *)
Walk(m, pos, dep, vis, nt, cm, i, a, S, ld, tr) ==
  /\ WalkOf(m, pos, dep, vis, nt)
  /\ WalkAt(m, pos, dep, vis, nt, i, a, S)
  /\ WalkTaken(m, pos, dep, vis, nt, i, a, S)
  /\ WalkGiven(m, pos, dep, vis, nt, cm, a, S, ld, tr)

(* The first comment that is not taken is above or beside the next node, when it is left. *)
LEMMA WalkTypes ==
  ASSUME NEW m, NEW pos, NEW dep, NEW vis, NEW nt, WalkOf(m, pos, dep, vis, nt),
         NEW i, NEW a, NEW S, WalkAt(m, pos, dep, vis, nt, i, a, S)
  PROVE  /\ m \in Nat /\ a \in Nat /\ i \in Nat /\ a <= m /\ i >= 1 /\ i <= Len(nt) + 1
         /\ vis \subseteq 1 .. m /\ S \subseteq vis /\ Len(nt) \in Nat
         /\ pos \in [1 .. m -> Nat] /\ dep \in [1 .. m -> Nat]
         /\ \A q \in 1 .. Len(nt) : nt[q] \in Nat
<1>1. Len(nt) \in Nat /\ \A q \in 1 .. Len(nt) : nt[q] \in Nat
  BY ElementOfSeq, LenProperties DEF WalkOf
<1> QED BY <1>1 DEF WalkOf, WalkAt

(* The step past a node: to one that is inside all the nodes the walk is in. *)
Steps(m, dep, a, S) == a < m /\ \A v \in S : dep[a + 1] > dep[v]

(* After such a step the walk is where a walk can be, whether it enters the node or passes it by. *)
LEMMA StepAt ==
  ASSUME NEW m, NEW pos, NEW dep, NEW vis, NEW nt, WalkOf(m, pos, dep, vis, nt),
         NEW i, NEW a, NEW S, WalkAt(m, pos, dep, vis, nt, i, a, S), Steps(m, dep, a, S),
         NEW j \in 1 .. Len(nt) + 1, NEW R, R = S \/ (R = S \cup {a + 1} /\ a + 1 \in vis)
  PROVE  WalkAt(m, pos, dep, vis, nt, j, a + 1, R)
<1>1. m \in Nat /\ a \in Nat /\ a + 1 \in 0 .. m /\ vis \subseteq 1 .. m /\ S \subseteq vis
  BY WalkTypes DEF Steps
<1>2. ASSUME NEW u \in S
      PROVE  u <= a + 1 /\ \A w \in u + 1 .. a + 1 : dep[w] > dep[u]
  <2>1. u <= a /\ u \in Nat
    BY <1>1 DEF WalkAt
  <2>2. \A w \in u + 1 .. a + 1 : w \in u + 1 .. a \/ w = a + 1
    BY <1>1, <2>1
  <2>3. dep[a + 1] > dep[u]
    BY DEF Steps
  <2> QED BY <1>1, <2>1, <2>2, <2>3 DEF WalkAt
<1>3. a + 1 <= a + 1 /\ \A w \in (a + 1) + 1 .. a + 1 : dep[w] > dep[a + 1]
  BY <1>1
<1>4. R \subseteq vis
  BY <1>1
<1>5. \A u \in R : u \in S \/ u = a + 1
  OBVIOUS
<1> QED BY <1>1, <1>2, <1>3, <1>4, <1>5 DEF WalkAt

(* Going past a line that is no node of the walk takes nothing. *)
LEMMA PassKeeps ==
  ASSUME NEW m, NEW pos, NEW dep, NEW vis, NEW nt, NEW cm, NEW i, NEW a, NEW S, NEW ld, NEW tr,
         Walk(m, pos, dep, vis, nt, cm, i, a, S, ld, tr), Steps(m, dep, a, S), a + 1 \notin vis
  PROVE  Walk(m, pos, dep, vis, nt, cm, i, a + 1, S, ld, tr)
<1> USE DEF Walk
<1>0. i \in 1 .. Len(nt) + 1
  BY DEF WalkAt
<1>1. /\ m \in Nat /\ a \in Nat /\ vis \subseteq 1 .. m /\ S \subseteq vis /\ a < m
      /\ i \in 1 .. Len(nt) + 1
  BY <1>0, WalkTypes DEF Steps
<1>2. \A u \in vis : u \in Nat /\ (u <= a + 1 <=> u <= a)
  BY <1>1
<1>3. WalkAt(m, pos, dep, vis, nt, i, a + 1, S)
  BY <1>1, StepAt
<1>4. WalkTaken(m, pos, dep, vis, nt, i, a + 1, S)
  <2>1. \A q \in 1 .. i - 1 : \E w \in vis : w <= a + 1 /\ nt[q] <= pos[w]
    BY <1>2 DEF WalkTaken
  <2>2. \A w \in vis : w <= a + 1 => \A q \in 1 .. Len(nt) : nt[q] < pos[w] => q < i
    BY <1>2 DEF WalkTaken
  <2>3. ASSUME NEW u \in vis \ S, u <= a + 1
        PROVE  /\ \A q \in 1 .. Len(nt) : nt[q] = pos[u] => q < i
               /\ a + 1 = m \/ \E k \in u + 1 .. (a + 1) + 1 : dep[k] <= dep[u]
    <3>1. /\ \A q \in 1 .. Len(nt) : nt[q] = pos[u] => q < i
          /\ \E k \in u + 1 .. a + 1 : dep[k] <= dep[u]
      <4>1. u <= a /\ a # m
        BY <1>1, <1>2, <2>3
      <4> QED BY <4>1 DEF WalkTaken
    <3>2. \A k \in u + 1 .. a + 1 : k \in u + 1 .. (a + 1) + 1
      BY <1>1, <1>2
    <3> QED BY <3>1, <3>2
  <2>4. \A u \in S : \/ \E w \in vis : u < w /\ w <= a + 1
                     \/ \A q \in 1 .. i - 1 : nt[q] < pos[u]
    BY <1>2 DEF WalkTaken
  <2> QED BY <2>1, <2>2, <2>3, <2>4 DEF WalkTaken
<1>5. WalkGiven(m, pos, dep, vis, nt, cm, a + 1, S, ld, tr)
  BY <1>2 DEF WalkGiven
<1> QED BY <1>3, <1>4, <1>5

(* Arriving at a node takes the comments above its line, from the first not taken to j. *)
LEMMA ArriveKeeps ==
  ASSUME NEW m, NEW pos, NEW dep, NEW vis, NEW nt, NEW cm, NEW i, NEW a, NEW S, NEW ld, NEW tr,
         Walk(m, pos, dep, vis, nt, cm, i, a, S, ld, tr), Steps(m, dep, a, S), a + 1 \in vis,
         NEW j \in i .. Len(nt) + 1,
         \A q \in i .. Len(nt) : nt[q] < pos[a + 1] <=> q < j
  PROVE  Walk(m, pos, dep, vis, nt, cm, j, a + 1, S \cup {a + 1},
              [ld EXCEPT ![a + 1] = [k \in 1 .. j - i |-> cm[i + k - 1]]], tr)
<1> USE DEF Walk
<1>1. /\ m \in Nat /\ a \in Nat /\ i \in Nat /\ vis \subseteq 1 .. m /\ S \subseteq vis /\ a < m
      /\ Len(nt) \in Nat /\ pos \in [1 .. m -> Nat] /\ dep \in [1 .. m -> Nat]
      /\ \A q \in 1 .. Len(nt) : nt[q] \in Nat
  BY WalkTypes DEF Steps
<1>2. i \in 1 .. Len(nt) + 1 /\ j \in 1 .. Len(nt) + 1 /\ j \in Nat /\ i <= j
  BY <1>1, WalkTypes
<1>3. \A u \in vis : u \in 1 .. m /\ pos[u] \in Nat /\ (u <= a + 1 <=> u <= a \/ u = a + 1)
  BY <1>1
<1>4. WalkAt(m, pos, dep, vis, nt, j, a + 1, S \cup {a + 1})
  BY <1>2, StepAt
<1>5. \A u \in S : u <= a
  BY DEF WalkAt
<1>6. ASSUME NEW w \in vis, w <= a
      PROVE  pos[w] < pos[a + 1]
  BY <1>1, <1>3, <1>6 DEF WalkOf
<1>7. WalkTaken(m, pos, dep, vis, nt, j, a + 1, S \cup {a + 1})
  <2>1. ASSUME NEW q \in 1 .. j - 1
        PROVE  \E w \in vis : w <= a + 1 /\ nt[q] <= pos[w]
    <3>1. CASE q < i
      <4>1. q \in 1 .. i - 1
        BY <1>2, <3>1
      <4> QED BY <1>3, <4>1 DEF WalkTaken
    <3>2. CASE q >= i
      <4>1. q \in i .. Len(nt) /\ q < j /\ q \in 1 .. Len(nt)
        BY <1>1, <1>2, <3>2
      <4>2. nt[q] < pos[a + 1]
        BY <4>1
      <4>3. nt[q] \in Nat /\ pos[a + 1] \in Nat
        BY <1>1, <4>1
      <4> QED BY <1>3, <4>2, <4>3
    <3> QED BY <1>1, <3>1, <3>2
  <2>2. ASSUME NEW w \in vis, w <= a + 1, NEW q \in 1 .. Len(nt), nt[q] < pos[w]
        PROVE  q < j
    <3>1. CASE w <= a
      <4>1. q < i
        BY <2>2, <3>1 DEF WalkTaken
      <4> QED BY <1>1, <1>2, <4>1
    <3>2. CASE w = a + 1 /\ q >= i
      <4>1. q \in i .. Len(nt)
        BY <1>1, <3>2
      <4> QED BY <2>2, <3>2, <4>1
    <3> QED BY <1>1, <1>2, <1>3, <2>2, <3>1, <3>2
  <2>3. ASSUME NEW u \in vis \ (S \cup {a + 1}), u <= a + 1
        PROVE  /\ \A q \in 1 .. Len(nt) : nt[q] = pos[u] => q < j
               /\ a + 1 = m \/ \E k \in u + 1 .. (a + 1) + 1 : dep[k] <= dep[u]
    <3>1. u <= a /\ a # m /\ u \in vis \ S
      BY <1>1, <1>3, <2>3
    <3>2. /\ \A q \in 1 .. Len(nt) : nt[q] = pos[u] => q < i
          /\ \E k \in u + 1 .. a + 1 : dep[k] <= dep[u]
      BY <3>1 DEF WalkTaken
    <3>3. \A k \in u + 1 .. a + 1 : k \in u + 1 .. (a + 1) + 1
      BY <1>1, <1>3
    <3>4. \A q \in 1 .. Len(nt) : q < i => q < j
      BY <1>1, <1>2
    <3> QED BY <3>2, <3>3, <3>4
  <2>4. ASSUME NEW u \in S
        PROVE  \E w \in vis : u < w /\ w <= a + 1
    BY <1>1, <1>5
  <2>5. ASSUME NEW q \in 1 .. j - 1
        PROVE  nt[q] < pos[a + 1]
    <3>1. CASE q < i
      <4>1. q \in 1 .. i - 1 /\ q \in 1 .. Len(nt)
        BY <1>1, <1>2, <3>1
      <4>2. PICK w \in vis : w <= a /\ nt[q] <= pos[w]
        BY <4>1 DEF WalkTaken
      <4>3. nt[q] \in Nat /\ pos[w] \in Nat /\ pos[a + 1] \in Nat /\ pos[w] < pos[a + 1]
        BY <1>1, <1>3, <1>6, <4>1, <4>2
      <4> QED BY <4>2, <4>3
    <3>2. CASE q >= i
      <4>1. q \in i .. Len(nt) /\ q < j
        BY <1>1, <1>2, <3>2
      <4> QED BY <4>1
    <3> QED BY <1>1, <3>1, <3>2
  <2>6. \A u \in S \cup {a + 1} : u \in S \/ u = a + 1
    OBVIOUS
  <2> QED BY <2>1, <2>2, <2>3, <2>4, <2>5, <2>6 DEF WalkTaken
<1> DEFINE given == [k \in 1 .. j - i |-> cm[i + k - 1]]
           ld2   == [ld EXCEPT ![a + 1] = given]
<1>8. HasLeading(pos, dep, vis, nt, cm, ld2, a + 1)
  <2>1. a + 1 \in DOMAIN ld
    BY <1>3 DEF WalkGiven
  <2>2. ld2[a + 1] = given
    BY <2>1
  <2> DEFINE b == i - 1
             c == j - 1
  <2>3. b \in 0 .. Len(nt) /\ c \in 0 .. Len(nt) /\ b <= c /\ c - b = j - i
    BY <1>1, <1>2
  <2>4. \A k \in 1 .. j - i : i + k - 1 = b + k
    BY <1>1, <1>2
  <2>5. given = [k \in 1 .. c - b |-> cm[b + k]]
    BY <2>3, <2>4
  <2>6. ASSUME NEW q \in 1 .. Len(nt)
        PROVE  b < q /\ q <= c <=> LeadsTo(pos, dep, vis, nt[q], a + 1)
    <3>1. b < q /\ q <= c <=> q >= i /\ q < j
      BY <1>1, <1>2
    <3>2. q >= i => q \in i .. Len(nt)
      BY <1>1
    <3>3. q >= i /\ q < j <=> q >= i /\ nt[q] < pos[a + 1]
      BY <3>2
    <3>4. q >= i /\ nt[q] < pos[a + 1] <=> LeadsTo(pos, dep, vis, nt[q], a + 1)
      BY ArriveTakes DEF Steps
    <3> QED BY <3>1, <3>3, <3>4
  <2> HIDE DEF b, c, given
  <2> QED BY <2>2, <2>3, <2>5, <2>6 DEF HasLeading
<1>9. WalkGiven(m, pos, dep, vis, nt, cm, a + 1, S \cup {a + 1}, ld2, tr)
  <2>1. DOMAIN ld2 = 1 .. m /\ DOMAIN tr = 1 .. m
    BY DEF WalkGiven
  <2>2. \A u \in 1 .. m : u # a + 1 => ld2[u] = ld[u]
    BY DEF WalkGiven
  <2> HIDE DEF ld2
  <2>3. ASSUME NEW u \in 1 .. m
        PROVE  IF u \in vis /\ u <= a + 1 THEN HasLeading(pos, dep, vis, nt, cm, ld2, u)
                                          ELSE ld2[u] = <<>>
    <3>1. CASE u = a + 1
      <4>1. u \in vis /\ u <= a + 1
        BY <1>1, <3>1
      <4> QED BY <1>8, <3>1, <4>1
    <3>2. CASE u # a + 1
      <4>1. u <= a + 1 <=> u <= a
        BY <1>1, <3>2
      <4>2. ld2[u] = ld[u]
        BY <2>2, <3>2
      <4>3. IF u \in vis /\ u <= a THEN HasLeading(pos, dep, vis, nt, cm, ld, u) ELSE ld[u] = <<>>
        BY DEF WalkGiven
      <4> QED BY <4>1, <4>2, <4>3 DEF HasLeading
    <3> QED BY <3>1, <3>2
  <2>4. ASSUME NEW u \in 1 .. m
        PROVE  IF u \in vis /\ u <= a + 1 /\ u \notin S \cup {a + 1}
               THEN HasTrailing(pos, dep, vis, nt, cm, tr, u) ELSE tr[u] = None
    <3>1. IF u \in vis /\ u <= a /\ u \notin S
          THEN HasTrailing(pos, dep, vis, nt, cm, tr, u) ELSE tr[u] = None
      BY DEF WalkGiven
    <3>2. u # a + 1 => (u <= a + 1 <=> u <= a)
      BY <1>1
    <3>3. u = a + 1 => ~(u <= a)
      BY <1>1
    <3> QED BY <3>1, <3>2, <3>3
  <2> QED BY <2>1, <2>3, <2>4 DEF WalkGiven
<1> HIDE DEF given
<1>10. Walk(m, pos, dep, vis, nt, cm, j, a + 1, S \cup {a + 1}, ld2, tr)
  <2> HIDE DEF ld2
  <2> QED BY <1>4, <1>7, <1>9
<1> QED BY <1>10 DEF given

(* Leaving a node, the next one not inside it, takes the comment beside it when that is next. *)
Leaves(m, dep, a, S, u) ==
  u \in S /\ (\A v \in S : v <= u) /\ (a = m \/ ~ dep[a + 1] > dep[u])

(* The node that is left is one the walk has visited. *)
LEMMA LeftIsReached ==
  ASSUME NEW m, NEW pos, NEW dep, NEW vis, NEW nt, WalkOf(m, pos, dep, vis, nt),
         NEW i, NEW a, NEW S, WalkAt(m, pos, dep, vis, nt, i, a, S), NEW u, Leaves(m, dep, a, S, u)
  PROVE  u \in S /\ u \in vis /\ u <= a /\ u \in 1 .. m /\ pos[u] \in Nat
<1>1. u \in S /\ u <= a
  BY DEF Leaves, WalkAt
<1>2. vis \subseteq 1 .. m /\ S \subseteq vis /\ pos \in [1 .. m -> Nat]
  BY WalkTypes
<1> QED BY <1>1, <1>2

(* What is inside the node that is left has been reached. *)
LEMMA LeftWithAll ==
  ASSUME NEW m, NEW pos, NEW dep, NEW vis, NEW nt, WalkOf(m, pos, dep, vis, nt),
         NEW i, NEW a, NEW S, WalkAt(m, pos, dep, vis, nt, i, a, S),
         NEW u, Leaves(m, dep, a, S, u), NEW w \in vis
  PROVE  NestedIn(dep, u, w) <=> u < w /\ w <= a
<1>1. /\ m \in Nat /\ a \in Nat /\ a <= m /\ w \in 1 .. m /\ u \in 1 .. m
      /\ dep \in [1 .. m -> Nat]
  BY WalkTypes DEF Leaves
<1>2. ASSUME u < w, w <= a
      PROVE  NestedIn(dep, u, w)
  <2>1. \A k \in u + 1 .. w : k \in u + 1 .. a
    BY <1>1, <1>2
  <2> QED BY <1>2, <2>1 DEF NestedIn, WalkAt, Leaves
<1>3. ASSUME NestedIn(dep, u, w), w > a
      PROVE  FALSE
  <2>1. u <= a
    BY DEF WalkAt, Leaves
  <2>2. a + 1 \in u + 1 .. w /\ a # m
    BY <1>1, <1>3, <2>1
  <2>3. dep[a + 1] > dep[u]
    BY <1>3, <2>2 DEF NestedIn
  <2> QED BY <2>2, <2>3 DEF Leaves
<1> QED BY <1>1, <1>2, <1>3 DEF NestedIn

(* No comment beside a node is beyond the first not taken, when the node has been reached. *)
LEMMA NextBeside ==
  ASSUME NEW m, NEW pos, NEW dep, NEW vis, NEW nt, WalkOf(m, pos, dep, vis, nt),
         NEW i, NEW a, NEW S, WalkAt(m, pos, dep, vis, nt, i, a, S),
         WalkTaken(m, pos, dep, vis, nt, i, a, S),
         NEW u \in vis, u <= a, NEW q \in 1 .. Len(nt), nt[q] = pos[u], q >= i
  PROVE  q = i
<1>1. m \in Nat /\ a \in Nat /\ i \in Nat /\ i >= 1 /\ Len(nt) \in Nat /\ q \in Nat
  BY WalkTypes
<1>2. SUFFICES ASSUME i < q PROVE FALSE
  BY <1>1
<1>3. i \in 1 .. Len(nt)
  BY <1>1, <1>2
<1>4. nt[i] < nt[q]
  BY <1>2, <1>3 DEF WalkOf
<1>5. nt[i] < pos[u]
  BY <1>4
<1>6. i < i
  BY <1>3, <1>5 DEF WalkTaken
<1> QED BY <1>1, <1>6

(* Leaving a node, the comment beside it taken or not, keeps which comments are taken. *)
LEMMA LeaveTakes ==
  ASSUME NEW m, NEW pos, NEW dep, NEW vis, NEW nt, WalkOf(m, pos, dep, vis, nt),
         NEW i, NEW a, NEW S, WalkAt(m, pos, dep, vis, nt, i, a, S),
         WalkTaken(m, pos, dep, vis, nt, i, a, S),
         NEW u, Leaves(m, dep, a, S, u),
         NEW j, j = IF i <= Len(nt) /\ nt[i] = pos[u] THEN i + 1 ELSE i
  PROVE  /\ WalkAt(m, pos, dep, vis, nt, j, a, S \ {u})
         /\ WalkTaken(m, pos, dep, vis, nt, j, a, S \ {u})
<1>1. /\ m \in Nat /\ a \in Nat /\ i \in Nat /\ i >= 1 /\ vis \subseteq 1 .. m /\ S \subseteq vis
      /\ Len(nt) \in Nat /\ pos \in [1 .. m -> Nat] /\ i <= Len(nt) + 1
      /\ \A q \in 1 .. Len(nt) : nt[q] \in Nat
  BY WalkTypes
<1>2. j \in 1 .. Len(nt) + 1 /\ j \in Nat /\ i <= j
  BY <1>1
<1>3. WalkAt(m, pos, dep, vis, nt, j, a, S \ {u})
  BY <1>2 DEF WalkAt
<1>4. u \in S /\ u \in vis /\ u <= a /\ u \in Nat /\ pos[u] \in Nat
  BY <1>1 DEF Leaves, WalkAt
<1>5. ASSUME NEW q \in 1 .. j - 1
      PROVE  \E w \in vis : w <= a /\ nt[q] <= pos[w]
  <2>1. CASE q < i
    <3>1. q \in 1 .. i - 1
      BY <1>1, <2>1
    <3> QED BY <3>1 DEF WalkTaken
  <2>2. CASE q >= i
    <3>1. q = i /\ nt[i] = pos[u]
      BY <1>1, <1>2, <2>2
    <3>2. nt[q] <= pos[u]
      BY <1>4, <3>1
    <3> QED BY <1>4, <3>2
  <2> QED BY <1>1, <2>1, <2>2
<1>6. \A w \in vis : w <= a => \A q \in 1 .. Len(nt) : nt[q] < pos[w] => q < j
  <2>1. \A q \in 1 .. Len(nt) : q < i => q < j
    BY <1>1, <1>2
  <2> QED BY <2>1 DEF WalkTaken
<1>7. ASSUME NEW v \in vis \ (S \ {u}), v <= a
      PROVE  /\ \A q \in 1 .. Len(nt) : nt[q] = pos[v] => q < j
             /\ a = m \/ \E k \in v + 1 .. a + 1 : dep[k] <= dep[v]
  <2>1. CASE v = u
    <3>1. ASSUME NEW q \in 1 .. Len(nt), nt[q] = pos[u]
          PROVE  q < j
      <4>1. q >= i => q = i
        BY <1>4, <3>1, NextBeside
      <4>2. q = i => j = i + 1
        BY <3>1
      <4> QED BY <1>1, <1>2, <4>1, <4>2
    <3>2. a + 1 \in u + 1 .. a + 1
      BY <1>1, <1>4
    <3>3. ~ dep[a + 1] > dep[u] /\ a # m => dep[a + 1] <= dep[u]
      <4>1. a # m => a + 1 \in 1 .. m
        BY <1>1, WalkTypes
      <4>2. u \in 1 .. m /\ dep \in [1 .. m -> Nat]
        BY <1>1, <1>4, WalkTypes
      <4> QED BY <4>1, <4>2
    <3>4. a = m \/ \E k \in u + 1 .. a + 1 : dep[k] <= dep[u]
      BY <3>2, <3>3 DEF Leaves
    <3> QED BY <2>1, <3>1, <3>4
  <2>2. CASE v # u
    <3>1. v \in vis \ S
      BY <1>7, <2>2
    <3>2. /\ \A q \in 1 .. Len(nt) : nt[q] = pos[v] => q < i
          /\ a = m \/ \E k \in v + 1 .. a + 1 : dep[k] <= dep[v]
      BY <1>7, <3>1 DEF WalkTaken
    <3>3. \A q \in 1 .. Len(nt) : q < i => q < j
      BY <1>1, <1>2
    <3> QED BY <3>2, <3>3
  <2> QED BY <2>1, <2>2
<1>8. ASSUME NEW v \in S \ {u}
      PROVE  \E w \in vis : v < w /\ w <= a
  <2>1. v <= u /\ v # u /\ v \in Nat
    BY <1>1 DEF Leaves
  <2>2. v < u
    BY <1>4, <2>1
  <2> QED BY <1>4, <2>2
<1>9. WalkTaken(m, pos, dep, vis, nt, j, a, S \ {u})
  BY <1>5, <1>6, <1>7, <1>8 DEF WalkTaken
<1> QED BY <1>3, <1>9

(* The node that is left has the comment beside it, unless something inside has taken it. *)
LEMMA LeaveGives ==
  ASSUME NEW m, NEW pos, NEW dep, NEW vis, NEW nt, NEW cm, WalkOf(m, pos, dep, vis, nt),
         NEW i, NEW a, NEW S, WalkAt(m, pos, dep, vis, nt, i, a, S),
         WalkTaken(m, pos, dep, vis, nt, i, a, S),
         NEW u, Leaves(m, dep, a, S, u), NEW tr,
         IF i <= Len(nt) /\ nt[i] = pos[u] THEN tr[u] = cm[i] ELSE tr[u] = None
  PROVE  HasTrailing(pos, dep, vis, nt, cm, tr, u)
<1>1. /\ m \in Nat /\ a \in Nat /\ i \in Nat /\ i >= 1 /\ vis \subseteq 1 .. m /\ S \subseteq vis
      /\ Len(nt) \in Nat /\ pos \in [1 .. m -> Nat]
      /\ \A q \in 1 .. Len(nt) : nt[q] \in Nat
  BY WalkTypes
<1>2. u \in S /\ u \in vis /\ u <= a /\ u \in Nat /\ pos[u] \in Nat
  BY LeftIsReached
<1>3. \A w \in vis : NestedIn(dep, u, w) <=> u < w /\ w <= a
  BY LeftWithAll
<1>4. ASSUME NEW q \in 1 .. Len(nt), nt[q] = pos[u], Waits(dep, vis, u)
      PROVE  tr[u] = cm[q]
  <2>1. ~\E w \in vis : u < w /\ w <= a
    BY <1>3, <1>4 DEF Waits
  <2>2. \A p \in 1 .. i - 1 : nt[p] < pos[u]
    BY <1>2, <2>1 DEF WalkTaken
  <2>3. q >= i
    <3>1. SUFFICES ASSUME q < i PROVE FALSE
      BY <1>1
    <3>2. q \in 1 .. i - 1
      BY <1>1, <3>1
    <3>3. nt[q] < pos[u]
      BY <2>2, <3>2
    <3> QED BY <1>2, <1>4, <3>3
  <2>4. q = i
    BY <1>2, <1>4, <2>3, NextBeside
  <2> QED BY <1>1, <1>4, <2>4
<1>5. ASSUME Waits(dep, vis, u) => \A q \in 1 .. Len(nt) : nt[q] # pos[u]
      PROVE  tr[u] = None
  <2>1. SUFFICES ASSUME i <= Len(nt), nt[i] = pos[u] PROVE FALSE
    OBVIOUS
  <2>2. i \in 1 .. Len(nt)
    BY <1>1, <2>1
  <2>3. PICK w \in vis : u < w /\ w <= a
    BY <1>3, <1>5, <2>1, <2>2 DEF Waits
  <2>4. pos[u] < pos[w]
    BY <1>1, <1>2, <2>3 DEF WalkOf
  <2>5. i < i
    BY <2>1, <2>2, <2>3, <2>4 DEF WalkTaken
  <2> QED BY <1>1, <2>5
<1> QED BY <1>4, <1>5 DEF HasTrailing

(* Leaving a node keeps the walk correct, also in what each node has been given. *)
LEMMA LeaveKeeps ==
  ASSUME NEW m, NEW pos, NEW dep, NEW vis, NEW nt, NEW cm, NEW i, NEW a, NEW S, NEW ld, NEW tr,
         Walk(m, pos, dep, vis, nt, cm, i, a, S, ld, tr), NEW u, Leaves(m, dep, a, S, u),
         NEW j, j = IF i <= Len(nt) /\ nt[i] = pos[u] THEN i + 1 ELSE i,
         NEW tr2, tr2 = IF i <= Len(nt) /\ nt[i] = pos[u] THEN [tr EXCEPT ![u] = cm[i]] ELSE tr
  PROVE  Walk(m, pos, dep, vis, nt, cm, j, a, S \ {u}, ld, tr2)
<1> USE DEF Walk
<1>1. /\ WalkAt(m, pos, dep, vis, nt, j, a, S \ {u})
      /\ WalkTaken(m, pos, dep, vis, nt, j, a, S \ {u})
  BY LeaveTakes
<1>2. u \in S /\ u \in vis /\ u <= a /\ u \in 1 .. m
  BY LeftIsReached
<1>3. DOMAIN tr = 1 .. m /\ DOMAIN ld = 1 .. m /\ tr[u] = None
  BY <1>2 DEF WalkGiven
<1>4. DOMAIN tr2 = 1 .. m /\ \A v \in 1 .. m : v # u => tr2[v] = tr[v]
  BY <1>3
<1>5. IF i <= Len(nt) /\ nt[i] = pos[u] THEN tr2[u] = cm[i] ELSE tr2[u] = None
  BY <1>2, <1>3
<1>6. HasTrailing(pos, dep, vis, nt, cm, tr2, u)
  BY <1>5, LeaveGives
<1>7. ASSUME NEW v \in 1 .. m
      PROVE  IF v \in vis /\ v <= a /\ v \notin S \ {u}
             THEN HasTrailing(pos, dep, vis, nt, cm, tr2, v) ELSE tr2[v] = None
  <2>1. CASE v = u
    BY <1>2, <1>6, <2>1
  <2>2. CASE v # u
    <3>1. IF v \in vis /\ v <= a /\ v \notin S
          THEN HasTrailing(pos, dep, vis, nt, cm, tr, v) ELSE tr[v] = None
      BY DEF WalkGiven
    <3>2. tr2[v] = tr[v] /\ (v \notin S \ {u} <=> v \notin S)
      BY <1>4, <2>2
    <3> QED BY <3>1, <3>2 DEF HasTrailing
  <2> QED BY <2>1, <2>2
<1>8. WalkGiven(m, pos, dep, vis, nt, cm, a, S \ {u}, ld, tr2)
  BY <1>3, <1>4, <1>7 DEF WalkGiven
<1> QED BY <1>1, <1>8

(***************************************************************************)
(* Files.  The walk over a file is the walk above, with the nodes in the   *)
(* order o of their lines.                                                 *)
(***************************************************************************)

Node == [kind : Kinds, depth : Nat, want : Nat \ {0}, lands : Nat \ {0}, group : Nat]

Program == {p \in Seq(Node) : \A n \in 1 .. Len(p) : p[n].lands <= p[n].want}

Lines(p) == Seq([node : 0 .. Len(p), note : Comments \cup {None}, pos : BOOLEAN])

LastLine(lines, n) ==
  CHOOSE l \in DOMAIN lines :
    lines[l].node = n /\ \A k \in l + 1 .. Len(lines) : lines[k].node # n

(* The lines of the nodes of p come in the order o: every node once, on lines of *)
(* its own, its position on one of them.                                         *)
InOrder(p, lines, o) ==
  /\ p \in Program /\ lines \in Lines(p)
  /\ o \in [1 .. Len(p) -> 1 .. Len(p)]
  /\ \A n \in 1 .. Len(p) : \E u \in 1 .. Len(p) : o[u] = n
  /\ \A u \in 1 .. Len(p) : \E l \in 1 .. Len(lines) : lines[l].node = o[u] /\ lines[l].pos
  /\ \A u, w \in 1 .. Len(p) : \A k, l \in 1 .. Len(lines) :
       u < w /\ lines[k].node = o[u] /\ lines[l].node = o[w] => k < l

PosOf(p, lines, o) == [u \in 1 .. Len(p) |-> PosLine(lines, o[u])]
DepOf(p, o) == [u \in 1 .. Len(p) |-> p[o[u]].depth]
VisOf(p, o) == {u \in 1 .. Len(p) : p[o[u]].kind # "section"}
NotesOf(lines, nt) == [q \in 1 .. Len(nt) |-> lines[nt[q]].note]
Along(f, p, o) == [u \in 1 .. Len(p) |-> f[o[u]]]

(* What a line of a file and a node of a program are. *)
LEMMA LineTypes ==
  ASSUME NEW p \in Program, NEW lines \in Lines(p)
  PROVE  /\ Len(p) \in Nat /\ Len(lines) \in Nat
         /\ DOMAIN lines = 1 .. Len(lines) /\ DOMAIN p = 1 .. Len(p)
         /\ \A l \in 1 .. Len(lines) : /\ lines[l].node \in 0 .. Len(p)
                                       /\ lines[l].note \in Comments \cup {None}
                                       /\ lines[l].pos \in BOOLEAN
                                       /\ lines[l] = [node |-> lines[l].node, note |-> lines[l].note,
                                                      pos |-> lines[l].pos]
         /\ \A n \in 1 .. Len(p) : /\ p[n].kind \in Kinds /\ p[n].depth \in Nat
                                   /\ p[n].want \in Nat /\ p[n].want >= 1 /\ p[n].group \in Nat
                                   /\ p[n].lands \in 1 .. p[n].want
<1>1. Len(p) \in Nat /\ DOMAIN p = 1 .. Len(p) /\ Len(lines) \in Nat /\ DOMAIN lines = 1 .. Len(lines)
  BY LenProperties DEF Program, Lines
<1>2. ASSUME NEW l \in 1 .. Len(lines)
      PROVE  /\ lines[l].node \in 0 .. Len(p) /\ lines[l].note \in Comments \cup {None}
             /\ lines[l].pos \in BOOLEAN
             /\ lines[l] = [node |-> lines[l].node, note |-> lines[l].note, pos |-> lines[l].pos]
  <2>1. lines[l] \in [node : 0 .. Len(p), note : Comments \cup {None}, pos : BOOLEAN]
    BY ElementOfSeq DEF Lines
  <2> QED BY <2>1
<1>3. ASSUME NEW n \in 1 .. Len(p)
      PROVE  /\ p[n].kind \in Kinds /\ p[n].depth \in Nat
             /\ p[n].want \in Nat /\ p[n].want >= 1 /\ p[n].group \in Nat
             /\ p[n].lands \in 1 .. p[n].want
  <2>1. p[n] \in Node /\ p[n].lands <= p[n].want
    BY ElementOfSeq DEF Program
  <2>2. /\ p[n].kind \in Kinds /\ p[n].depth \in Nat /\ p[n].group \in Nat
        /\ p[n].want \in Nat /\ p[n].want # 0 /\ p[n].lands \in Nat /\ p[n].lands # 0
    BY <2>1 DEF Node
  <2> QED BY <2>1, <2>2
<1> QED BY <1>1, <1>2, <1>3

(* The first and the last line of a node that is on some line. *)
LEMMA FirstAndLast ==
  ASSUME NEW p \in Program, NEW lines \in Lines(p), NEW n,
         NEW x \in 1 .. Len(lines), lines[x].node = n
  PROVE  /\ FirstLine(lines, n) \in 1 .. Len(lines) /\ lines[FirstLine(lines, n)].node = n
         /\ LastLine(lines, n) \in 1 .. Len(lines) /\ lines[LastLine(lines, n)].node = n
         /\ \A l \in 1 .. Len(lines) : lines[l].node = n =>
              FirstLine(lines, n) <= l /\ l <= LastLine(lines, n)
<1>1. Len(lines) \in Nat /\ DOMAIN lines = 1 .. Len(lines)
  BY LineTypes
<1> DEFINE On == {l \in 1 .. Len(lines) : lines[l].node = n}
<1>2. PICK a \in On : \A l \in On : a <= l
  <2>1. On \in SUBSET Nat /\ x \in On
    BY <1>1
  <2> HIDE DEF On
  <2> QED BY <2>1, LeastElement
<1>3. FirstLine(lines, n) = a
  <2>1. /\ a \in 1 .. Len(lines) /\ lines[a].node = n
        /\ \A k \in 1 .. a - 1 : lines[k].node # n
    <3>1. \A k \in 1 .. a - 1 : k \in 1 .. Len(lines) /\ ~(a <= k)
      BY <1>1, <1>2
    <3> QED BY <1>2, <3>1
  <2>2. ASSUME NEW b \in 1 .. Len(lines), lines[b].node = n,
               \A k \in 1 .. b - 1 : lines[k].node # n
        PROVE  b = a
    <3>1. a <= b
      BY <1>2, <2>2
    <3>2. ~(a < b)
      <4>1. a < b => a \in 1 .. b - 1
        BY <1>1, <2>1
      <4> QED BY <2>1, <2>2, <4>1
    <3> QED BY <1>1, <2>1, <3>1, <3>2
  <2> QED BY <1>1, <2>1, <2>2 DEF FirstLine
<1> DEFINE Rest == {Len(lines) - l : l \in On}
<1>4. PICK r \in Rest : \A t \in Rest : r <= t
  <2>1. Rest \in SUBSET Nat /\ Len(lines) - x \in Rest
    BY <1>1
  <2> HIDE DEF Rest
  <2> QED BY <2>1, LeastElement
<1>5. PICK z \in On : r = Len(lines) - z
  BY <1>4
<1>6. ASSUME NEW l \in On
      PROVE  l <= z
  <2>1. Len(lines) - l \in Rest
    OBVIOUS
  <2>2. Len(lines) - z <= Len(lines) - l
    BY <1>4, <1>5, <2>1
  <2> QED BY <1>1, <2>2
<1>7. LastLine(lines, n) = z
  <2>1. /\ z \in 1 .. Len(lines) /\ lines[z].node = n
        /\ \A k \in z + 1 .. Len(lines) : lines[k].node # n
    <3>1. \A k \in z + 1 .. Len(lines) : k \in 1 .. Len(lines) /\ ~(k <= z)
      BY <1>1, <1>5
    <3> QED BY <1>5, <1>6, <3>1
  <2>2. ASSUME NEW b \in 1 .. Len(lines), lines[b].node = n,
               \A k \in b + 1 .. Len(lines) : lines[k].node # n
        PROVE  b = z
    <3>1. b <= z
      BY <1>6, <2>2
    <3>2. ~(b < z)
      <4>1. b < z => z \in b + 1 .. Len(lines)
        BY <1>1, <2>1
      <4> QED BY <2>1, <2>2, <4>1
    <3> QED BY <1>1, <2>1, <3>1, <3>2
  <2> QED BY <1>1, <2>1, <2>2 DEF LastLine
<1> QED BY <1>2, <1>3, <1>5, <1>6, <1>7

(* In a file the lines of one node are before those of the next. *)
LEMMA NodesOnLines ==
  ASSUME NEW p, NEW lines, NEW o, InOrder(p, lines, o), NEW u \in 1 .. Len(p)
  PROVE  /\ o[u] \in 1 .. Len(p)
         /\ FirstLine(lines, o[u]) \in 1 .. Len(lines) /\ lines[FirstLine(lines, o[u])].node = o[u]
         /\ LastLine(lines, o[u]) \in 1 .. Len(lines) /\ lines[LastLine(lines, o[u])].node = o[u]
         /\ \A l \in 1 .. Len(lines) : lines[l].node = o[u] =>
              FirstLine(lines, o[u]) <= l /\ l <= LastLine(lines, o[u])
<1>1. PICK x \in 1 .. Len(lines) : lines[x].node = o[u]
  BY DEF InOrder
<1>2. p \in Program /\ lines \in Lines(p) /\ o[u] \in 1 .. Len(p)
  BY DEF InOrder
<1> QED BY <1>1, <1>2, FirstAndLast

(* The position of a node is on one of its lines. *)
LEMMA PosOnLine ==
  ASSUME NEW p, NEW lines, NEW o, InOrder(p, lines, o), NEW u \in 1 .. Len(p)
  PROVE  /\ PosOf(p, lines, o)[u] = PosLine(lines, o[u])
         /\ PosOf(p, lines, o)[u] \in 1 .. Len(lines)
         /\ lines[PosOf(p, lines, o)[u]].node = o[u] /\ lines[PosOf(p, lines, o)[u]].pos
         /\ FirstLine(lines, o[u]) <= PosOf(p, lines, o)[u]
         /\ PosOf(p, lines, o)[u] <= LastLine(lines, o[u])
<1>1. PosOf(p, lines, o)[u] = PosLine(lines, o[u])
  BY DEF PosOf
<1>2. DOMAIN lines = 1 .. Len(lines)
  BY LineTypes DEF InOrder
<1>3. \E l \in DOMAIN lines : lines[l].node = o[u] /\ lines[l].pos
  BY <1>2 DEF InOrder
<1>4. /\ PosLine(lines, o[u]) \in DOMAIN lines
      /\ lines[PosLine(lines, o[u])].node = o[u] /\ lines[PosLine(lines, o[u])].pos
  BY <1>3 DEF PosLine
<1>5. PICK x : x = PosLine(lines, o[u])
  OBVIOUS
<1>6. x \in 1 .. Len(lines) /\ lines[x].node = o[u] /\ lines[x].pos
  BY <1>2, <1>4, <1>5
<1>7. FirstLine(lines, o[u]) <= x /\ x <= LastLine(lines, o[u])
  BY <1>6, NodesOnLines
<1>8. PosOf(p, lines, o)[u] = x
  BY <1>1, <1>5
<1> QED BY <1>1, <1>6, <1>7, <1>8

(* The lines of a node are all above those of the next nodes in the order. *)
LEMMA OrderOfLines ==
  ASSUME NEW p, NEW lines, NEW o, InOrder(p, lines, o), NEW u \in 1 .. Len(p), NEW w \in 1 .. Len(p)
  PROVE  /\ u < w => LastLine(lines, o[u]) < FirstLine(lines, o[w])
         /\ FirstLine(lines, o[u]) < FirstLine(lines, o[w]) <=> u < w
         /\ o[u] = o[w] => u = w
<1>1. Len(p) \in Nat /\ Len(lines) \in Nat
  BY LineTypes DEF InOrder
<1> DEFINE F(x) == FirstLine(lines, o[x])
           Z(x) == LastLine(lines, o[x])
<1>2. /\ F(u) \in 1 .. Len(lines) /\ F(w) \in 1 .. Len(lines) /\ Z(u) \in 1 .. Len(lines)
      /\ Z(w) \in 1 .. Len(lines) /\ F(u) <= Z(u) /\ F(w) <= Z(w)
      /\ lines[F(u)].node = o[u] /\ lines[F(w)].node = o[w]
      /\ lines[Z(u)].node = o[u] /\ lines[Z(w)].node = o[w]
  BY NodesOnLines
<1>3. (u < w => Z(u) < F(w)) /\ (w < u => Z(w) < F(u))
  <2>1. \A x, y \in 1 .. Len(p) : \A k, l \in 1 .. Len(lines) :
          x < y /\ lines[k].node = o[x] /\ lines[l].node = o[y] => k < l
    BY DEF InOrder
  <2> HIDE DEF F, Z
  <2> QED BY <1>2, <2>1
<1>4. u < w \/ u = w \/ w < u
  BY <1>1
<1> HIDE DEF F, Z
<1>5. (u < w => Z(u) < F(w)) /\ (F(u) < F(w) <=> u < w)
  BY <1>1, <1>2, <1>3, <1>4
<1>6. o[u] = o[w] => u = w
  <2>1. o[u] = o[w] => F(u) = F(w)
    BY DEF F
  <2> QED BY <1>1, <1>2, <1>3, <1>4, <2>1
<1> QED BY <1>5, <1>6 DEF F, Z

(* Numbers in their order. *)
LEMMA NumbersInOrder ==
  ASSUME NEW S \in SUBSET Nat
  PROVE  /\ TotalOrder(S, {q \in S \X S : q[1] < q[2]})
         /\ \A x, y \in S : <<x, y>> \in {q \in S \X S : q[1] < q[2]} <=> x < y
<1> DEFINE R == {q \in S \X S : q[1] < q[2]}
<1>1. \A x, y \in S : <<x, y>> \in R <=> x < y
  OBVIOUS
<1>2. \A x, y, z \in S : /\ ~(x < x) /\ (x = y \/ x < y \/ y < x)
                         /\ x < y /\ y < z => x < z
  OBVIOUS
<1> HIDE DEF R
<1>3. TotalOrder(S, R)
  BY <1>1, <1>2 DEF TotalOrder
<1> QED BY <1>1, <1>3 DEF R

(* The comments of a file are the ones of its lines, from the top. *)
LEMMA CommentsInOrder ==
  ASSUME NEW p \in Program, NEW lines \in Lines(p), NEW nt, nt = ExtractComments(lines)
  PROVE  /\ nt \in Seq(Nat) /\ \A x, y \in 1 .. Len(nt) : x < y => nt[x] < nt[y]
         /\ \A q \in 1 .. Len(nt) : nt[q] \in 1 .. Len(lines) /\ lines[nt[q]].note # None
         /\ \A l \in 1 .. Len(lines) : lines[l].note # None => \E q \in 1 .. Len(nt) : nt[q] = l
<1> DEFINE S == {l \in DOMAIN lines : lines[l].note # None}
           R == {q \in S \X S : q[1] < q[2]}
<1>1. Len(lines) \in Nat /\ DOMAIN lines = 1 .. Len(lines)
  BY LineTypes
<1>2. S \in SUBSET Nat /\ S \in SUBSET (1 .. Len(lines)) /\ IsFiniteSet(1 .. Len(lines))
  BY <1>1, FS_Interval
<1>3. IsFiniteSet(S)
  BY <1>2, FS_Subset
<1> PICK n \in Nat : n = Cardinality(S)
  BY <1>3, FS_CardinalityType
<1>4. nt = Listed(S, R)
  BY DEF ExtractComments
<1> HIDE DEF S
<1>5. TotalOrder(S, R) /\ \A x, y \in S : <<x, y>> \in R <=> x < y
  BY <1>2, NumbersInOrder
<1> HIDE DEF R
<1>6. Enumerates(nt, n, S, R)
  BY <1>3, <1>4, <1>5, ListedEnumerates
<1>7. nt \in [1 .. n -> S] /\ (\A x \in S : \E i \in 1 .. n : nt[i] = x)
      /\ \A i, j \in 1 .. n : i < j => <<nt[i], nt[j]>> \in R
  BY <1>6 DEF Enumerates
<1>8. nt \in [1 .. n -> Nat]
  BY <1>2, <1>7
<1>9. nt \in Seq(Nat) /\ Len(nt) = n
  BY <1>8
<1>10. \A x, y \in 1 .. n : x < y => nt[x] < nt[y]
  BY <1>5, <1>7
<1>11. \A q \in 1 .. n : nt[q] \in 1 .. Len(lines) /\ lines[nt[q]].note # None
  BY <1>1, <1>7 DEF S
<1>12. \A l \in 1 .. Len(lines) : lines[l].note # None => l \in S
  BY <1>1 DEF S
<1> QED BY <1>7, <1>9, <1>10, <1>11, <1>12

(* The parser lists the nodes in the order of their lines. *)
LEMMA ParsedInOrder ==
  ASSUME NEW p, NEW lines, NEW o, InOrder(p, lines, o)
  PROVE  Parsed(lines) = o
<1> DEFINE S == {lines[l].node : l \in DOMAIN lines} \ {0}
           R == {q \in S \X S : FirstLine(lines, q[1]) < FirstLine(lines, q[2])}
<1>1. /\ Len(p) \in Nat /\ Len(lines) \in Nat /\ DOMAIN lines = 1 .. Len(lines)
      /\ \A l \in 1 .. Len(lines) : lines[l].node \in 0 .. Len(p)
  BY LineTypes DEF InOrder
<1>2. S = 1 .. Len(p)
  <2>1. ASSUME NEW n \in 1 .. Len(p) PROVE n \in S
    <3>1. PICK u \in 1 .. Len(p) : o[u] = n
      BY DEF InOrder
    <3>2. PICK l \in 1 .. Len(lines) : lines[l].node = n
      BY <3>1 DEF InOrder
    <3> QED BY <1>1, <3>2
  <2>2. S \subseteq 1 .. Len(p)
    BY <1>1
  <2> QED BY <2>1, <2>2
<1>3. Parsed(lines) = Listed(S, R)
  BY DEF Parsed
<1> HIDE DEF S
<1>4. \A x, y \in S : <<x, y>> \in R <=> FirstLine(lines, x) < FirstLine(lines, y)
  OBVIOUS
<1> HIDE DEF R
<1>5. ASSUME NEW u \in 1 .. Len(p), NEW w \in 1 .. Len(p)
      PROVE  /\ o[u] \in S /\ (<<o[u], o[w]>> \in R <=> u < w)
             /\ o[u] = o[w] => u = w
  <2>1. o[u] \in S /\ o[w] \in S
    BY <1>2 DEF InOrder
  <2> QED BY <1>4, <2>1, OrderOfLines
<1>6. o \in [1 .. Len(p) -> S] /\ \A x \in S : \E u \in 1 .. Len(p) : o[u] = x
  BY <1>2 DEF InOrder
<1>7. TotalOrder(S, R)
  <2>1. ASSUME NEW x \in S, NEW y \in S, NEW z \in S
        PROVE  /\ <<x, x>> \notin R /\ (x = y \/ <<x, y>> \in R \/ <<y, x>> \in R)
               /\ <<x, y>> \in R /\ <<y, z>> \in R => <<x, z>> \in R
    <3>1. PICK u \in 1 .. Len(p) : o[u] = x
      BY <1>6
    <3>2. PICK v \in 1 .. Len(p) : o[v] = y
      BY <1>6
    <3>3. PICK w \in 1 .. Len(p) : o[w] = z
      BY <1>6
    <3>4. ~(u < u) /\ (u = v \/ u < v \/ v < u) /\ (u < v /\ v < w => u < w)
      BY <1>1
    <3>5. /\ <<x, x>> \in R <=> u < u
          /\ <<x, y>> \in R <=> u < v
          /\ <<y, x>> \in R <=> v < u
          /\ <<y, z>> \in R <=> v < w
          /\ <<x, z>> \in R <=> u < w
      BY <1>5, <3>1, <3>2, <3>3
    <3> QED BY <3>1, <3>2, <3>4, <3>5
  <2> QED BY <2>1 DEF TotalOrder
<1>8. Enumerates(o, Len(p), S, R)
  BY <1>5, <1>6 DEF Enumerates
<1>9. Listed(S, R) = o
  BY <1>1, <1>7, <1>8, EnumerationIsListed
<1> QED BY <1>3, <1>9

(* What the walk over a file goes by is as the walk needs it. *)
LEMMA WalkOfFile ==
  ASSUME NEW p, NEW lines, NEW o, InOrder(p, lines, o)
  PROVE  WalkOf(Len(p), PosOf(p, lines, o), DepOf(p, o), VisOf(p, o), ExtractComments(lines))
<1> DEFINE pos == PosOf(p, lines, o)
<1>1. p \in Program /\ lines \in Lines(p) /\ Len(p) \in Nat /\ Len(lines) \in Nat
  BY LineTypes DEF InOrder
<1>2. \A u \in 1 .. Len(p) : o[u] \in 1 .. Len(p) /\ p[o[u]].depth \in Nat
  BY <1>1, LineTypes DEF InOrder
<1>3. DepOf(p, o) \in [1 .. Len(p) -> Nat] /\ VisOf(p, o) \subseteq 1 .. Len(p)
  BY <1>2 DEF DepOf, VisOf
<1>4. ASSUME NEW u \in 1 .. Len(p)
      PROVE  /\ pos[u] \in 1 .. Len(lines)
             /\ FirstLine(lines, o[u]) <= pos[u] /\ pos[u] <= LastLine(lines, o[u])
  BY PosOnLine
<1>5. ASSUME NEW u \in 1 .. Len(p), NEW w \in 1 .. Len(p), u < w
      PROVE  pos[u] < pos[w]
  <2>1. LastLine(lines, o[u]) < FirstLine(lines, o[w])
    BY <1>5, OrderOfLines
  <2>2. /\ LastLine(lines, o[u]) \in 1 .. Len(lines) /\ FirstLine(lines, o[w]) \in 1 .. Len(lines)
        /\ pos[u] \in 1 .. Len(lines) /\ pos[w] \in 1 .. Len(lines)
        /\ pos[u] <= LastLine(lines, o[u]) /\ FirstLine(lines, o[w]) <= pos[w]
    BY <1>4, NodesOnLines
  <2> HIDE DEF pos
  <2> QED BY <1>1, <2>1, <2>2
<1>6. pos \in [1 .. Len(p) -> Nat]
  <2>1. \A u \in 1 .. Len(p) : pos[u] \in Nat
    BY <1>1, <1>4
  <2> QED BY <2>1 DEF PosOf
<1> HIDE DEF pos
<1>7. WalkOf(Len(p), pos, DepOf(p, o), VisOf(p, o), ExtractComments(lines))
  BY <1>1, <1>3, <1>5, <1>6, CommentsInOrder DEF WalkOf
<1> QED BY <1>7 DEF pos

(* In the file to format the nodes come in the order of the program. *)
Straight(p) == [n \in 1 .. Len(p) |-> n]

(* A file the parser accepts has its nodes in the order of the program. *)
LEMMA SourceInOrder ==
  ASSUME NEW p, NEW lines, FileOK(p, lines)
  PROVE  InOrder(p, lines, Straight(p))
<1>1. p \in Program /\ lines \in Lines(p)
  BY DEF FileOK, Program, Node, Lines
<1>2. /\ Len(p) \in Nat /\ Len(lines) \in Nat
      /\ \A l \in 1 .. Len(lines) : lines[l].node \in 0 .. Len(p)
  BY <1>1, LineTypes
<1> DEFINE o == Straight(p)
<1>3. o \in [1 .. Len(p) -> 1 .. Len(p)] /\ \A n \in 1 .. Len(p) : o[n] = n
  BY DEF Straight
<1> HIDE DEF o
<1>4. \A u \in 1 .. Len(p) : \E l \in 1 .. Len(lines) : lines[l].node = o[u] /\ lines[l].pos
  BY <1>3 DEF FileOK
<1>5. ASSUME NEW u \in 1 .. Len(p), NEW w \in 1 .. Len(p), NEW k \in 1 .. Len(lines),
             NEW l \in 1 .. Len(lines), u < w, lines[k].node = u, lines[l].node = w
      PROVE  k < l
  <2>1. l < k => lines[l].node <= lines[k].node
    <3>1. lines[k].node # 0
      BY <1>2, <1>5
    <3> QED BY <3>1 DEF FileOK
  <2>2. l # k /\ ~(w <= u)
    BY <1>2, <1>5
  <2> QED BY <1>2, <1>5, <2>1, <2>2
<1>6. \A u, w \in 1 .. Len(p) : \A k, l \in 1 .. Len(lines) :
        u < w /\ lines[k].node = o[u] /\ lines[l].node = o[w] => k < l
  BY <1>3, <1>5
<1>7. InOrder(p, lines, o)
  BY <1>1, <1>3, <1>4, <1>6 DEF InOrder
<1> QED BY <1>7 DEF o

(* The comments not taken yet that are above a line are the next ones. *)
NumberAbove(nt, i, l) == Cardinality({q \in i .. Len(nt) : nt[q] < l})

(* Counting the comments above a line gives the index of the first one that is not. *)
LEMMA NextAbove ==
  ASSUME NEW nt \in Seq(Nat), \A x, y \in 1 .. Len(nt) : x < y => nt[x] < nt[y],
         NEW i \in 1 .. Len(nt) + 1, NEW l \in Nat,
         NEW c, c = NumberAbove(nt, i, l)
  PROVE  /\ i + c \in i .. Len(nt) + 1
         /\ \A q \in i .. Len(nt) : nt[q] < l <=> q < i + c
<1>1. Len(nt) \in Nat /\ \A q \in 1 .. Len(nt) : nt[q] \in Nat
  BY ElementOfSeq, LenProperties
<1> DEFINE D == {q \in i .. Len(nt) : nt[q] < l}
           E == (i .. Len(nt) + 1) \ D
<1>2. PICK t \in E : \A y \in E : t <= y
  <2>1. E \in SUBSET Nat /\ Len(nt) + 1 \in E
    BY <1>1
  <2> HIDE DEF E
  <2> QED BY <2>1, LeastElement
<1>3. t \in i .. Len(nt) + 1 /\ t \notin D
  BY <1>2
<1>4. \A q \in i .. t - 1 : q \in D
  <2>1. \A q \in i .. t - 1 : q \in i .. Len(nt) + 1 /\ ~(t <= q)
    BY <1>1, <1>3
  <2> QED BY <1>2, <2>1
<1>5. ASSUME NEW q \in D, t <= q
      PROVE  FALSE
  <2>1. t < q /\ t \in 1 .. Len(nt) /\ q \in 1 .. Len(nt) /\ t \in i .. Len(nt)
    BY <1>1, <1>3, <1>5
  <2>2. nt[t] < nt[q] /\ nt[q] < l /\ nt[t] \in Nat /\ nt[q] \in Nat
    BY <1>1, <2>1
  <2> QED BY <1>3, <2>1, <2>2
<1>6. D = i .. t - 1
  <2>1. \A q \in D : q \in i .. t - 1
    BY <1>1, <1>3, <1>5
  <2> QED BY <1>4, <2>1
<1>7. \A q \in i .. Len(nt) : nt[q] < l <=> q < t
  <2>1. \A q \in i .. Len(nt) : q \in i .. t - 1 <=> q < t
    BY <1>3
  <2>2. \A q \in i .. Len(nt) : nt[q] < l <=> q \in D
    OBVIOUS
  <2> QED BY <1>6, <2>1, <2>2
<1> HIDE DEF D
<1>8. Cardinality(i .. t - 1) = t - i
  <2>1. i \in Int /\ t - 1 \in Int /\ (t - 1) - i + 1 = t - i /\ (i > t - 1 => t - i = 0)
    BY <1>1, <1>3
  <2> QED BY <2>1, FS_Interval
<1>9. i + c = t
  <2>1. c = t - i
    BY <1>6, <1>8 DEF D, NumberAbove
  <2> QED BY <1>1, <1>3, <2>1
<1> QED BY <1>3, <1>7, <1>9

(* The stack of nodes the walk is inside of, as numbers of the walk. *)
StackOf(st, nodes, o) ==
  /\ st \in Seq(Nat) /\ Len(nodes) = Len(st)
  /\ \A k \in 1 .. Len(st) : nodes[k] = o[st[k]]
  /\ \A j, k \in 1 .. Len(st) : j < k => st[j] < st[k]

(* Entering a node puts it on top. *)
LEMMA StackPush ==
  ASSUME NEW T, NEW nodes \in Seq(T), NEW o, NEW st, StackOf(st, nodes, o),
         NEW u \in Nat, \A v \in Range(st) : v < u, o[u] \in T
  PROVE  /\ StackOf(Append(st, u), Append(nodes, o[u]), o)
         /\ Range(Append(st, u)) = Range(st) \cup {u}
<1>1. st \in Seq(Nat) /\ Len(nodes) = Len(st) /\ Len(st) \in Nat /\ DOMAIN st = 1 .. Len(st)
  BY LenProperties DEF StackOf
<1> DEFINE st2 == Append(st, u)
           n2 == Append(nodes, o[u])
<1>2. /\ st2 \in Seq(Nat) /\ Len(st2) = Len(st) + 1 /\ st2[Len(st) + 1] = u
      /\ \A k \in 1 .. Len(st) : st2[k] = st[k]
  BY <1>1, AppendProperties
<1>3. /\ Len(n2) = Len(st) + 1 /\ n2[Len(st) + 1] = o[u]
      /\ \A k \in 1 .. Len(st) : n2[k] = nodes[k]
  BY <1>1, AppendProperties
<1> HIDE DEF st2, n2
<1>4. \A k \in 1 .. Len(st) + 1 : k \in 1 .. Len(st) \/ k = Len(st) + 1
  BY <1>1
<1>5. \A k \in 1 .. Len(st) : st[k] < u
  BY <1>1 DEF Range
<1>6. \A k \in 1 .. Len(st) + 1 : n2[k] = o[st2[k]]
  BY <1>2, <1>3, <1>4 DEF StackOf
<1>7. ASSUME NEW j \in 1 .. Len(st) + 1, NEW k \in 1 .. Len(st) + 1, j < k
      PROVE  st2[j] < st2[k]
  <2>1. j \in 1 .. Len(st)
    BY <1>1, <1>7
  <2>2. CASE k = Len(st) + 1
    BY <1>2, <1>5, <2>1, <2>2
  <2>3. CASE k \in 1 .. Len(st)
    BY <1>2, <1>7, <2>1, <2>3 DEF StackOf
  <2> QED BY <1>4, <2>2, <2>3
<1>8. StackOf(st2, n2, o)
  BY <1>2, <1>3, <1>6, <1>7 DEF StackOf
<1>9. Range(st2) = Range(st) \cup {u}
  <2>1. DOMAIN st2 = 1 .. Len(st) + 1 /\ Len(st) + 1 \in 1 .. Len(st) + 1
    BY <1>1, <1>2
  <2>2. \A k \in 1 .. Len(st) : k \in 1 .. Len(st) + 1
    BY <1>1
  <2> QED BY <1>1, <1>2, <1>4, <2>1, <2>2 DEF Range
<1> QED BY <1>8, <1>9 DEF st2, n2

(* The top of the stack is the last node the walk has entered. *)
TopIs(st, nodes, o) ==
  /\ Last(nodes) = o[Last(st)] /\ Last(st) \in Range(st) /\ Last(st) \in Nat
  /\ \A v \in Range(st) : v <= Last(st)

(* Leaving a node takes the top away. *)
LEMMA StackPop ==
  ASSUME NEW T, NEW nodes \in Seq(T), nodes # <<>>, NEW o, NEW st, StackOf(st, nodes, o)
  PROVE  /\ TopIs(st, nodes, o)
         /\ StackOf(Front(st), Front(nodes), o) /\ Front(nodes) \in Seq(T)
         /\ Range(Front(st)) = Range(st) \ {Last(st)}
<1>1. st \in Seq(Nat) /\ Len(nodes) = Len(st) /\ Len(st) \in Nat /\ DOMAIN st = 1 .. Len(st)
      /\ \A k \in 1 .. Len(st) : st[k] \in Nat
  BY LenProperties, ElementOfSeq DEF StackOf
<1> PICK z \in Nat : z = Len(st)
  BY <1>1
<1>2. z > 0 /\ z \in 1 .. z
  BY <1>1, EmptySeq
<1>3. Last(st) = st[z] /\ Last(nodes) = nodes[z]
  BY <1>1 DEF Last
<1>4. Last(nodes) = o[Last(st)] /\ Last(st) \in Range(st) /\ Last(st) \in Nat
  BY <1>1, <1>2, <1>3 DEF StackOf, Range
<1>5. \A k \in 1 .. z : st[k] < st[z] \/ k = z
  <2>1. \A k \in 1 .. z : k < z \/ k = z
    OBVIOUS
  <2> QED BY <1>1, <1>2, <2>1 DEF StackOf
<1>6. \A v \in Range(st) : v <= Last(st)
  BY <1>1, <1>3, <1>5 DEF Range
<1>7. Front(st) = [k \in 1 .. z - 1 |-> st[k]] /\ Front(nodes) = [k \in 1 .. z - 1 |-> nodes[k]]
  BY <1>1 DEF Front
<1> DEFINE st2 == Front(st)
           n2 == Front(nodes)
<1>8. \A k \in 1 .. z - 1 : k \in 1 .. z /\ k # z
  OBVIOUS
<1>9. \A k \in 1 .. z : nodes[k] \in T
  BY <1>1, ElementOfSeq
<1>10. /\ st2 \in Seq(Nat) /\ Len(st2) = z - 1 /\ DOMAIN st2 = 1 .. z - 1
       /\ n2 \in Seq(T) /\ Len(n2) = z - 1
       /\ \A k \in 1 .. z - 1 : st2[k] = st[k] /\ n2[k] = nodes[k]
  <2>1. \A k \in 1 .. z - 1 : st[k] \in Nat /\ nodes[k] \in T
    BY <1>1, <1>8, <1>9
  <2>2. z - 1 \in Nat
    BY <1>2
  <2> QED BY <1>7, <2>1, <2>2
<1> HIDE DEF st2, n2
<1>11. StackOf(st2, n2, o)
  BY <1>1, <1>8, <1>10 DEF StackOf
<1>12. Range(st2) = Range(st) \ {st[z]}
  <2>1. \A k \in 1 .. z - 1 : st[k] # st[z]
    BY <1>1, <1>2, <1>5, <1>8
  <2>2. \A k \in 1 .. z : k = z \/ k \in 1 .. z - 1
    OBVIOUS
  <2>3. Range(st) = {st[k] : k \in 1 .. z} /\ Range(st2) = {st2[k] : k \in 1 .. z - 1}
    BY <1>1, <1>10 DEF Range
  <2>4. ASSUME NEW v \in Range(st2)
        PROVE  v \in Range(st) \ {st[z]}
    <3>1. PICK k \in 1 .. z - 1 : v = st2[k]
      BY <2>3
    <3>2. v = st[k] /\ k \in 1 .. z /\ v # st[z]
      BY <1>8, <1>10, <2>1, <3>1
    <3> QED BY <2>3, <3>2
  <2>5. \A v \in Range(st) \ {st[z]} : v \in Range(st2)
    BY <1>10, <2>2, <2>3
  <2> QED BY <2>4, <2>5
<1>13. TopIs(st, nodes, o)
  BY <1>4, <1>6 DEF TopIs
<1> QED BY <1>3, <1>10, <1>11, <1>12, <1>13 DEF st2, n2

(* The walk over a file with the nodes in the order o. *)
InWalk(p, lines, o, nt, i, a, S, ld, tr) ==
  Walk(Len(p), PosOf(p, lines, o), DepOf(p, o), VisOf(p, o), nt, NotesOf(lines, nt),
       i, a, S, Along(ld, p, o), Along(tr, p, o))

(* Giving something to a node gives it to its place in the order. *)
Replaced(f, u, x) == [f EXCEPT ![u] = x]

(* It does not matter whether the gift is looked up by node or by place. *)
LEMMA AlongExcept ==
  ASSUME NEW p, NEW lines, NEW o, InOrder(p, lines, o), NEW u \in 1 .. Len(p),
         NEW f, DOMAIN f = 1 .. Len(p), NEW x
  PROVE  Along(Replaced(f, o[u], x), p, o) = Replaced(Along(f, p, o), u, x)
<1>0. \A w \in 1 .. Len(p) : o[w] \in 1 .. Len(p)
  BY DEF InOrder
<1>1. \A w \in 1 .. Len(p) : o[w] \in 1 .. Len(p) /\ (o[w] = o[u] => w = u)
  BY <1>0, OrderOfLines
<1>2. \A w \in 1 .. Len(p) : [f EXCEPT ![o[u]] = x][o[w]] = IF w = u THEN x ELSE f[o[w]]
  BY <1>1
<1> QED BY <1>2 DEF Along, Replaced

(* Before the first node the walk is correct: nothing is taken, nothing is given. *)
LEMMA FileStart ==
  ASSUME NEW p, NEW lines, NEW o, InOrder(p, lines, o), NEW nt, nt = ExtractComments(lines),
         NEW ld, ld = [n \in 1 .. Len(p) |-> <<>>], NEW tr, tr = [n \in 1 .. Len(p) |-> None]
  PROVE  InWalk(p, lines, o, nt, 1, 0, {}, ld, tr)
<1> DEFINE m   == Len(p)
           pos == PosOf(p, lines, o)
           dep == DepOf(p, o)
           vis == VisOf(p, o)
           cm  == NotesOf(lines, nt)
<1>1. WalkOf(m, pos, dep, vis, nt)
  BY WalkOfFile
<1>2. m \in Nat /\ vis \subseteq 1 .. m /\ Len(nt) \in Nat
  BY <1>1, LenProperties DEF WalkOf
<1>3. \A u \in 1 .. m : o[u] \in 1 .. m
  BY DEF InOrder
<1>4. /\ DOMAIN Along(ld, p, o) = 1 .. m /\ DOMAIN Along(tr, p, o) = 1 .. m
      /\ \A u \in 1 .. m : Along(ld, p, o)[u] = <<>> /\ Along(tr, p, o)[u] = None
  BY <1>3 DEF Along
<1> HIDE DEF m, pos, dep, vis, cm
<1>5. \A u \in 1 .. m : ~(u <= 0)
  BY <1>2
<1>6. WalkAt(m, pos, dep, vis, nt, 1, 0, {})
  BY <1>2 DEF WalkAt
<1>7. WalkTaken(m, pos, dep, vis, nt, 1, 0, {})
  <2>1. \A q \in 1 .. 1 - 1 : FALSE
    OBVIOUS
  <2>2. \A u \in vis : ~(u <= 0)
    BY <1>2, <1>5
  <2> QED BY <2>1, <2>2 DEF WalkTaken
<1>8. WalkGiven(m, pos, dep, vis, nt, cm, 0, {}, Along(ld, p, o), Along(tr, p, o))
  BY <1>4, <1>5 DEF WalkGiven
<1>9. Walk(m, pos, dep, vis, nt, cm, 1, 0, {}, Along(ld, p, o), Along(tr, p, o))
  BY <1>1, <1>6, <1>7, <1>8 DEF Walk
<1> QED BY <1>9 DEF InWalk, m, pos, dep, vis, cm

(* Arriving at a node of the file keeps the walk correct (attachLeadingComments). *)
LEMMA FileArrive ==
  ASSUME NEW p, NEW lines, NEW o, InOrder(p, lines, o), NEW nt, NEW i, NEW a, NEW S, NEW ld, NEW tr,
         InWalk(p, lines, o, nt, i, a, S, ld, tr), DOMAIN ld = 1 .. Len(p),
         Steps(Len(p), DepOf(p, o), a, S), p[o[a + 1]].kind # "section",
         NEW c, c = Cardinality({q \in i .. Len(nt) : nt[q] < PosOf(p, lines, o)[a + 1]}),
         NEW x, x = [k \in 1 .. (i + c) - i |-> lines[nt[i + k - 1]].note]
  PROVE  /\ InWalk(p, lines, o, nt, i + c, a + 1, S \cup {a + 1}, [ld EXCEPT ![o[a + 1]] = x], tr)
         /\ i + c \in i .. Len(nt) + 1
<1> DEFINE m   == Len(p)
           pos == PosOf(p, lines, o)
           dep == DepOf(p, o)
           vis == VisOf(p, o)
           cm  == NotesOf(lines, nt)
           ld2 == [ld EXCEPT ![o[a + 1]] = x]
<1>1. Walk(m, pos, dep, vis, nt, cm, i, a, S, Along(ld, p, o), Along(tr, p, o))
  BY DEF InWalk
<1> HIDE DEF m, pos, dep, vis, cm, ld2
<1>2. WalkOf(m, pos, dep, vis, nt) /\ WalkAt(m, pos, dep, vis, nt, i, a, S)
  BY <1>1 DEF Walk
<1>3. /\ m \in Nat /\ a \in Nat /\ i \in Nat /\ i >= 1 /\ i <= Len(nt) + 1 /\ Len(nt) \in Nat
      /\ pos \in [1 .. m -> Nat] /\ a < m
  <2>1. a < m
    BY DEF Steps, m
  <2> QED BY <1>2, <2>1, WalkTypes
<1>4. a + 1 \in 1 .. m /\ a + 1 \in vis /\ pos[a + 1] \in Nat
  BY <1>3 DEF vis, VisOf, m
<1>5. i \in 1 .. Len(nt) + 1 /\ nt \in Seq(Nat) /\ \A u, w \in 1 .. Len(nt) : u < w => nt[u] < nt[w]
  BY <1>2 DEF WalkOf, WalkAt
<1> PICK l \in Nat : l = pos[a + 1]
  BY <1>4
<1>6. /\ i + c \in i .. Len(nt) + 1
      /\ \A q \in i .. Len(nt) : nt[q] < pos[a + 1] <=> q < i + c
  <2>1. c = NumberAbove(nt, i, l)
    BY DEF pos, NumberAbove
  <2>2. /\ i + c \in i .. Len(nt) + 1
        /\ \A q \in i .. Len(nt) : nt[q] < l <=> q < i + c
    BY ONLY <1>5, <2>1, l \in Nat, NextAbove
  <2> QED BY <2>2
<1> PICK j \in i .. Len(nt) + 1 : j = i + c
  BY <1>6
<1>7. x = [k \in 1 .. j - i |-> cm[i + k - 1]]
  <2>1. \A k \in 1 .. j - i : i + k - 1 \in 1 .. Len(nt)
    BY <1>3
  <2>2. \A k \in 1 .. j - i : cm[i + k - 1] = lines[nt[i + k - 1]].note
    BY <2>1 DEF cm, NotesOf
  <2> QED BY <2>2
<1>8. Along(ld2, p, o) = [Along(ld, p, o) EXCEPT ![a + 1] = x]
  <2>1. a + 1 \in 1 .. Len(p) /\ DOMAIN ld = 1 .. Len(p)
    BY <1>4 DEF m
  <2>2. Along(Replaced(ld, o[a + 1], x), p, o) = Replaced(Along(ld, p, o), a + 1, x)
    BY ONLY <2>1, InOrder(p, lines, o), AlongExcept
  <2> QED BY <2>2 DEF ld2, Replaced
<1>9. Steps(m, dep, a, S)
  BY DEF m, dep
<1>10. \A q \in i .. Len(nt) : nt[q] < pos[a + 1] <=> q < j
  BY <1>6
<1>11. Walk(m, pos, dep, vis, nt, cm, j, a + 1, S \cup {a + 1},
            [Along(ld, p, o) EXCEPT ![a + 1] = [k \in 1 .. j - i |-> cm[i + k - 1]]], Along(tr, p, o))
  BY ONLY <1>1, <1>4, <1>9, <1>10, j \in i .. Len(nt) + 1, ArriveKeeps
<1>12. Walk(m, pos, dep, vis, nt, cm, j, a + 1, S \cup {a + 1}, Along(ld2, p, o), Along(tr, p, o))
  BY <1>7, <1>8, <1>11
<1>13. InWalk(p, lines, o, nt, j, a + 1, S \cup {a + 1}, ld2, tr)
  BY <1>12 DEF InWalk, m, pos, dep, vis, cm
<1> QED BY <1>6, <1>13 DEF ld2

(* Passing by a line that is no node keeps the walk correct. *)
LEMMA FilePass ==
  ASSUME NEW p, NEW lines, NEW o, InOrder(p, lines, o), NEW nt, NEW i, NEW a, NEW S, NEW ld, NEW tr,
         InWalk(p, lines, o, nt, i, a, S, ld, tr),
         Steps(Len(p), DepOf(p, o), a, S), p[o[a + 1]].kind = "section"
  PROVE  InWalk(p, lines, o, nt, i, a + 1, S, ld, tr)
<1>1. a + 1 \notin VisOf(p, o)
  BY DEF VisOf
<1> QED BY <1>1, PassKeeps DEF InWalk

(* Leaving a node of the file keeps the walk correct (attachTrailingComment). *)
LEMMA FileLeave ==
  ASSUME NEW p, NEW lines, NEW o, InOrder(p, lines, o), NEW nt, NEW i, NEW a, NEW S, NEW ld, NEW tr,
         InWalk(p, lines, o, nt, i, a, S, ld, tr), DOMAIN tr = 1 .. Len(p),
         NEW u, Leaves(Len(p), DepOf(p, o), a, S, u),
         NEW beside, beside \in BOOLEAN, beside <=> i <= Len(nt) /\ nt[i] = PosOf(p, lines, o)[u],
         NEW tr2, tr2 = IF beside THEN [tr EXCEPT ![o[u]] = lines[nt[i]].note] ELSE tr,
         NEW j, j = IF beside THEN i + 1 ELSE i
  PROVE  InWalk(p, lines, o, nt, j, a, S \ {u}, ld, tr2)
<1> DEFINE m   == Len(p)
           pos == PosOf(p, lines, o)
           dep == DepOf(p, o)
           vis == VisOf(p, o)
           cm  == NotesOf(lines, nt)
<1>1. Walk(m, pos, dep, vis, nt, cm, i, a, S, Along(ld, p, o), Along(tr, p, o))
  BY DEF InWalk
<1>2. Leaves(m, dep, a, S, u)
  OBVIOUS
<1>3. j = IF i <= Len(nt) /\ nt[i] = pos[u] THEN i + 1 ELSE i
  OBVIOUS
<1> HIDE DEF pos, dep, vis, cm
<1>4. WalkOf(m, pos, dep, vis, nt) /\ WalkAt(m, pos, dep, vis, nt, i, a, S)
  BY <1>1 DEF Walk
<1>5. u \in 1 .. m
  BY <1>2, <1>4, LeftIsReached
<1>6. i <= Len(nt) => lines[nt[i]].note = cm[i]
  <2>1. i <= Len(nt) => i \in 1 .. Len(nt)
    BY <1>4, WalkTypes
  <2> QED BY <2>1 DEF cm, NotesOf
<1>7. Along(tr2, p, o) = IF i <= Len(nt) /\ nt[i] = pos[u]
                         THEN [Along(tr, p, o) EXCEPT ![u] = cm[i]] ELSE Along(tr, p, o)
  <2>1. CASE beside
    <3>1. tr2 = [tr EXCEPT ![o[u]] = cm[i]]
      BY <1>6, <2>1
    <3>2. Along([tr EXCEPT ![o[u]] = cm[i]], p, o) = [Along(tr, p, o) EXCEPT ![u] = cm[i]]
      <4>1. Along(Replaced(tr, o[u], cm[i]), p, o) = Replaced(Along(tr, p, o), u, cm[i])
        BY ONLY <1>5, InOrder(p, lines, o), DOMAIN tr = 1 .. Len(p), AlongExcept DEF m
      <4> QED BY <4>1 DEF Replaced
    <3>3. i <= Len(nt) /\ nt[i] = pos[u]
      BY <2>1 DEF pos
    <3> QED BY <3>1, <3>2, <3>3
  <2>2. CASE ~ beside
    <3>1. ~(i <= Len(nt) /\ nt[i] = pos[u])
      BY <2>2 DEF pos
    <3>2. tr2 = tr
      BY <2>2
    <3> QED BY <3>1, <3>2
  <2> QED BY <2>1, <2>2
<1> HIDE DEF m
<1>8. Walk(m, pos, dep, vis, nt, cm, j, a, S \ {u}, Along(ld, p, o), Along(tr2, p, o))
  BY ONLY <1>1, <1>2, <1>3, <1>7, LeaveKeeps
<1> QED BY <1>8 DEF InWalk, m, pos, dep, vis, cm

(***************************************************************************)
(* The steps of the walk.                                                  *)
(***************************************************************************)

(* While comments are attached the state is that of a walk over the file. *)
WalkInv ==
  /\ InOrder(program, text, order) /\ notes = ExtractComments(text)
  /\ DOMAIN leading = 1 .. Len(program) /\ DOMAIN trailing = 1 .. Len(program)
  /\ open \in Seq(1 .. Len(program))
  /\ \E st : /\ StackOf(st, open, order)
             /\ InWalk(program, text, order, notes, idx, at, Range(st), leading, trailing)

(* Reading the file starts a correct walk. *)
LEMMA ReadWalks ==
  ASSUME InOrder(program, text, Parsed(text)), Read
  PROVE  WalkInv'
<1>1. /\ order' = Parsed(text) /\ notes' = ExtractComments(text) /\ idx' = 1 /\ at' = 0
      /\ open' = <<>> /\ program' = program /\ text' = text
      /\ leading' = [n \in Nodes |-> <<>>] /\ trailing' = [n \in Nodes |-> None]
  BY DEF Read
<1>2. Nodes = 1 .. Len(program)
  BY LineTypes DEF InOrder, Nodes
<1>3. InWalk(program, text, order', notes', 1, 0, {}, leading', trailing')
  BY <1>1, <1>2, FileStart
<1> DEFINE st == << >>
<1>4. /\ st \in Seq(Nat) /\ Len(st) = 0 /\ (\A k \in 1 .. 0 : FALSE) /\ Range(st) = {}
      /\ open' \in Seq(1 .. Len(program)) /\ Len(open') = 0
  BY <1>1, EmptySeq DEF Range
<1> HIDE DEF st
<1>5. StackOf(st, open', order')
  BY <1>4 DEF StackOf
<1>6. InWalk(program', text', order', notes', idx', at', Range(st), leading', trailing')
  BY <1>1, <1>3, <1>4
<1>7. InOrder(program', text', order') /\ notes' = ExtractComments(text')
  BY <1>1
<1>8. DOMAIN leading' = 1 .. Len(program') /\ DOMAIN trailing' = 1 .. Len(program')
  BY <1>1, <1>2
<1>9. open' \in Seq(1 .. Len(program'))
  BY <1>1, <1>4
<1> QED BY <1>5, <1>6, <1>7, <1>8, <1>9 DEF WalkInv

(* What the walk reaches is inside of all the nodes it is in, when it is inside the last of them. *)
LEMMA ArrivingSteps ==
  ASSUME WalkInv, Arriving, NEW st, StackOf(st, open, order),
         InWalk(program, text, order, notes, idx, at, Range(st), leading, trailing)
  PROVE  /\ Steps(Len(program), DepOf(program, order), at, Range(st))
         /\ at \in Nat /\ at + 1 \in 1 .. Len(program) /\ order[at + 1] \in 1 .. Len(program)
         /\ Len(order) = Len(program) /\ \A v \in Range(st) : v <= at
<1> DEFINE m   == Len(program)
           dep == DepOf(program, order)
           S   == Range(st)
           pos == PosOf(program, text, order)
           vis == VisOf(program, order)
<1>1. WalkOf(m, pos, dep, vis, notes) /\ WalkAt(m, pos, dep, vis, notes, idx, at, S)
  BY DEF InWalk, Walk
<1> HIDE DEF pos, vis
<1>2. m \in Nat /\ at \in Nat /\ dep \in [1 .. m -> Nat] /\ S \subseteq 1 .. m
  BY <1>1, WalkTypes
<1>3. Len(order) = m /\ order \in [1 .. m -> 1 .. m]
  <2>1. InOrder(program, text, order)
    BY DEF WalkInv
  <2>2. order \in [1 .. m -> 1 .. m]
    BY ONLY <2>1 DEF InOrder
  <2> QED BY ONLY <1>2, <2>2
<1>4. at < m /\ at + 1 \in 1 .. m
  BY <1>2, <1>3 DEF Arriving
<1>5. \A v \in S : v <= at /\ \A w \in v + 1 .. at : dep[w] > dep[v]
  BY <1>1 DEF WalkAt
<1>6. ASSUME NEW v \in S
      PROVE  dep[at + 1] > dep[v]
  <2>1. open # <<>>
    <3>1. SUFFICES ASSUME open = <<>> PROVE FALSE
      OBVIOUS
    <3>2. Len(st) = 0 /\ DOMAIN st = 1 .. Len(st)
      BY <3>1, LenProperties DEF StackOf
    <3> QED BY <3>2 DEF Range
  <2>2. /\ Last(open) = order[Last(st)] /\ Last(st) \in S /\ Last(st) \in Nat
        /\ \A x \in S : x <= Last(st)
    <3>1. open \in Seq(1 .. m) /\ StackOf(st, open, order)
      BY DEF WalkInv
    <3>2. TopIs(st, open, order)
      BY <2>1, <3>1, StackPop
    <3> QED BY <3>2 DEF TopIs
  <2> PICK z \in Nat : z = Last(st)
    BY <2>2
  <2>3. Inside(Last(open))
    BY <2>1 DEF Arriving
  <2>4. program[order[at + 1]].depth > program[order[z]].depth
    BY <2>2, <2>3 DEF Inside
  <2>5. dep[at + 1] > dep[z]
    BY <1>2, <1>4, <2>2, <2>4 DEF DepOf
  <2>6. v = z \/ v < z
    BY <1>2, <2>2
  <2>7. v < z => dep[z] > dep[v]
    <3>1. z <= at
      BY <1>5, <2>2
    <3>2. v < z => z \in v + 1 .. at
      BY <1>2, <3>1
    <3> QED BY <1>5, <3>2
  <2>8. dep[at + 1] \in Nat /\ dep[z] \in Nat /\ dep[v] \in Nat
    BY <1>2, <1>4, <2>2
  <2> QED BY <2>5, <2>6, <2>7, <2>8
<1>7. Steps(m, dep, at, S)
  BY <1>4, <1>6 DEF Steps
<1> QED BY <1>2, <1>3, <1>4, <1>5, <1>7

(* The line of a node of the walk. *)
LEMMA PosIs ==
  ASSUME NEW u \in 1 .. Len(program)
  PROVE  PosOf(program, text, order)[u] = PosLine(text, order[u])
BY DEF PosOf

(* AttachLeading keeps the walk correct. *)
LEMMA LeadingWalks ==
  ASSUME WalkInv, AttachLeading
  PROVE  WalkInv'
<1> PICK st : /\ StackOf(st, open, order)
              /\ InWalk(program, text, order, notes, idx, at, Range(st), leading, trailing)
  BY DEF WalkInv
<1>1. Arriving /\ Visited(order[at + 1]) /\ at' = at + 1
      /\ open' = Append(open, order[at + 1])
      /\ program' = program /\ text' = text /\ order' = order /\ notes' = notes
      /\ trailing' = trailing
  BY DEF AttachLeading
<1>2. /\ Steps(Len(program), DepOf(program, order), at, Range(st))
      /\ at \in Nat /\ at + 1 \in 1 .. Len(program) /\ order[at + 1] \in 1 .. Len(program)
      /\ Len(order) = Len(program) /\ \A v \in Range(st) : v <= at
  BY <1>1, ArrivingSteps
<1> DEFINE n == order[at + 1]
           c == TakenAbove(PosLine(text, n))
           x == [k \in 1 .. (idx + c) - idx |-> text[notes[idx + k - 1]].note]
<1>3. /\ idx' = idx + c
      /\ leading' = [leading EXCEPT ![n] = x]
  BY DEF AttachLeading
<1>4. c = Cardinality({q \in idx .. Len(notes) : notes[q] < PosOf(program, text, order)[at + 1]})
  BY <1>2, PosIs DEF TakenAbove
<1>5. program[order[at + 1]].kind # "section"
  BY <1>1 DEF Visited
<1>6. DOMAIN leading = 1 .. Len(program) /\ InOrder(program, text, order)
  BY DEF WalkInv
<1> HIDE DEF c, x
<1>7. x = [k \in 1 .. (idx + c) - idx |-> text[notes[idx + k - 1]].note]
  BY DEF x
<1>8. InWalk(program, text, order, notes, idx + c, at + 1, Range(st) \cup {at + 1},
             [leading EXCEPT ![n] = x], trailing)
  BY <1>2, <1>4, <1>5, <1>6, <1>7, FileArrive
<1>9. /\ StackOf(Append(st, at + 1), Append(open, n), order)
      /\ Range(Append(st, at + 1)) = Range(st) \cup {at + 1}
  <2>1. \A v \in Range(st) : v < at + 1
    <3>1. \A v \in Range(st) : v \in Nat
      BY LenProperties, ElementOfSeq DEF StackOf, Range
    <3> QED BY <1>2, <3>1
  <2>2. open \in Seq(1 .. Len(program)) /\ n \in 1 .. Len(program) /\ at + 1 \in Nat
    BY <1>2 DEF WalkInv
  <2> QED BY <2>1, <2>2, StackPush
<1>10. InWalk(program', text', order', notes', idx', at', Range(Append(st, at + 1)), leading', trailing')
  BY <1>1, <1>3, <1>8, <1>9
<1>11. StackOf(Append(st, at + 1), open', order')
  BY <1>1, <1>9
<1>12. open' \in Seq(1 .. Len(program'))
  BY <1>1, <1>2, AppendProperties DEF WalkInv
<1>13. DOMAIN leading' = 1 .. Len(program') /\ DOMAIN trailing' = 1 .. Len(program')
  BY <1>1, <1>3 DEF WalkInv
<1>14. InOrder(program', text', order') /\ notes' = ExtractComments(text')
  BY <1>1 DEF WalkInv
<1> QED BY <1>10, <1>11, <1>12, <1>13, <1>14 DEF WalkInv

(* PassBy keeps the walk correct. *)
LEMMA PassWalks ==
  ASSUME WalkInv, PassBy
  PROVE  WalkInv'
<1> PICK st : /\ StackOf(st, open, order)
              /\ InWalk(program, text, order, notes, idx, at, Range(st), leading, trailing)
  BY DEF WalkInv
<1>1. Arriving /\ ~ Visited(order[at + 1]) /\ at' = at + 1 /\ idx' = idx /\ open' = open
      /\ program' = program /\ text' = text /\ order' = order /\ notes' = notes
      /\ leading' = leading /\ trailing' = trailing
  BY DEF PassBy
<1>2. Steps(Len(program), DepOf(program, order), at, Range(st))
  BY <1>1, ArrivingSteps
<1>3. program[order[at + 1]].kind = "section" /\ InOrder(program, text, order)
  BY <1>1 DEF Visited, WalkInv
<1>4. InWalk(program, text, order, notes, idx, at + 1, Range(st), leading, trailing)
  BY <1>2, <1>3, FilePass
<1>5. InWalk(program', text', order', notes', idx', at', Range(st), leading', trailing')
  BY <1>1, <1>4
<1>6. StackOf(st, open', order')
  BY <1>1
<1>7. InOrder(program', text', order') /\ notes' = ExtractComments(text')
  BY <1>1 DEF WalkInv
<1> QED BY <1>1, <1>5, <1>6, <1>7 DEF WalkInv

(* AttachTrailing keeps the walk correct. *)
LEMMA TrailingWalks ==
  ASSUME WalkInv, AttachTrailing
  PROVE  WalkInv'
<1> PICK st : /\ StackOf(st, open, order)
              /\ InWalk(program, text, order, notes, idx, at, Range(st), leading, trailing)
  BY DEF WalkInv
<1> DEFINE n == Last(open)
           beside == idx <= Len(notes) /\ notes[idx] = PosLine(text, n)
<1>1. /\ open # <<>> /\ ~ Inside(n) /\ open' = Front(open) /\ at' = at
      /\ program' = program /\ text' = text /\ order' = order /\ notes' = notes
      /\ leading' = leading
      /\ trailing' = (IF beside THEN [trailing EXCEPT ![n] = text[notes[idx]].note] ELSE trailing)
      /\ idx' = IF beside THEN idx + 1 ELSE idx
  BY DEF AttachTrailing
<1>2. /\ Last(open) = order[Last(st)] /\ Last(st) \in Range(st) /\ Last(st) \in Nat
      /\ \A v \in Range(st) : v <= Last(st)
      /\ StackOf(Front(st), Front(open), order) /\ Front(open) \in Seq(1 .. Len(program))
      /\ Range(Front(st)) = Range(st) \ {Last(st)}
  BY <1>1, StackPop DEF WalkInv, TopIs
<1> PICK u \in Nat : u = Last(st)
  BY <1>2
<1>3. /\ WalkOf(Len(program), PosOf(program, text, order), DepOf(program, order),
                VisOf(program, order), notes)
      /\ WalkAt(Len(program), PosOf(program, text, order), DepOf(program, order),
                VisOf(program, order), notes, idx, at, Range(st))
  BY DEF InWalk, Walk
<1>4. Len(program) \in Nat /\ at \in Nat /\ at <= Len(program) /\ Range(st) \subseteq 1 .. Len(program)
  BY <1>3, WalkTypes
<1>5. u \in 1 .. Len(program) /\ n = order[u] /\ Len(order) = Len(program)
  BY <1>2, <1>4 DEF WalkInv, InOrder
<1>6. Leaves(Len(program), DepOf(program, order), at, Range(st), u)
  <2>1. at = Len(program) \/ ~(program[order[at + 1]].depth > program[order[u]].depth)
    BY <1>1, <1>4, <1>5 DEF Inside
  <2>2. DepOf(program, order)[u] = program[order[u]].depth
    BY <1>5 DEF DepOf
  <2>3. at # Len(program) => DepOf(program, order)[at + 1] = program[order[at + 1]].depth
    BY <1>4 DEF DepOf
  <2> QED BY <1>2, <2>1, <2>2, <2>3 DEF Leaves
<1>7. beside \in BOOLEAN /\ (beside <=> idx <= Len(notes) /\ notes[idx] = PosOf(program, text, order)[u])
  BY <1>5, PosIs
<1>8. DOMAIN trailing = 1 .. Len(program) /\ InOrder(program, text, order)
  BY DEF WalkInv
<1>9. trailing' = IF beside THEN [trailing EXCEPT ![order[u]] = text[notes[idx]].note] ELSE trailing
  BY <1>1, <1>5
<1>10. idx' = IF beside THEN idx + 1 ELSE idx
  BY <1>1
<1> HIDE DEF beside
<1>11. InWalk(program, text, order, notes, idx', at, Range(st) \ {u}, leading, trailing')
  BY <1>6, <1>7, <1>8, <1>9, <1>10, FileLeave
<1>12. InWalk(program', text', order', notes', idx', at', Range(Front(st)), leading', trailing')
  BY <1>1, <1>2, <1>11
<1>13. StackOf(Front(st), open', order') /\ open' \in Seq(1 .. Len(program'))
  BY <1>1, <1>2
<1>14. DOMAIN leading' = 1 .. Len(program') /\ DOMAIN trailing' = 1 .. Len(program')
  BY <1>1, <1>8 DEF WalkInv
<1>15. InOrder(program', text', order') /\ notes' = ExtractComments(text')
  BY <1>1 DEF WalkInv
<1> QED BY <1>12, <1>13, <1>14, <1>15 DEF WalkInv

(***************************************************************************)
(* What the walk comes to, in terms of the lines: the comments above a     *)
(* node are those that lead to it, from the top, and the one beside a node *)
(* is its trailing comment if nothing visited is inside.                   *)
(***************************************************************************)

LeadingFrom(pos, dep, vis, lines, cs, u) ==
  /\ cs \in Seq(Comments)
  /\ \E f \in [1 .. Len(cs) -> 1 .. Len(lines)] :
       /\ \A j, k \in 1 .. Len(cs) : j < k => f[j] < f[k]
       /\ \A j \in 1 .. Len(cs) : /\ cs[j] = lines[f[j]].note
                                  /\ LeadsTo(pos, dep, vis, f[j], u)
       /\ \A l \in 1 .. Len(lines) : lines[l].note # None /\ LeadsTo(pos, dep, vis, l, u)
                                       => \E j \in 1 .. Len(cs) : f[j] = l

Attached(p, lines, o, ld, tr) ==
  \A u \in 1 .. Len(p) :
    IF u \in VisOf(p, o)
    THEN /\ LeadingFrom(PosOf(p, lines, o), DepOf(p, o), VisOf(p, o), lines, ld[o[u]], u)
         /\ tr[o[u]] = IF Waits(DepOf(p, o), VisOf(p, o), u)
                       THEN lines[PosOf(p, lines, o)[u]].note ELSE None
    ELSE ld[o[u]] = <<>> /\ tr[o[u]] = None

(* The comments a node has been given, as lines of the file. *)
LEMMA LeadingLines ==
  ASSUME NEW p, NEW lines, NEW o, InOrder(p, lines, o), NEW nt, nt = ExtractComments(lines),
         NEW pos, NEW dep, NEW vis, NEW ld, NEW u,
         HasLeading(pos, dep, vis, nt, NotesOf(lines, nt), ld, u)
  PROVE  LeadingFrom(pos, dep, vis, lines, ld[u], u)
<1>1. p \in Program /\ lines \in Lines(p) /\ Len(nt) \in Nat
      /\ (\A x, y \in 1 .. Len(nt) : x < y => nt[x] < nt[y])
      /\ (\A q \in 1 .. Len(nt) : nt[q] \in 1 .. Len(lines) /\ lines[nt[q]].note # None)
      /\ \A l \in 1 .. Len(lines) : lines[l].note # None => \E q \in 1 .. Len(nt) : nt[q] = l
  <2>1. p \in Program /\ lines \in Lines(p)
    BY DEF InOrder
  <2> QED BY <2>1, CommentsInOrder, LenProperties
<1>2. PICK b \in 0 .. Len(nt), c \in 0 .. Len(nt) :
        /\ b <= c /\ ld[u] = [j \in 1 .. c - b |-> NotesOf(lines, nt)[b + j]]
        /\ \A q \in 1 .. Len(nt) : b < q /\ q <= c <=> LeadsTo(pos, dep, vis, nt[q], u)
  BY DEF HasLeading
<1> PICK d \in Nat : d = c - b
  BY <1>1, <1>2
<1> DEFINE f == [j \in 1 .. d |-> nt[b + j]]
<1>3. \A j \in 1 .. d : b + j \in 1 .. Len(nt) /\ b < b + j /\ b + j <= c
  BY <1>1, <1>2
<1>4. \A j \in 1 .. d : /\ f[j] \in 1 .. Len(lines) /\ lines[f[j]].note # None
                        /\ LeadsTo(pos, dep, vis, f[j], u)
  BY <1>1, <1>2, <1>3
<1>5. \A j \in 1 .. d : ld[u][j] = lines[f[j]].note
  BY <1>2, <1>3 DEF NotesOf
<1>6. \A j \in 1 .. d : lines[f[j]].note \in Comments
  <2>1. \A l \in 1 .. Len(lines) : lines[l].note # None => lines[l].note \in Comments
    <3>1. \A l \in 1 .. Len(lines) : lines[l].note \in Comments \cup {None}
      BY ONLY <1>1, LineTypes
    <3> QED BY <3>1
  <2> HIDE DEF f
  <2> QED BY <1>4, <2>1
<1> PICK cs : cs = ld[u]
  OBVIOUS
<1>7. cs \in Seq(Comments) /\ Len(cs) = d
  <2>1. cs = [j \in 1 .. d |-> lines[f[j]].note]
    BY <1>2, <1>5
  <2> HIDE DEF f
  <2>2. cs \in [1 .. d -> Comments]
    BY <1>6, <2>1
  <2> QED BY <2>2
<1>8. ASSUME NEW j \in 1 .. d, NEW k \in 1 .. d, j < k
      PROVE  f[j] < f[k]
  <2>1. b + j < b + k
    BY <1>8, <1>1
  <2> QED BY <1>1, <1>3, <2>1
<1>9. ASSUME NEW l \in 1 .. Len(lines), lines[l].note # None, LeadsTo(pos, dep, vis, l, u)
      PROVE  \E j \in 1 .. d : f[j] = l
  <2>1. PICK q \in 1 .. Len(nt) : nt[q] = l
    BY <1>1, <1>9
  <2>2. b < q /\ q <= c
    BY <1>2, <1>9, <2>1
  <2>3. q - b \in 1 .. d /\ b + (q - b) = q
    BY <1>1, <2>2
  <2>4. f[q - b] = l
    BY <2>1, <2>3
  <2> QED BY <2>3, <2>4
<1>10. f \in [1 .. d -> 1 .. Len(lines)]
  BY <1>4
<1> HIDE DEF f
<1>11. \A j \in 1 .. d : cs[j] = lines[f[j]].note /\ LeadsTo(pos, dep, vis, f[j], u)
  BY <1>4, <1>5
<1>12. LeadingFrom(pos, dep, vis, lines, cs, u)
  <2>1. /\ \A j, k \in 1 .. Len(cs) : j < k => f[j] < f[k]
        /\ \A j \in 1 .. Len(cs) : cs[j] = lines[f[j]].note /\ LeadsTo(pos, dep, vis, f[j], u)
        /\ \A l \in 1 .. Len(lines) : lines[l].note # None /\ LeadsTo(pos, dep, vis, l, u)
             => \E j \in 1 .. Len(cs) : f[j] = l
    BY ONLY <1>7, <1>8, <1>9, <1>11
  <2>2. f \in [1 .. Len(cs) -> 1 .. Len(lines)]
    BY ONLY <1>7, <1>10
  <2> QED BY ONLY <1>7, <2>1, <2>2 DEF LeadingFrom
<1> QED BY <1>12

(* A node that waits for a trailing comment gets the one on its line; no other gets any. *)
LEMMA TrailingLine ==
  ASSUME NEW p, NEW lines, NEW o, InOrder(p, lines, o), NEW nt, nt = ExtractComments(lines),
         NEW pos, NEW dep, NEW vis, NEW tr, NEW u,
         HasTrailing(pos, dep, vis, nt, NotesOf(lines, nt), tr, u), pos[u] \in 1 .. Len(lines)
  PROVE  tr[u] = IF Waits(dep, vis, u) THEN lines[pos[u]].note ELSE None
<1>1. p \in Program /\ lines \in Lines(p)
  BY DEF InOrder
<1>2. CASE Waits(dep, vis, u) /\ lines[pos[u]].note # None
  <2>0. \A l \in 1 .. Len(lines) : lines[l].note # None => \E q \in 1 .. Len(nt) : nt[q] = l
    BY ONLY <1>1, nt = ExtractComments(lines), CommentsInOrder
  <2>1. PICK q \in 1 .. Len(nt) : nt[q] = pos[u]
    BY <1>2, <2>0
  <2>2. tr[u] = NotesOf(lines, nt)[q]
    BY <1>2, <2>1 DEF HasTrailing
  <2>3. NotesOf(lines, nt)[q] = lines[pos[u]].note
    BY <2>1 DEF NotesOf
  <2> QED BY <1>2, <2>2, <2>3
<1>3. CASE Waits(dep, vis, u) /\ lines[pos[u]].note = None
  <2>1. \A q \in 1 .. Len(nt) : lines[nt[q]].note # None
    BY <1>1, CommentsInOrder
  <2>2. \A q \in 1 .. Len(nt) : nt[q] # pos[u]
    BY <1>3, <2>1
  <2>3. tr[u] = None
    BY <2>2 DEF HasTrailing
  <2> QED BY <1>3, <2>3
<1>4. CASE ~ Waits(dep, vis, u)
  BY <1>4 DEF HasTrailing
<1> QED BY <1>2, <1>3, <1>4

(* When the walk is over all that is attached is as described. *)
LEMMA WalkAttaches ==
  ASSUME WalkInv, at = Len(order), open = <<>>
  PROVE  Attached(program, text, order, leading, trailing)
<1> PICK st : /\ StackOf(st, open, order)
              /\ InWalk(program, text, order, notes, idx, at, Range(st), leading, trailing)
  BY DEF WalkInv
<1> DEFINE m   == Len(program)
           pos == PosOf(program, text, order)
           dep == DepOf(program, order)
           vis == VisOf(program, order)
           cm  == NotesOf(text, notes)
           ld  == Along(leading, program, order)
           tr  == Along(trailing, program, order)
<1>1. /\ WalkGiven(m, pos, dep, vis, notes, cm, at, Range(st), ld, tr)
      /\ WalkOf(m, pos, dep, vis, notes) /\ vis \subseteq 1 .. m /\ m \in Nat
  BY DEF InWalk, Walk, WalkOf
<1>2. Range(st) = {}
  <2>1. Len(st) = 0 /\ DOMAIN st = 1 .. Len(st)
    BY LenProperties DEF StackOf
  <2> QED BY <2>1 DEF Range
<1>3. at = m
  BY <1>1 DEF WalkInv, InOrder
<1>4. InOrder(program, text, order) /\ notes = ExtractComments(text)
  BY DEF WalkInv
<1>5. \A u \in 1 .. m : ld[u] = leading[order[u]] /\ tr[u] = trailing[order[u]]
  BY DEF Along
<1>6. \A u \in 1 .. m : pos[u] \in 1 .. Len(text)
  BY <1>4, PosOnLine
<1> HIDE DEF pos, dep, vis, cm, ld, tr
<1>7. ASSUME NEW u \in 1 .. m, u \in vis
      PROVE  /\ LeadingFrom(pos, dep, vis, text, leading[order[u]], u)
             /\ trailing[order[u]] = IF Waits(dep, vis, u) THEN text[pos[u]].note ELSE None
  <2>1. u <= at
    BY <1>1, <1>3
  <2>2. HasLeading(pos, dep, vis, notes, cm, ld, u) /\ HasTrailing(pos, dep, vis, notes, cm, tr, u)
    BY <1>1, <1>2, <1>7, <2>1 DEF WalkGiven
  <2>3. LeadingFrom(pos, dep, vis, text, ld[u], u)
    BY <1>4, <2>2, LeadingLines DEF cm
  <2>4. tr[u] = IF Waits(dep, vis, u) THEN text[pos[u]].note ELSE None
    BY <1>4, <1>6, <2>2, TrailingLine DEF cm
  <2> QED BY <1>5, <2>3, <2>4
<1>8. ASSUME NEW u \in 1 .. m, u \notin vis
      PROVE  leading[order[u]] = <<>> /\ trailing[order[u]] = None
  <2>1. ld[u] = <<>> /\ tr[u] = None
    BY <1>1, <1>8 DEF WalkGiven
  <2> QED BY <1>5, <2>1
<1> QED BY <1>7, <1>8 DEF Attached, pos, dep, vis

(***************************************************************************)
(* Printing.  The nodes are printed one after the other, each with the     *)
(* comments above it and the one behind it.                                *)
(***************************************************************************)

Earlier(p, lines, a, b) ==
  \/ p[a].group < p[b].group
  \/ p[a].group = p[b].group /\ FirstLine(lines, a) < FirstLine(lines, b)

EarlierPairs(p, lines, o) ==
  LET S == Range(o) IN {q \in S \X S : Earlier(p, lines, q[1], q[2])}

PrintOrderOf(p, lines, o) == Listed(Range(o), EarlierPairs(p, lines, o))

BehindOf(p, tr, n) == IF p[n].kind = "mute" THEN None ELSE tr[n]

AboveOf(ld, n) == [i \in 1 .. Len(ld[n]) |-> [node |-> 0, note |-> ld[n][i], pos |-> FALSE]]

LinesOf(p, tr, n) ==
  [j \in 1 .. p[n].want |->
     [node |-> n, note |-> IF j = p[n].want THEN BehindOf(p, tr, n) ELSE None,
      pos |-> j = p[n].lands]]

Printed(p, po, ld, tr) ==
  FlattenSeq([i \in 1 .. Len(po) |-> AboveOf(ld, po[i]) \o LinesOf(p, tr, po[i])])

(* The model's operators are these. *)
LEMMA PrintIsPrinted ==
  PrintProgram = Printed(program, PrintOrderOf(program, text, order), leading, trailing)
<1>1. PrintOrder = PrintOrderOf(program, text, order)
  BY DEF PrintOrder, PrintOrderOf, EarlierPairs, Earlier
<1>2. \A n : CommentLines(n) = AboveOf(leading, n) /\ NodeLines(n) = LinesOf(program, trailing, n)
  BY DEF CommentLines, AboveOf, NodeLines, LinesOf, Behind, BehindOf
<1> QED BY <1>1, <1>2 DEF PrintProgram, Printed

(* A list of all the nodes. *)
Permutation(p, po) ==
  /\ po \in [1 .. Len(p) -> 1 .. Len(p)]
  /\ \A n \in 1 .. Len(p) : \E i \in 1 .. Len(p) : po[i] = n
  /\ \A i, j \in 1 .. Len(p) : po[i] = po[j] => i = j

(* Sorting by group and line orders all the nodes. *)
LEMMA EarlierOrders ==
  ASSUME NEW p, NEW lines, NEW o, InOrder(p, lines, o), NEW R, R = EarlierPairs(p, lines, o)
  PROVE  /\ Range(o) = 1 .. Len(p) /\ TotalOrder(1 .. Len(p), R)
         /\ \A x, y \in 1 .. Len(p) : <<x, y>> \in R <=> Earlier(p, lines, x, y)
<1> DEFINE S == Range(o)
<1>1. Len(p) \in Nat /\ \A n \in 1 .. Len(p) : p[n].group \in Nat
  BY LineTypes DEF InOrder
<1>2. S = 1 .. Len(p)
  <2>1. o \in [1 .. Len(p) -> 1 .. Len(p)] /\ \A n \in 1 .. Len(p) : \E u \in 1 .. Len(p) : o[u] = n
    BY DEF InOrder
  <2> QED BY <2>1 DEF Range
<1>3. R = {q \in S \X S : Earlier(p, lines, q[1], q[2])}
  BY DEF EarlierPairs
<1> HIDE DEF S
<1>4. \A x, y \in S : <<x, y>> \in R <=> Earlier(p, lines, x, y)
  BY <1>3
<1>5. ASSUME NEW x \in S
      PROVE  FirstLine(lines, x) \in Nat /\ p[x].group \in Nat
  <2>1. PICK u \in 1 .. Len(p) : o[u] = x
    BY <1>2 DEF InOrder
  <2>2. FirstLine(lines, x) \in 1 .. Len(lines)
    BY <2>1, NodesOnLines
  <2> QED BY <1>1, <1>2, <2>2
<1>6. ASSUME NEW x \in S, NEW y \in S, FirstLine(lines, x) = FirstLine(lines, y)
      PROVE  x = y
  <2>1. PICK u \in 1 .. Len(p) : o[u] = x
    BY <1>2 DEF InOrder
  <2>2. PICK w \in 1 .. Len(p) : o[w] = y
    BY <1>2 DEF InOrder
  <2>3. ~(u < w) /\ ~(w < u)
    BY <1>5, <1>6, <2>1, <2>2, OrderOfLines
  <2>4. u = w
    BY <1>1, <2>3
  <2> QED BY <2>1, <2>2, <2>4
<1>7. TotalOrder(S, R)
  <2>1. ASSUME NEW x \in S, NEW y \in S, NEW z \in S
        PROVE  /\ <<x, x>> \notin R /\ (x = y \/ <<x, y>> \in R \/ <<y, x>> \in R)
               /\ <<x, y>> \in R /\ <<y, z>> \in R => <<x, z>> \in R
    <3>1. PICK fx \in Nat : fx = FirstLine(lines, x)
      BY <1>5
    <3>2. PICK fy \in Nat : fy = FirstLine(lines, y)
      BY <1>5
    <3>3. PICK fz \in Nat : fz = FirstLine(lines, z)
      BY <1>5
    <3>4. PICK gx \in Nat : gx = p[x].group
      BY <1>5
    <3>5. PICK gy \in Nat : gy = p[y].group
      BY <1>5
    <3>6. PICK gz \in Nat : gz = p[z].group
      BY <1>5
    <3>7. fx = fy => x = y
      BY <1>6, <3>1, <3>2
    <3>8. /\ <<x, x>> \in R <=> gx < gx \/ (gx = gx /\ fx < fx)
          /\ <<x, y>> \in R <=> gx < gy \/ (gx = gy /\ fx < fy)
          /\ <<y, x>> \in R <=> gy < gx \/ (gy = gx /\ fy < fx)
          /\ <<y, z>> \in R <=> gy < gz \/ (gy = gz /\ fy < fz)
          /\ <<x, z>> \in R <=> gx < gz \/ (gx = gz /\ fx < fz)
      BY <1>4, <3>1, <3>2, <3>3, <3>4, <3>5, <3>6 DEF Earlier
    <3> QED BY <3>7, <3>8
  <2> QED BY <2>1 DEF TotalOrder
<1>8. Range(o) = S
  BY DEF S
<1> QED BY <1>2, <1>4, <1>7, <1>8

(* The nodes are printed by group, and in a group in the order of their lines. *)
LEMMA PrintOrderSorted ==
  ASSUME NEW p, NEW lines, NEW o, InOrder(p, lines, o), NEW po, po = PrintOrderOf(p, lines, o)
  PROVE  /\ Permutation(p, po) /\ Len(po) = Len(p)
         /\ \A i, j \in 1 .. Len(p) : i < j => Earlier(p, lines, po[i], po[j])
<1>1. Len(p) \in Nat
  BY LineTypes DEF InOrder
<1>0. PICK R : R = EarlierPairs(p, lines, o)
  OBVIOUS
<1>2. PICK S : S = Range(o) /\ S = 1 .. Len(p)
  BY <1>0, EarlierOrders
<1>3. po = Listed(S, R)
  BY <1>0, <1>2 DEF PrintOrderOf
<1>4. \A x, y \in S : <<x, y>> \in R <=> Earlier(p, lines, x, y)
  BY <1>0, <1>2, EarlierOrders
<1>7. TotalOrder(S, R)
  BY <1>0, <1>2, EarlierOrders
<1>8. IsFiniteSet(S) /\ Cardinality(S) = Len(p)
  <2>1. PICK m \in Nat : m = Len(p)
    BY <1>1
  <2>2. 1 \in Int /\ m \in Int /\ 1 <= m + 1
    OBVIOUS
  <2>3. IsFiniteSet(1 .. m) /\ Cardinality(1 .. m) = IF 1 > m THEN 0 ELSE m - 1 + 1
    BY <2>2, FS_Interval
  <2>4. Cardinality(1 .. m) = m
    BY <2>3
  <2> QED BY <1>2, <2>1, <2>3, <2>4
<1>9. Enumerates(po, Len(p), S, R)
  BY <1>3, <1>7, <1>8, ListedEnumerates
<1>10. po \in [1 .. Len(p) -> S] /\ (\A x \in S : \E i \in 1 .. Len(p) : po[i] = x)
       /\ \A i, j \in 1 .. Len(p) : i < j => <<po[i], po[j]>> \in R
  BY <1>9 DEF Enumerates
<1>11. \A i, j \in 1 .. Len(p) : i < j => Earlier(p, lines, po[i], po[j])
  BY <1>4, <1>10
<1>12. ASSUME NEW i \in 1 .. Len(p), NEW j \in 1 .. Len(p), po[i] = po[j]
       PROVE  i = j
  <2>1. ~(i < j) /\ ~(j < i)
    BY <1>7, <1>10, <1>12 DEF TotalOrder
  <2> QED BY <1>1, <2>1
<1>13. Len(po) = Len(p)
  BY <1>1, <1>10
<1> QED BY <1>2, <1>10, <1>11, <1>12, <1>13 DEF Permutation

(* Comments as they are attached. *)
Comfortable(p, ld, tr) ==
  \A n \in 1 .. Len(p) : ld[n] \in Seq(Comments) /\ tr[n] \in Comments \cup {None}

(* A line printed above a node, and line j of node n. *)
NoteLine(c) == [node |-> 0, note |-> c, pos |-> FALSE]

NodeLine(p, tr, n, j) ==
  [node |-> n, note |-> IF j = p[n].want THEN BehindOf(p, tr, n) ELSE None,
   pos |-> j = p[n].lands]

(* What printing makes of a program: e[i] is the last line of the i-th node printed. *)
LayOut(p, po, ld, tr, e, t) ==
  /\ t \in Lines(p) /\ e \in [0 .. Len(p) -> Nat] /\ e[0] = 0 /\ Len(t) = e[Len(p)]
  /\ \A i \in 1 .. Len(p) :
       /\ e[i] = e[i - 1] + Len(ld[po[i]]) + p[po[i]].want
       /\ \A j \in 1 .. Len(ld[po[i]]) : t[e[i - 1] + j] = NoteLine(ld[po[i]][j])
       /\ \A j \in 1 .. p[po[i]].want :
            t[e[i - 1] + Len(ld[po[i]]) + j] =
              NodeLine(p, tr, po[i], j)
  /\ \A i \in 0 .. Len(p) : \A j \in i .. Len(p) : e[i] <= e[j]
  /\ \A k \in 1 .. Len(t) : \E i \in 1 .. Len(p) : e[i - 1] < k /\ k <= e[i]

(* What is printed is laid out: each node's comments, then its lines, one node after another. *)
LEMMA PrintedLines ==
  ASSUME NEW p \in Program, NEW po, Permutation(p, po), NEW ld, NEW tr, Comfortable(p, ld, tr)
  PROVE  \E e : LayOut(p, po, ld, tr, e, Printed(p, po, ld, tr))
<1> DEFINE m == Len(p)
           T == [node : 0 .. m, note : Comments \cup {None}, pos : BOOLEAN]
           s == [i \in 1 .. m |-> AboveOf(ld, po[i]) \o LinesOf(p, tr, po[i])]
           t == Printed(p, po, ld, tr)
<1>1. m \in Nat /\ \A n \in 1 .. m : p[n].want \in Nat /\ p[n].want >= 1
  <2>1. <<>> \in Lines(p)
    BY DEF Lines
  <2> QED BY <2>1, LineTypes
<1>2. po \in [1 .. m -> 1 .. m] /\ Len(po) = m
  BY <1>1 DEF Permutation
<1>3. t = FlattenSeq(s)
  BY <1>2 DEF Printed
<1>4. ASSUME NEW i \in 1 .. m
      PROVE  /\ s[i] \in Seq(T) /\ Len(s[i]) = Len(ld[po[i]]) + p[po[i]].want
             /\ \A j \in 1 .. Len(ld[po[i]]) : s[i][j] = NoteLine(ld[po[i]][j])
             /\ \A j \in 1 .. p[po[i]].want :
                  s[i][Len(ld[po[i]]) + j] =
                    NodeLine(p, tr, po[i], j)
  <2>1. PICK n \in 1 .. m : n = po[i]
    BY <1>2
  <2>2. PICK c \in Seq(Comments) : c = ld[n]
    BY DEF Comfortable
  <2>3. PICK w \in Nat : w = p[n].want
    BY <1>1
  <2>4. PICK a \in Nat : a = Len(c)
    BY LenProperties
  <2> DEFINE A == AboveOf(ld, n)
             B == LinesOf(p, tr, n)
  <2>5. A \in Seq(T) /\ Len(A) = a /\ \A j \in 1 .. a : A[j] = NoteLine(c[j])
    <3>1. \A j \in 1 .. a : c[j] \in Comments
      BY <2>4, ElementOfSeq
    <3>2. \A j \in 1 .. a : NoteLine(c[j]) \in T
      BY <1>1, <3>1 DEF NoteLine
    <3>3. A = [j \in 1 .. a |-> NoteLine(c[j])]
      BY <2>2, <2>4 DEF AboveOf, NoteLine
    <3> HIDE DEF A, T
    <3> QED BY <3>2, <3>3
  <2>6. B \in Seq(T) /\ Len(B) = w
        /\ \A j \in 1 .. w : B[j] = NodeLine(p, tr, n, j)
    <3>1. BehindOf(p, tr, n) \in Comments \cup {None}
      BY DEF BehindOf, Comfortable
    <3>2. \A j \in 1 .. w : NodeLine(p, tr, n, j) \in T
      BY <1>1, <3>1 DEF NodeLine
    <3>3. B = [j \in 1 .. w |-> NodeLine(p, tr, n, j)]
      BY <2>3 DEF LinesOf, NodeLine
    <3>4. PICK f : f = [j \in 1 .. w |-> NodeLine(p, tr, n, j)]
      OBVIOUS
    <3>5. \A j \in 1 .. w : f[j] = NodeLine(p, tr, n, j)
      BY <3>4
    <3>6. DOMAIN f = 1 .. w /\ f = [j \in 1 .. w |-> f[j]]
      BY <3>4
    <3> HIDE DEF B, T
    <3>7. \A j \in 1 .. w : f[j] \in T
      BY <3>2, <3>5
    <3>8. f \in [1 .. w -> T]
      BY <3>6, <3>7
    <3>9. f \in Seq(T) /\ Len(f) = w
      BY <3>8
    <3>10. B = f
      BY <3>3, <3>4
    <3> QED BY <3>5, <3>9, <3>10
  <2>7. s[i] = A \o B
    BY <2>1
  <2> HIDE DEF A, B, s, T
  <2>8. /\ s[i] \in Seq(T) /\ Len(s[i]) = a + w
        /\ \A j \in 1 .. a + w : s[i][j] = IF j <= a THEN A[j] ELSE B[j - a]
    <3>1. A \in Seq(T) /\ B \in Seq(T) /\ Len(A) = a /\ Len(B) = w
      BY <2>5, <2>6
    <3>2. A \o B \in Seq(T) /\ Len(A \o B) = a + w
          /\ \A j \in 1 .. a + w : (A \o B)[j] = IF j <= a THEN A[j] ELSE B[j - a]
      BY ONLY <3>1, ConcatProperties
    <3> QED BY <2>7, <3>2
  <2>9. \A j \in 1 .. a : s[i][j] = A[j]
    <3>1. \A j \in 1 .. a : j \in 1 .. a + w /\ j <= a
      OBVIOUS
    <3> QED BY <2>8, <3>1
  <2>10. \A j \in 1 .. w : s[i][a + j] = B[j]
    <3>1. \A j \in 1 .. w : a + j \in 1 .. a + w /\ ~(a + j <= a) /\ (a + j) - a = j
      OBVIOUS
    <3> QED BY <2>8, <3>1
  <2>11. a = Len(ld[po[i]]) /\ w = p[po[i]].want /\ c = ld[po[i]]
    BY <2>1, <2>2, <2>3, <2>4
  <2>12. \A j \in 1 .. a : s[i][j] = NoteLine(c[j])
    BY <2>5, <2>9
  <2>13. \A j \in 1 .. w : s[i][a + j] = NodeLine(p, tr, n, j)
    BY <2>6, <2>10
  <2> QED BY <2>1, <2>8, <2>11, <2>12, <2>13
<1>5. s \in [1 .. m -> Seq(T)]
  BY <1>4
<1>6. Len(s) = m
  BY <1>1
<1> HIDE DEF s, T
<1>7. FlattenSeq(s) \in Seq(T) /\ \E e : LaidOut(s, e, FlattenSeq(s))
  BY <1>1, <1>5, FlattenLaidOut
<1> HIDE DEF t
<1>8. PICK e : LaidOut(s, e, t)
  BY <1>3, <1>7
<1>9. Ends(s, e) /\ Len(t) = e[m] /\ e \in [0 .. m -> Nat] /\ e[0] = 0
  BY <1>6, <1>8 DEF LaidOut, Ends
<1>10. t \in Lines(p)
  BY <1>3, <1>7 DEF Lines, T
<1>11. \A i \in 0 .. m : \A j \in i .. m : e[i] <= e[j]
  BY <1>1, <1>5, <1>9, EndsGrow
<1>12. ASSUME NEW k \in 1 .. Len(t)
       PROVE  \E i \in 1 .. m : e[i - 1] < k /\ k <= e[i]
  <2>0. PICK N \in Nat : N = m
    BY <1>1
  <2>a. s \in [1 .. N -> Seq(T)] /\ Ends(s, e) /\ k \in 1 .. e[N]
    BY <1>5, <1>9, <1>12, <2>0
  <2>b. InBlock(s, e, N, k)
    BY <2>a, EveryPosition
  <2>1. PICK i \in 1 .. m : \E j \in 1 .. Len(s[i]) : k = e[i - 1] + j
    BY <2>0, <2>b DEF InBlock
  <2>2. PICK j \in 1 .. Len(s[i]) : k = e[i - 1] + j
    BY <2>1
  <2>3. i \in 1 .. N /\ i - 1 \in 0 .. N
    BY <2>0
  <2>4. s[i] \in Seq(T) /\ e[i - 1] \in Nat
    BY <1>9, <2>0, <2>a, <2>3
  <2>5. PICK x \in Nat : x = Len(s[i])
    BY <2>4, LenProperties
  <2>6. PICK y \in Nat : y = e[i - 1]
    BY <2>4
  <2>7. e[i] = y + x
    BY <1>6, <1>9, <2>5, <2>6 DEF Ends
  <2>8. k = y + j /\ j \in 1 .. x
    BY <2>2, <2>5, <2>6
  <2>9. y < k /\ k <= y + x
    BY <2>8
  <2> QED BY <2>6, <2>7, <2>9
<1>13. ASSUME NEW i \in 1 .. m
       PROVE  /\ e[i] = e[i - 1] + Len(ld[po[i]]) + p[po[i]].want
              /\ \A j \in 1 .. Len(ld[po[i]]) : t[e[i - 1] + j] = NoteLine(ld[po[i]][j])
              /\ \A j \in 1 .. p[po[i]].want :
                   t[e[i - 1] + Len(ld[po[i]]) + j] =
                     NodeLine(p, tr, po[i], j)
  <2>1. PICK a \in Nat : a = Len(ld[po[i]])
    BY <1>2, LenProperties DEF Comfortable
  <2>2. PICK w \in Nat : w = p[po[i]].want
    BY <1>1, <1>2
  <2>3. PICK b \in Nat : b = e[i - 1]
    BY <1>1, <1>9
  <2>4. e[i] = b + (a + w) /\ Len(s[i]) = a + w
    BY <1>4, <1>6, <1>9, <2>1, <2>2, <2>3 DEF Ends
  <2>5. \A j \in 1 .. a + w : t[b + j] = s[i][j]
    BY <1>6, <1>8, <2>3, <2>4 DEF LaidOut
  <2>6. \A j \in 1 .. a : t[b + j] = NoteLine(ld[po[i]][j])
    <3>1. \A j \in 1 .. a : j \in 1 .. a + w
      OBVIOUS
    <3> QED BY <1>4, <2>1, <2>5, <3>1
  <2>7. \A j \in 1 .. w : t[b + a + j] = NodeLine(p, tr, po[i], j)
    <3>1. \A j \in 1 .. w : a + j \in 1 .. a + w /\ b + (a + j) = b + a + j
      OBVIOUS
    <3>2. \A j \in 1 .. w : s[i][a + j] = NodeLine(p, tr, po[i], j)
      BY <1>4, <2>1, <2>2
    <3> QED BY <2>5, <3>1, <3>2
  <2>8. e[i] = b + a + w
    BY <2>4
  <2> QED BY <2>1, <2>2, <2>3, <2>6, <2>7, <2>8
<1>14. LayOut(p, po, ld, tr, e, t)
  BY <1>9, <1>10, <1>11, <1>12, <1>13 DEF LayOut
<1> QED BY <1>14 DEF t

(* Line k is of the part of the i-th node: a comment above it, or a line of the node. *)
LineIs(p, po, ld, tr, e, t, i, k) ==
  t[k] = IF k <= e[i - 1] + Len(ld[po[i]])
         THEN NoteLine(ld[po[i]][k - e[i - 1]])
         ELSE [node |-> po[i], note |-> IF k = e[i] THEN BehindOf(p, tr, po[i]) ELSE None,
               pos |-> k = e[i - 1] + Len(ld[po[i]]) + p[po[i]].lands]

(* One line of what was printed: a comment above its node, or the node. *)
LEMMA PrintedAt ==
  ASSUME NEW p \in Program, NEW po, Permutation(p, po), NEW ld, NEW tr, Comfortable(p, ld, tr),
         NEW e, NEW t, LayOut(p, po, ld, tr, e, t), NEW i \in 1 .. Len(p)
  PROVE  /\ e[i - 1] \in Nat /\ e[i] \in Nat /\ Len(ld[po[i]]) \in Nat /\ e[i] <= Len(t)
         /\ e[i - 1] + Len(ld[po[i]]) < e[i]
         /\ e[i] = e[i - 1] + Len(ld[po[i]]) + p[po[i]].want
         /\ \A k \in 1 .. Len(t) : e[i - 1] < k /\ k <= e[i] => LineIs(p, po, ld, tr, e, t, i, k)
<1>1. t \in Lines(p) /\ po[i] \in 1 .. Len(p)
  BY DEF LayOut, Permutation
<1>2. /\ Len(p) \in Nat /\ Len(t) \in Nat /\ p[po[i]].want \in Nat /\ p[po[i]].want >= 1
      /\ \A n \in 1 .. Len(p) : p[n].want \in Nat /\ p[n].want >= 1
  BY <1>1, LineTypes
<1>3. e \in [0 .. Len(p) -> Nat] /\ Len(t) = e[Len(p)]
  BY DEF LayOut
<1>4. PICK a \in Nat : a = Len(ld[po[i]])
  BY <1>1, LenProperties DEF Comfortable
<1>5. PICK w \in Nat : w = p[po[i]].want
  BY <1>2
<1>6. i - 1 \in 0 .. Len(p) /\ i \in 0 .. Len(p) /\ Len(p) \in i .. Len(p)
  BY <1>2
<1>7. PICK b \in Nat : b = e[i - 1]
  BY <1>3, <1>6
<1>8. PICK z \in Nat : z = e[i]
  BY <1>3, <1>6
<1>9. z = b + a + w /\ w >= 1 /\ z <= Len(t)
  BY <1>2, <1>3, <1>4, <1>5, <1>6, <1>7, <1>8 DEF LayOut
<1>10. /\ \A j \in 1 .. a : t[b + j] = NoteLine(ld[po[i]][j])
       /\ \A j \in 1 .. w :
            t[b + a + j] = NodeLine(p, tr, po[i], j)
  BY <1>4, <1>5, <1>7 DEF LayOut
<1>11. ASSUME NEW k \in 1 .. Len(t), b < k, k <= z
       PROVE  t[k] = IF k <= b + a
                     THEN NoteLine(ld[po[i]][k - b])
                     ELSE [node |-> po[i], note |-> IF k = z THEN BehindOf(p, tr, po[i]) ELSE None,
                           pos |-> k = b + a + p[po[i]].lands]
  <2>0. k \in Nat /\ p[po[i]].lands \in Nat
    BY <1>1, <1>2, LineTypes
  <2>1. CASE k <= b + a
    <3>1. PICK j \in 1 .. a : j = k - b
      BY <1>11, <2>0, <2>1
    <3>2. b + j = k
      BY <2>0, <3>1
    <3>3. t[k] = NoteLine(ld[po[i]][j])
      BY <1>10, <3>2
    <3> QED BY <2>1, <3>1, <3>3
  <2>2. CASE ~(k <= b + a)
    <3>1. PICK j \in 1 .. w : j = k - b - a
      BY <1>9, <1>11, <2>0, <2>2
    <3>2. b + a + j = k /\ (j = w <=> k = z) /\ (j = p[po[i]].lands <=> k = b + a + p[po[i]].lands)
      <4>1. PICK x \in Nat : x = p[po[i]].lands
        BY <2>0
      <4>2. b + a + j = k
        BY <2>0, <3>1
      <4>3. (j = w <=> k = z) /\ (j = x <=> k = b + a + x)
        BY <1>9, <2>0, <4>2
      <4> QED BY <4>1, <4>2, <4>3
    <3>3. t[b + a + j] = NodeLine(p, tr, po[i], j)
      BY <1>10
    <3>4. t[k] = [node |-> po[i], note |-> IF k = z THEN BehindOf(p, tr, po[i]) ELSE None,
                  pos |-> k = b + a + p[po[i]].lands]
      BY <1>5, <3>2, <3>3 DEF NodeLine
    <3> QED BY <2>2, <3>4
  <2> QED BY <2>1, <2>2
<1>12. b + a < z
  BY <1>9
<1>13. \A k \in 1 .. Len(t) : e[i - 1] < k /\ k <= e[i] => LineIs(p, po, ld, tr, e, t, i, k)
  <2> SUFFICES ASSUME NEW k \in 1 .. Len(t), e[i - 1] < k, k <= e[i]
               PROVE  LineIs(p, po, ld, tr, e, t, i, k)
    OBVIOUS
  <2>1. b < k /\ k <= z
    BY <1>7, <1>8
  <2> QED BY <1>4, <1>7, <1>8, <1>11, <2>1 DEF LineIs
<1> QED BY <1>4, <1>5, <1>7, <1>8, <1>9, <1>12, <1>13

(* The same of one line. *)
LEMMA PrintedLine ==
  ASSUME NEW p \in Program, NEW po, Permutation(p, po), NEW ld, NEW tr, Comfortable(p, ld, tr),
         NEW e, NEW t, LayOut(p, po, ld, tr, e, t), NEW i \in 1 .. Len(p),
         NEW k \in 1 .. Len(t), e[i - 1] < k, k <= e[i]
  PROVE  LineIs(p, po, ld, tr, e, t, i, k)
BY PrintedAt

(* The lines of a node are the last ones of its part. *)
LEMMA PrintedNode ==
  ASSUME NEW p \in Program, NEW po, Permutation(p, po), NEW ld, NEW tr, Comfortable(p, ld, tr),
         NEW e, NEW t, LayOut(p, po, ld, tr, e, t), NEW i \in 1 .. Len(p), NEW k \in 1 .. Len(t)
  PROVE  t[k].node = po[i] <=> e[i - 1] + Len(ld[po[i]]) < k /\ k <= e[i]
<1>1. Len(p) \in Nat /\ Len(t) \in Nat /\ k \in Nat
  BY LineTypes DEF LayOut
<1>2. ASSUME e[i - 1] + Len(ld[po[i]]) < k, k <= e[i]
      PROVE  t[k].node = po[i]
  <2>1. e[i - 1] \in Nat /\ Len(ld[po[i]]) \in Nat
    BY PrintedAt
  <2>2. e[i - 1] < k /\ ~(k <= e[i - 1] + Len(ld[po[i]]))
    BY <1>1, <1>2, <2>1
  <2>3. LineIs(p, po, ld, tr, e, t, i, k)
    <3>1. e[i - 1] < k /\ k <= e[i]
      BY <1>2, <2>2
    <3> QED BY <3>1, PrintedLine
  <2> QED BY <2>2, <2>3 DEF LineIs
<1>3. ASSUME t[k].node = po[i]
      PROVE  e[i - 1] + Len(ld[po[i]]) < k /\ k <= e[i]
  <2>1. PICK j \in 1 .. Len(p) : e[j - 1] < k /\ k <= e[j]
    BY DEF LayOut
  <2>a. po[i] \in 1 .. Len(p) /\ po[j] \in 1 .. Len(p)
    BY DEF Permutation
  <2>2. po[i] # 0 /\ po[i] \in 1 .. Len(p) /\ po[j] \in 1 .. Len(p)
    <3>1. PICK n \in 1 .. Len(p) : n = po[i]
      BY <2>a
    <3>2. n # 0
      BY <1>1
    <3> QED BY <2>a, <3>1, <3>2
  <2>3. LineIs(p, po, ld, tr, e, t, j, k)
    BY <2>1, PrintedLine
  <2>4. ~(k <= e[j - 1] + Len(ld[po[j]])) /\ po[j] = po[i]
    BY <1>3, <2>2, <2>3 DEF LineIs, NoteLine
  <2>5. i = j
    BY <2>4 DEF Permutation
  <2>6. e[j - 1] + Len(ld[po[j]]) \in Nat
    <3>1. e[j - 1] \in Nat /\ Len(ld[po[j]]) \in Nat
      BY PrintedAt
    <3> QED BY <3>1
  <2> QED BY <1>1, <2>1, <2>4, <2>5, <2>6
<1> QED BY <1>2, <1>3

(* The position of a node is printed on the line the printer puts it. *)
LEMMA PrintedPos ==
  ASSUME NEW p \in Program, NEW po, Permutation(p, po), NEW ld, NEW tr, Comfortable(p, ld, tr),
         NEW e, NEW t, LayOut(p, po, ld, tr, e, t), NEW i \in 1 .. Len(p), NEW k \in 1 .. Len(t)
  PROVE  /\ e[i - 1] + Len(ld[po[i]]) + p[po[i]].lands \in 1 .. Len(t)
         /\ e[i - 1] + Len(ld[po[i]]) + p[po[i]].lands = e[i] <=> p[po[i]].lands = p[po[i]].want
         /\ t[k].node = po[i] /\ t[k].pos <=> k = e[i - 1] + Len(ld[po[i]]) + p[po[i]].lands
<1>1. /\ Len(t) \in Nat /\ p[po[i]].want \in Nat /\ p[po[i]].lands \in 1 .. p[po[i]].want
  BY LineTypes DEF LayOut, Permutation
<1>2. PICK b \in Nat : b = e[i - 1]
  BY PrintedAt
<1>3. PICK a \in Nat : a = Len(ld[po[i]])
  BY PrintedAt
<1>4. PICK w \in Nat : w = p[po[i]].want
  BY <1>1
<1>5. PICK x \in 1 .. w : x = p[po[i]].lands
  BY <1>1, <1>4
<1>6. e[i] = b + a + w /\ e[i] <= Len(t)
  BY <1>2, <1>3, <1>4, PrintedAt
<1>7. b + a + x \in 1 .. Len(t) /\ (b + a + x = e[i] <=> x = w)
  BY <1>1, <1>6
<1>8. t[k].node = po[i] <=> b + a < k /\ k <= b + a + w
  <2>1. t[k].node = po[i] <=> e[i - 1] + Len(ld[po[i]]) < k /\ k <= e[i]
    BY PrintedNode
  <2> QED BY <1>2, <1>3, <1>6, <2>1
<1>9. ASSUME b + a < k, k <= b + a + w
      PROVE  t[k].pos <=> k = b + a + x
  <2>1. b < k /\ ~(k <= b + a)
    BY <1>1, <1>9
  <2>2. LineIs(p, po, ld, tr, e, t, i, k)
    <3>1. e[i - 1] < k /\ k <= e[i]
      BY <1>2, <1>6, <1>9, <2>1
    <3> QED BY <3>1, PrintedLine
  <2>3. t[k] = [node |-> po[i], note |-> IF k = e[i] THEN BehindOf(p, tr, po[i]) ELSE None,
                pos |-> k = b + a + x]
    BY <1>2, <1>3, <1>5, <2>1, <2>2 DEF LineIs
  <2>4. PICK here \in BOOLEAN : here <=> k = b + a + x
    OBVIOUS
  <2>5. t[k].pos = here
    BY <2>3, <2>4
  <2> QED BY <2>4, <2>5
<1>10. k = b + a + x => b + a < k /\ k <= b + a + w
  BY <1>1
<1>11. t[k].node = po[i] /\ t[k].pos <=> k = b + a + x
  BY <1>8, <1>9, <1>10
<1> QED BY <1>2, <1>3, <1>4, <1>5, <1>7, <1>11

(* What was printed is a file again, its nodes in the order they were printed. *)
LEMMA PrintedInOrder ==
  ASSUME NEW p \in Program, NEW po, Permutation(p, po), NEW ld, NEW tr, Comfortable(p, ld, tr),
         NEW e, NEW t, LayOut(p, po, ld, tr, e, t)
  PROVE  InOrder(p, t, po)
<1>1. Len(p) \in Nat /\ Len(t) \in Nat /\ t \in Lines(p)
  BY LineTypes DEF LayOut
<1>2. ASSUME NEW i \in 1 .. Len(p)
      PROVE  \E l \in 1 .. Len(t) : t[l].node = po[i] /\ t[l].pos
  <2>1. e[i] \in 1 .. Len(t)
    <3>1. /\ e[i - 1] \in Nat /\ Len(ld[po[i]]) \in Nat /\ e[i] \in Nat /\ e[i] <= Len(t)
          /\ e[i - 1] + Len(ld[po[i]]) < e[i]
      BY PrintedAt
    <3> QED BY <1>1, <3>1
  <2>2. PICK l \in 1 .. Len(t) : l = e[i - 1] + Len(ld[po[i]]) + p[po[i]].lands
    BY <2>1, PrintedPos
  <2> QED BY <2>2, PrintedPos
<1>3. ASSUME NEW i \in 1 .. Len(p), NEW j \in 1 .. Len(p), NEW k \in 1 .. Len(t), NEW l \in 1 .. Len(t),
             i < j, t[k].node = po[i], t[l].node = po[j]
      PROVE  k < l
  <2>1. k <= e[i]
    BY <1>3, PrintedNode
  <2>2. e[j - 1] + Len(ld[po[j]]) < l
    BY <1>3, PrintedNode
  <2>3. e[j - 1] \in Nat /\ Len(ld[po[j]]) \in Nat /\ e[i] \in Nat
    BY PrintedAt
  <2>4. i \in 0 .. Len(p) /\ j - 1 \in i .. Len(p)
    BY <1>1, <1>3
  <2>5. e[i] <= e[j - 1]
    BY <2>4 DEF LayOut
  <2> QED BY <1>1, <2>1, <2>2, <2>3, <2>5
<1> QED BY <1>1, <1>2, <1>3 DEF InOrder, Permutation

(* Where a node is printed. *)
LEMMA PrintedFrom ==
  ASSUME NEW p \in Program, NEW po, Permutation(p, po), NEW ld, NEW tr, Comfortable(p, ld, tr),
         NEW e, NEW t, LayOut(p, po, ld, tr, e, t), NEW i \in 1 .. Len(p)
  PROVE  FirstLine(t, po[i]) = e[i - 1] + Len(ld[po[i]]) + 1 /\ LastLine(t, po[i]) = e[i]
<1>0. t \in Lines(p)
  BY DEF LayOut
<1>1. InOrder(p, t, po) /\ Len(t) \in Nat
  BY <1>0, PrintedInOrder, LineTypes
<1>2. PICK b \in Nat : b = e[i - 1] + Len(ld[po[i]])
  BY PrintedAt
<1>3. PICK z \in Nat : z = e[i]
  BY PrintedAt
<1>4. b < z /\ z <= Len(t)
  BY <1>2, <1>3, PrintedAt
<1>5. \A k \in 1 .. Len(t) : t[k].node = po[i] <=> b < k /\ k <= z
  BY <1>2, <1>3, PrintedNode
<1>6. PICK x \in 1 .. Len(t) : x = FirstLine(t, po[i])
  BY <1>1, NodesOnLines
<1>7. PICK y \in 1 .. Len(t) : y = LastLine(t, po[i])
  BY <1>1, NodesOnLines
<1>8. t[x].node = po[i] /\ t[y].node = po[i] /\ \A l \in 1 .. Len(t) : t[l].node = po[i] => x <= l /\ l <= y
  BY <1>1, <1>6, <1>7, NodesOnLines
<1>9. b + 1 \in 1 .. Len(t) /\ z \in 1 .. Len(t)
  BY <1>1, <1>4
<1>10. x = b + 1 /\ y = z
  BY <1>1, <1>4, <1>5, <1>8, <1>9
<1> QED BY <1>2, <1>3, <1>6, <1>7, <1>10

(* The comments a walk attaches are comments of the file. *)
LEMMA AttachedComments ==
  ASSUME NEW p, NEW lines, NEW o, InOrder(p, lines, o), NEW ld, NEW tr, Attached(p, lines, o, ld, tr)
  PROVE  Comfortable(p, ld, tr)
<1>1. ASSUME NEW n \in 1 .. Len(p)
      PROVE  ld[n] \in Seq(Comments) /\ tr[n] \in Comments \cup {None}
  <2>1. PICK u \in 1 .. Len(p) : o[u] = n
    BY DEF InOrder
  <2>2. CASE u \notin VisOf(p, o)
    <3>1. ld[n] = <<>> /\ tr[n] = None
      BY <2>1, <2>2 DEF Attached
    <3> QED BY <3>1
  <2>3. CASE u \in VisOf(p, o)
    <3>1. ld[n] \in Seq(Comments)
      BY <2>1, <2>3 DEF Attached, LeadingFrom
    <3>2. tr[n] = lines[PosOf(p, lines, o)[u]].note \/ tr[n] = None
      BY <2>1, <2>3 DEF Attached
    <3>3. PosOf(p, lines, o)[u] \in 1 .. Len(lines)
      BY PosOnLine
    <3>4. \A l \in 1 .. Len(lines) : lines[l].note \in Comments \cup {None}
      BY LineTypes DEF InOrder
    <3> QED BY <3>1, <3>2, <3>3, <3>4
  <2> QED BY <2>2, <2>3
<1> QED BY <1>1 DEF Comfortable

(***************************************************************************)
(* The passes.  What a pass writes is what the walk attached, printed; the *)
(* first starts at the source, the second at what the first has written.   *)
(***************************************************************************)

FirstOrder(p, s) == PrintOrderOf(p, s, Straight(p))

FirstPrint(p, s, t) ==
  \E ld, tr : Attached(p, s, Straight(p), ld, tr) /\ t = Printed(p, FirstOrder(p, s), ld, tr)

SecondPrint(p, s, t, t2) ==
  \E ld, tr : /\ Attached(p, t, FirstOrder(p, s), ld, tr)
              /\ t2 = Printed(p, PrintOrderOf(p, t, FirstOrder(p, s)), ld, tr)

PassInv ==
  /\ FileOK(program, source)
  /\ \/ pass = 0 /\ phase \in {"read", "attach"} /\ text = source
     \/ pass = 1 /\ text = once /\ FirstPrint(program, source, once)
     \/ /\ pass = 2 /\ phase = "printed"
        /\ FirstPrint(program, source, once) /\ SecondPrint(program, source, once, text)

FormatInv == PassInv /\ (phase = "attach" => WalkInv)

(* The first pass writes the nodes in one order, with the comments it attached. *)
LEMMA FirstPrintLaidOut ==
  ASSUME NEW p, NEW s, FileOK(p, s), NEW t, FirstPrint(p, s, t)
  PROVE  /\ InOrder(p, s, Straight(p)) /\ Permutation(p, FirstOrder(p, s)) /\ InOrder(p, t, FirstOrder(p, s))
         /\ \E ld, tr, e : /\ Attached(p, s, Straight(p), ld, tr) /\ Comfortable(p, ld, tr)
                           /\ LayOut(p, FirstOrder(p, s), ld, tr, e, t)
<1>1. InOrder(p, s, Straight(p)) /\ p \in Program
  BY SourceInOrder DEF InOrder
<1>2. Permutation(p, FirstOrder(p, s))
  BY <1>1, PrintOrderSorted DEF FirstOrder
<1>3. PICK ld, tr : Attached(p, s, Straight(p), ld, tr) /\ t = Printed(p, FirstOrder(p, s), ld, tr)
  BY DEF FirstPrint
<1>4. Comfortable(p, ld, tr)
  BY <1>1, <1>3, AttachedComments
<1>5. PICK e : LayOut(p, FirstOrder(p, s), ld, tr, e, t)
  BY <1>1, <1>2, <1>3, <1>4, PrintedLines
<1>6. InOrder(p, t, FirstOrder(p, s))
  BY <1>1, <1>2, <1>4, <1>5, PrintedInOrder
<1> QED BY <1>1, <1>2, <1>3, <1>4, <1>5, <1>6

(* What is read is a file: the source, or what the first pass wrote. *)
LEMMA TextInOrder ==
  ASSUME PassInv, phase # "printed"
  PROVE  /\ InOrder(program, text, Parsed(text))
         /\ pass = 0 => text = source /\ Parsed(text) = Straight(program)
         /\ pass # 0 => pass = 1 /\ text = once /\ Parsed(text) = FirstOrder(program, source)
<1>1. CASE pass = 0
  <2>1. text = source /\ FileOK(program, source)
    BY <1>1 DEF PassInv
  <2>2. InOrder(program, text, Straight(program))
    BY <2>1, SourceInOrder
  <2>3. Parsed(text) = Straight(program)
    BY <2>2, ParsedInOrder
  <2> QED BY <1>1, <2>1, <2>2, <2>3
<1>2. CASE pass # 0
  <2>1. pass = 1 /\ text = once /\ FirstPrint(program, source, once) /\ FileOK(program, source)
    BY <1>2 DEF PassInv
  <2>2. InOrder(program, text, FirstOrder(program, source))
    BY <2>1, FirstPrintLaidOut
  <2>3. Parsed(text) = FirstOrder(program, source)
    BY <2>2, ParsedInOrder
  <2> QED BY <1>2, <2>1, <2>2, <2>3
<1> QED BY <1>1, <1>2

(* A pass writes what it has attached. *)
LEMMA PrintTreeWrites ==
  ASSUME FormatInv, PrintTree
  PROVE  PassInv'
<1>1. /\ phase = "attach" /\ text' = PrintProgram /\ once' = (IF pass = 0 THEN text' ELSE once)
      /\ pass' = pass + 1 /\ phase' = "printed" /\ program' = program /\ source' = source
      /\ at = Len(order) /\ open = <<>>
  BY DEF PrintTree
<1>2. PassInv /\ WalkInv /\ FileOK(program, source)
  BY <1>1 DEF FormatInv, PassInv
<1>3. Attached(program, text, order, leading, trailing)
  BY <1>1, <1>2, WalkAttaches
<1>4. text' = Printed(program, PrintOrderOf(program, text, order), leading, trailing)
  BY <1>1, PrintIsPrinted
<1>5. order = Parsed(text)
  BY <1>2, ParsedInOrder DEF WalkInv
<1>6. CASE pass = 0
  <2>1. text = source /\ order = Straight(program)
    BY <1>1, <1>2, <1>5, <1>6, TextInOrder
  <2>2. FirstPrint(program, source, text')
    BY <1>3, <1>4, <2>1 DEF FirstPrint, FirstOrder
  <2>3. pass' = 1 /\ once' = text' /\ FirstPrint(program', source', once') /\ FileOK(program', source')
    BY <1>1, <1>2, <1>6, <2>2
  <2> QED BY <2>3 DEF PassInv
<1>7. CASE pass # 0
  <2>1. pass = 1 /\ text = once /\ order = FirstOrder(program, source)
    BY <1>1, <1>2, <1>5, <1>7, TextInOrder
  <2>2. FirstPrint(program, source, once)
    BY <1>2, <2>1 DEF PassInv
  <2>3. SecondPrint(program, source, once, text')
    BY <1>3, <1>4, <2>1 DEF SecondPrint
  <2>4. pass' = 2 /\ once' = once /\ FirstPrint(program', source', once')
        /\ SecondPrint(program', source', once', text') /\ FileOK(program', source')
    BY <1>1, <1>2, <1>7, <2>1, <2>2, <2>3
  <2> QED BY <1>1, <2>4 DEF PassInv
<1> QED BY <1>6, <1>7

(* It holds when a file is chosen. *)
LEMMA FormatInit ==
  ASSUME Init
  PROVE  FormatInv
<1>1. PICK f \in Inputs : program = f.program /\ source = f.lines
  BY DEF Init
<1>2. FileOK(program, source)
  BY <1>1, InputsAssumption
<1>3. text = source /\ phase = "read" /\ pass = 0
  BY DEF Init
<1> QED BY <1>2, <1>3 DEF FormatInv, PassInv

(* Every step keeps it. *)
LEMMA FormatNext ==
  ASSUME FormatInv, [Next]_vars
  PROVE  FormatInv'
<1>1. CASE Read
  <2>1. phase = "read" /\ PassInv
    BY <1>1 DEF Read, FormatInv
  <2>2. WalkInv'
    BY <1>1, <2>1, TextInOrder, ReadWalks
  <2>3. PassInv'
    BY <1>1, <2>1 DEF PassInv, Read
  <2> QED BY <2>2, <2>3 DEF FormatInv
<1>2. CASE AttachLeading
  <2>1. phase = "attach" /\ UNCHANGED <<program, source, text, phase, pass, once>>
    BY <1>2 DEF AttachLeading, Arriving
  <2>2. WalkInv'
    BY <1>2, <2>1, LeadingWalks DEF FormatInv
  <2>3. PassInv'
    BY <2>1 DEF PassInv, FormatInv
  <2> QED BY <2>2, <2>3 DEF FormatInv
<1>3. CASE PassBy
  <2>1. phase = "attach" /\ UNCHANGED <<program, source, text, phase, pass, once>>
    BY <1>3 DEF PassBy, Arriving
  <2>2. WalkInv'
    BY <1>3, <2>1, PassWalks DEF FormatInv
  <2>3. PassInv'
    BY <2>1 DEF PassInv, FormatInv
  <2> QED BY <2>2, <2>3 DEF FormatInv
<1>4. CASE AttachTrailing
  <2>1. phase = "attach" /\ UNCHANGED <<program, source, text, phase, pass, once>>
    BY <1>4 DEF AttachTrailing
  <2>2. WalkInv'
    BY <1>4, <2>1, TrailingWalks DEF FormatInv
  <2>3. PassInv'
    BY <2>1 DEF PassInv, FormatInv
  <2> QED BY <2>2, <2>3 DEF FormatInv
<1>5. CASE PrintTree
  <2>1. phase' = "printed"
    BY <1>5 DEF PrintTree
  <2> QED BY <1>5, <2>1, PrintTreeWrites DEF FormatInv
<1>6. CASE FormatAgain
  BY <1>6 DEF FormatAgain, FormatInv, PassInv
<1>7. CASE UNCHANGED vars
  <2>1. PassInv'
    BY <1>7 DEF vars, PassInv, FormatInv
  <2>2. phase' = "attach" => WalkInv'
    BY <1>7 DEF vars, WalkInv, FormatInv
  <2> QED BY <2>1, <2>2 DEF FormatInv
<1> QED BY <1>1, <1>2, <1>3, <1>4, <1>5, <1>6, <1>7 DEF Next

(* Every pass works on a file, and writes what its walk has attached. *)
THEOREM PassesCorrect == Spec => []FormatInv
<1>1. Init => FormatInv
  BY FormatInit
<1>2. FormatInv /\ [Next]_vars => FormatInv'
  BY FormatNext
<1> QED BY <1>1, <1>2, PTL DEF Spec

(***************************************************************************)
(* Where a comment is printed.  A comment of the source is above one node  *)
(* or behind one, and not both; if it has a place it has a line.           *)
(***************************************************************************)

PrintsAbove(p, s, l, n) ==
  /\ n \in VisOf(p, Straight(p))
  /\ LeadsTo(PosOf(p, s, Straight(p)), DepOf(p, Straight(p)), VisOf(p, Straight(p)), l, n)

PrintsBehind(p, s, l, n) ==
  /\ n \in VisOf(p, Straight(p)) /\ PosOf(p, s, Straight(p))[n] = l
  /\ Waits(DepOf(p, Straight(p)), VisOf(p, Straight(p)), n)
  /\ p[n].kind # "mute"

(* A node is given a comment above it if the comment's line leads to it, and once. *)
LEMMA AboveOnce ==
  ASSUME NEW p, NEW s, FileOK(p, s), NEW ld, NEW tr, Attached(p, s, Straight(p), ld, tr),
         NEW l \in 1 .. Len(s), NEW c, c = s[l].note, c # None, NEW n \in 1 .. Len(p)
  PROVE  /\ PrintsAbove(p, s, l, n) <=> \E j \in 1 .. Len(ld[n]) : ld[n][j] = c
         /\ \A j, k \in 1 .. Len(ld[n]) : ld[n][j] = c /\ ld[n][k] = c => j = k
<1> DEFINE o == Straight(p)
           pos == PosOf(p, s, o)
           dep == DepOf(p, o)
           vis == VisOf(p, o)
<1>1. o[n] = n
  BY DEF Straight
<1>2. CASE n \notin vis
  <2>1. ld[n] = <<>>
    BY <1>1, <1>2 DEF Attached
  <2>2. Len(ld[n]) = 0 /\ \A j \in 1 .. 0 : FALSE
    BY <2>1
  <2> QED BY <1>2, <2>2 DEF PrintsAbove
<1>3. CASE n \in vis
  <2> HIDE DEF o, pos, dep, vis
  <2>1. LeadingFrom(pos, dep, vis, s, ld[n], n)
    BY <1>1, <1>3 DEF Attached, o, pos, dep, vis
  <2>2. PICK f \in [1 .. Len(ld[n]) -> 1 .. Len(s)] :
          /\ \A j, k \in 1 .. Len(ld[n]) : j < k => f[j] < f[k]
          /\ \A j \in 1 .. Len(ld[n]) : /\ ld[n][j] = s[f[j]].note
                                        /\ LeadsTo(pos, dep, vis, f[j], n)
          /\ \A x \in 1 .. Len(s) : s[x].note # None /\ LeadsTo(pos, dep, vis, x, n)
                                      => \E j \in 1 .. Len(ld[n]) : f[j] = x
    BY <2>1 DEF LeadingFrom
  <2>3. Len(ld[n]) \in Nat /\ Len(s) \in Nat
    <3>1. ld[n] \in Seq(Comments) /\ s \in Lines(p)
      BY <2>1 DEF LeadingFrom, FileOK, Lines
    <3> QED BY <3>1, LenProperties DEF Lines
  <2>4. ASSUME NEW j \in 1 .. Len(ld[n]), ld[n][j] = c
        PROVE  f[j] = l
    <3>1. f[j] \in 1 .. Len(s) /\ s[f[j]].note = s[l].note /\ s[f[j]].note # None
      BY <2>2, <2>4
    <3> QED BY <3>1 DEF FileOK
  <2>5. ASSUME NEW j \in 1 .. Len(ld[n]), NEW k \in 1 .. Len(ld[n]), ld[n][j] = c, ld[n][k] = c
        PROVE  j = k
    <3>1. f[j] = l /\ f[k] = l /\ l \in Nat
      BY <2>3, <2>4, <2>5
    <3>2. ~(j < k) /\ ~(k < j)
      BY <2>2, <3>1
    <3> QED BY <2>3, <3>2
  <2>6. ASSUME LeadsTo(pos, dep, vis, l, n)
        PROVE  \E j \in 1 .. Len(ld[n]) : ld[n][j] = c
    BY <2>2, <2>6
  <2>7. (\E j \in 1 .. Len(ld[n]) : ld[n][j] = c) => LeadsTo(pos, dep, vis, l, n)
    BY <2>2, <2>4
  <2>8. PrintsAbove(p, s, l, n) <=> LeadsTo(pos, dep, vis, l, n)
    BY <1>3 DEF PrintsAbove, o, pos, dep, vis
  <2> QED BY <2>5, <2>6, <2>7, <2>8
<1> QED BY <1>2, <1>3

(* It is given the comment beside it if nothing visited is inside. *)
LEMMA BehindOnce ==
  ASSUME NEW p, NEW s, FileOK(p, s), NEW ld, NEW tr, Attached(p, s, Straight(p), ld, tr),
         NEW l \in 1 .. Len(s), NEW c, c = s[l].note, c # None, NEW n \in 1 .. Len(p)
  PROVE  PrintsBehind(p, s, l, n) <=> BehindOf(p, tr, n) = c
<1> DEFINE o == Straight(p)
           pos == PosOf(p, s, o)
           dep == DepOf(p, o)
           vis == VisOf(p, o)
<1>1. o[n] = n /\ InOrder(p, s, o)
  BY SourceInOrder DEF Straight
<1>2. pos[n] \in 1 .. Len(s)
  BY <1>1, PosOnLine
<1> HIDE DEF o, pos, dep, vis
<1>3. n \notin vis => tr[n] = None
  BY <1>1 DEF Attached, o, pos, dep, vis
<1>4. n \in vis => tr[n] = IF Waits(dep, vis, n) THEN s[pos[n]].note ELSE None
  BY <1>1 DEF Attached, o, pos, dep, vis
<1>5. s[pos[n]].note = c <=> pos[n] = l
  BY <1>2 DEF FileOK
<1>6. PrintsBehind(p, s, l, n) <=> n \in vis /\ pos[n] = l /\ Waits(dep, vis, n) /\ p[n].kind # "mute"
  BY DEF PrintsBehind, o, pos, dep, vis
<1> QED BY <1>3, <1>4, <1>5, <1>6 DEF BehindOf

(* A comment is above one node or behind one. *)
LEMMA OneHome ==
  ASSUME NEW p, NEW s, FileOK(p, s), NEW l \in 1 .. Len(s),
         NEW n \in 1 .. Len(p), NEW k \in 1 .. Len(p)
  PROVE  /\ PrintsAbove(p, s, l, n) /\ PrintsAbove(p, s, l, k) => n = k
         /\ ~ (PrintsAbove(p, s, l, n) /\ PrintsBehind(p, s, l, k))
         /\ PrintsBehind(p, s, l, n) /\ PrintsBehind(p, s, l, k) => n = k
<1> DEFINE o == Straight(p)
           pos == PosOf(p, s, o)
           dep == DepOf(p, o)
           vis == VisOf(p, o)
<1>1. WalkOf(Len(p), pos, dep, vis, ExtractComments(s)) /\ InOrder(p, s, o)
  BY SourceInOrder, WalkOfFile
<1>2. Len(s) \in Nat
  BY <1>1, LineTypes DEF InOrder
<1> HIDE DEF o, pos, dep, vis
<1>3. /\ Len(p) \in Nat /\ pos \in [1 .. Len(p) -> Nat] /\ vis \subseteq 1 .. Len(p)
      /\ \A u, w \in 1 .. Len(p) : u < w => pos[u] < pos[w]
  BY <1>1 DEF WalkOf
<1>4. ASSUME NEW u \in vis, NEW w \in vis, LeadsTo(pos, dep, vis, l, w), u < w
      PROVE  ~(l < pos[u])
  BY <1>2, <1>3, <1>4 DEF LeadsTo
<1>5. ASSUME n \in vis, k \in vis, LeadsTo(pos, dep, vis, l, n), LeadsTo(pos, dep, vis, l, k)
      PROVE  n = k
  <2>1. l < pos[n] /\ l < pos[k]
    BY <1>5 DEF LeadsTo
  <2>2. ~(n < k) /\ ~(k < n)
    BY <1>4, <1>5, <2>1
  <2> QED BY <1>3, <2>2
<1>6. ASSUME n \in vis, k \in vis, LeadsTo(pos, dep, vis, l, n), pos[k] = l, Waits(dep, vis, k)
      PROVE  FALSE
  <2>1. l < pos[n]
    BY <1>6 DEF LeadsTo
  <2>2. ~(n < k) /\ n # k
    BY <1>2, <1>3, <1>6, <2>1
  <2>3. k < n
    BY <1>3, <2>2
  <2>4. NestedIn(dep, k, n)
    BY <1>2, <1>6, <2>3 DEF LeadsTo
  <2> QED BY <1>6, <2>4 DEF Waits
<1>7. ASSUME pos[n] = l, pos[k] = l
      PROVE  n = k
  <2>1. ~(n < k) /\ ~(k < n)
    BY <1>2, <1>3, <1>7
  <2> QED BY <1>3, <2>1
<1>8. PrintsAbove(p, s, l, n) <=> n \in vis /\ LeadsTo(pos, dep, vis, l, n)
  BY DEF PrintsAbove, o, pos, dep, vis
<1>9. PrintsAbove(p, s, l, k) <=> k \in vis /\ LeadsTo(pos, dep, vis, l, k)
  BY DEF PrintsAbove, o, pos, dep, vis
<1>10. PrintsBehind(p, s, l, n) => n \in vis /\ pos[n] = l /\ Waits(dep, vis, n)
  BY DEF PrintsBehind, o, pos, dep, vis
<1>11. PrintsBehind(p, s, l, k) => k \in vis /\ pos[k] = l /\ Waits(dep, vis, k)
  BY DEF PrintsBehind, o, pos, dep, vis
<1> QED BY <1>5, <1>6, <1>7, <1>8, <1>9, <1>10, <1>11

(* The nodes a comment can go to: one on its line, unless it is mute, or one below. *)
PlaceFor(p, s, l) ==
  LET o    == Straight(p)
      here == {n \in VisOf(p, o) : PosOf(p, s, o)[n] = l}
  IN  IF here = {} THEN \E n \in VisOf(p, o) : PosOf(p, s, o)[n] > l
      ELSE \E n \in here : p[n].kind # "mute"

(* Inside a node are the nodes nested in it. *)
LEMMA WithinIsNested ==
  ASSUME NEW p, p \in Program, NEW n \in 1 .. Len(p), NEW m \in 1 .. Len(p)
  PROVE  Within(p, n, m) <=> NestedIn(DepOf(p, Straight(p)), n, m)
<1>1. Len(p) \in Nat
  BY LenProperties DEF Program
<1>2. \A k \in 1 .. Len(p) : DepOf(p, Straight(p))[k] = p[k].depth
  BY DEF DepOf, Straight
<1>3. \A k \in n + 1 .. m : k \in 1 .. Len(p)
  BY <1>1
<1> QED BY <1>2, <1>3 DEF Within, NestedIn

(* A comment beside anything but a head waits for it: only heads have visited nodes inside. *)
LEMMA OnlyHeadsEnclose ==
  ASSUME NEW p, NEW s, FileOK(p, s), NEW n \in VisOf(p, Straight(p)), p[n].kind # "head"
  PROVE  Waits(DepOf(p, Straight(p)), VisOf(p, Straight(p)), n)
<1> DEFINE o == Straight(p)
           dep == DepOf(p, o)
           vis == VisOf(p, o)
<1>1. p \in Program
  BY SourceInOrder DEF InOrder
<1>2. \A k \in vis : k \in 1 .. Len(p) /\ p[k].kind # "section"
  BY DEF VisOf, Straight
<1>3. n \in vis
  OBVIOUS
<1> HIDE DEF vis
<1>5. ASSUME NEW k \in vis, NestedIn(dep, n, k)
      PROVE  FALSE
  <2>1. Within(p, n, k)
    BY <1>1, <1>2, <1>3, <1>5, WithinIsNested
  <2>2. p[n].kind = "head"
    BY <1>2, <1>3, <2>1 DEF FileOK
  <2> QED BY <2>2
<1>6. Waits(dep, vis, n)
  BY <1>5 DEF Waits
<1> QED BY <1>6 DEF o, dep, vis

(* A comment has a home if and only if it has such a place. *)
LEMMA HomeExists ==
  ASSUME NEW p, NEW s, FileOK(p, s), NEW l \in 1 .. Len(s)
  PROVE  PlaceFor(p, s, l) <=>
           \E n \in 1 .. Len(p) : PrintsAbove(p, s, l, n) \/ PrintsBehind(p, s, l, n)
<1> DEFINE o == Straight(p)
           pos == PosOf(p, s, o)
           dep == DepOf(p, o)
           vis == VisOf(p, o)
           here == {n \in vis : pos[n] = l}
<1>1. WalkOf(Len(p), pos, dep, vis, ExtractComments(s)) /\ InOrder(p, s, o)
  BY SourceInOrder, WalkOfFile
<1>2. Len(s) \in Nat /\ l \in Nat
  BY <1>1, LineTypes DEF InOrder
<1>a. \A n : PrintsAbove(p, s, l, n) <=> n \in vis /\ LeadsTo(pos, dep, vis, l, n)
  BY DEF PrintsAbove
<1>b. \A n : PrintsBehind(p, s, l, n) <=>
               n \in vis /\ pos[n] = l /\ Waits(dep, vis, n) /\ p[n].kind # "mute"
  BY DEF PrintsBehind
<1>c. PlaceFor(p, s, l) <=> IF here = {} THEN \E n \in vis : pos[n] > l
                                          ELSE \E n \in here : p[n].kind # "mute"
  BY DEF PlaceFor
<1> HIDE DEF o, pos, dep, vis
<1>3. /\ Len(p) \in Nat /\ pos \in [1 .. Len(p) -> Nat] /\ vis \subseteq 1 .. Len(p)
      /\ \A u, w \in 1 .. Len(p) : u < w => pos[u] < pos[w]
  BY <1>1 DEF WalkOf
<1>4. ASSUME NEW w \in here
      PROVE  /\ Waits(dep, vis, w) \/ \E u \in vis : LeadsTo(pos, dep, vis, l, u)
             /\ \A n \in here : n = w
  <2>1. w \in 1 .. Len(p) /\ w \in vis /\ pos[w] = l
    BY <1>3
  <2>2. ASSUME ~ Waits(dep, vis, w)
        PROVE  \E u \in vis : LeadsTo(pos, dep, vis, l, u)
    <3> DEFINE B == {u \in vis : NestedIn(dep, w, u)}
    <3>0. \A x \in vis : x \in Nat
      BY <1>3
    <3>1. B \in SUBSET Nat /\ B # {}
      <4>1. B \in SUBSET Nat
        BY <3>0
      <4>2. \E x \in vis : NestedIn(dep, w, x)
        BY <2>2 DEF Waits
      <4> QED BY <4>1, <4>2
    <3>2. PICK u \in B : \A y \in B : u <= y
      <4> HIDE DEF B
      <4> QED BY <3>1, LeastElement
    <3>3. u \in 1 .. Len(p) /\ u \in vis /\ NestedIn(dep, w, u) /\ w < u
      BY <1>3, <3>2 DEF NestedIn
    <3>4. l < pos[u]
      BY <1>3, <2>1, <3>3
    <3>5. ASSUME NEW x \in vis, x < u
          PROVE  pos[x] < l \/ (pos[x] = l /\ NestedIn(dep, x, u))
      <4>1. x \in 1 .. Len(p)
        BY <1>3
      <4>2. CASE x < w
        BY <1>3, <2>1, <4>1, <4>2
      <4>3. CASE x = w
        BY <2>1, <3>3, <4>3
      <4>4. CASE w < x
        <5>1. \A k \in w + 1 .. x : k \in w + 1 .. u
          BY <1>3, <2>1, <3>3, <3>5, <4>1
        <5>2. NestedIn(dep, w, x)
          BY <3>3, <4>4, <5>1 DEF NestedIn
        <5>3. u <= x
          BY <3>2, <5>2
        <5> QED BY <1>3, <3>3, <3>5, <4>1, <5>3
      <4> QED BY <1>3, <2>1, <4>1, <4>2, <4>3, <4>4
    <3>6. LeadsTo(pos, dep, vis, l, u)
      BY <3>4, <3>5 DEF LeadsTo
    <3> QED BY <3>3, <3>6
  <2>3. ASSUME NEW n \in here
        PROVE  n = w
    <3>1. n \in 1 .. Len(p) /\ pos[n] = l
      BY <1>3
    <3>2. ~(n < w) /\ ~(w < n)
      BY <1>2, <1>3, <2>1, <3>1
    <3> QED BY <1>3, <2>1, <3>1, <3>2
  <2> QED BY <2>2, <2>3
<1>5. CASE here = {}
  <2>1. ASSUME NEW n \in vis, pos[n] > l
        PROVE  \E u \in vis : LeadsTo(pos, dep, vis, l, u)
    <3> DEFINE B == {u \in vis : pos[u] > l}
    <3>0. \A x \in vis : x \in Nat
      BY <1>3
    <3>1. B \in SUBSET Nat /\ n \in B
      BY <2>1, <3>0
    <3>2. PICK u \in B : \A y \in B : u <= y
      <4> HIDE DEF B
      <4> QED BY <3>1, LeastElement
    <3>3. u \in 1 .. Len(p) /\ u \in vis /\ l < pos[u]
      BY <1>2, <1>3, <3>2
    <3>4. ASSUME NEW x \in vis, x < u
          PROVE  pos[x] < l
      <4>1. x \in 1 .. Len(p) /\ pos[x] \in Nat
        BY <1>3
      <4>2. pos[x] # l
        BY <1>5
      <4>3. ~(pos[x] > l)
        BY <1>3, <3>2, <3>3, <3>4, <4>1
      <4> QED BY <1>2, <4>1, <4>2, <4>3
    <3>5. LeadsTo(pos, dep, vis, l, u)
      BY <3>3, <3>4 DEF LeadsTo
    <3> QED BY <3>3, <3>5
  <2>2. ASSUME NEW n \in vis, LeadsTo(pos, dep, vis, l, n)
        PROVE  pos[n] > l
    BY <1>2, <1>3, <2>2 DEF LeadsTo
  <2>3. \A n \in vis : pos[n] # l
    BY <1>5
  <2> HIDE DEF here
  <2> QED BY <1>3, <1>5, <1>a, <1>b, <1>c, <2>1, <2>2, <2>3
<1>6. CASE here # {}
  <2>1. PICK w \in here : TRUE
    BY <1>6
  <2>2. w \in vis /\ pos[w] = l /\ w \in 1 .. Len(p)
    BY <1>3
  <2>3. CASE p[w].kind # "mute"
    <3>1. PlaceFor(p, s, l)
      BY <1>6, <1>c, <2>1, <2>3
    <3>2. \E n \in 1 .. Len(p) : PrintsAbove(p, s, l, n) \/ PrintsBehind(p, s, l, n)
      <4>1. CASE Waits(dep, vis, w)
        <5>1. PrintsBehind(p, s, l, w)
          BY <1>b, <2>2, <2>3, <4>1
        <5> QED BY <2>2, <5>1
      <4>2. CASE ~ Waits(dep, vis, w)
        <5>1. PICK u \in vis : LeadsTo(pos, dep, vis, l, u)
          BY <1>4, <4>2
        <5>2. PrintsAbove(p, s, l, u) /\ u \in 1 .. Len(p)
          BY <1>3, <1>a, <5>1
        <5> QED BY <5>2
      <4> QED BY <4>1, <4>2
    <3> QED BY <3>1, <3>2
  <2>4. CASE p[w].kind = "mute"
    <3>1. ~ PlaceFor(p, s, l)
      BY <1>4, <1>6, <1>c, <2>4
    <3>2. Waits(dep, vis, w)
      <4>1. p[w].kind # "head"
        BY <2>4
      <4> QED BY <2>2, <4>1, OnlyHeadsEnclose DEF o, dep, vis
    <3>3. ASSUME NEW n \in 1 .. Len(p), PrintsAbove(p, s, l, n) PROVE FALSE
      <4>1. n \in vis /\ LeadsTo(pos, dep, vis, l, n)
        BY <1>a, <3>3
      <4>2. l < pos[n]
        BY <4>1 DEF LeadsTo
      <4>3. ~(n < w) /\ n # w
        BY <1>2, <1>3, <2>2, <4>2
      <4>4. w < n
        BY <1>3, <2>2, <4>3
      <4>5. NestedIn(dep, w, n)
        BY <1>2, <2>2, <4>1, <4>4 DEF LeadsTo
      <4> QED BY <3>2, <4>1, <4>5 DEF Waits
    <3>4. ASSUME NEW n \in 1 .. Len(p), PrintsBehind(p, s, l, n) PROVE FALSE
      <4>1. n \in here /\ p[n].kind # "mute"
        BY <1>b, <3>4
      <4>2. n = w
        BY <1>4, <4>1
      <4> QED BY <2>4, <4>1, <4>2
    <3> QED BY <3>1, <3>3, <3>4
  <2> QED BY <2>3, <2>4
<1> QED BY <1>5, <1>6

(* Where comment c is in the i-th part of what was printed. *)
Spot(p, po, ld, tr, e, c, i, k) ==
  \/ \E j \in 1 .. Len(ld[po[i]]) : k = e[i - 1] + j /\ ld[po[i]][j] = c
  \/ k = e[i] /\ BehindOf(p, tr, po[i]) = c

(* Those are the lines of the comment. *)
SpotsAre(p, po, ld, tr, e, t, c) ==
  /\ \A i \in 1 .. Len(p) : \A j \in 1 .. Len(ld[po[i]]) : ld[po[i]][j] = c =>
       e[i - 1] + j \in 1 .. Len(t) /\ t[e[i - 1] + j].node = 0 /\ t[e[i - 1] + j].note = c
  /\ \A i \in 1 .. Len(p) : BehindOf(p, tr, po[i]) = c =>
       e[i] \in 1 .. Len(t) /\ t[e[i]].node = po[i] /\ t[e[i]].note = c
  /\ \A k \in 1 .. Len(t) : t[k].note = c =>
       \E i \in 1 .. Len(p) : Spot(p, po, ld, tr, e, c, i, k)

(* A comment is on the lines where a node prints it, and on no others. *)
LEMMA SpotsOfComment ==
  ASSUME NEW p \in Program, NEW po, Permutation(p, po), NEW ld, NEW tr, Comfortable(p, ld, tr),
         NEW e, NEW t, LayOut(p, po, ld, tr, e, t), NEW c, c # None
  PROVE  SpotsAre(p, po, ld, tr, e, t, c)
<1>1. Len(p) \in Nat /\ Len(t) \in Nat
  BY LineTypes DEF LayOut
<1>2. ASSUME NEW i \in 1 .. Len(p), NEW j \in 1 .. Len(ld[po[i]]), ld[po[i]][j] = c
      PROVE  e[i - 1] + j \in 1 .. Len(t) /\ t[e[i - 1] + j].node = 0 /\ t[e[i - 1] + j].note = c
  <2>1. PICK b \in Nat : b = e[i - 1]
    BY PrintedAt
  <2>2. PICK a \in Nat : a = Len(ld[po[i]])
    BY PrintedAt
  <2>3. PICK z \in Nat : z = e[i]
    BY PrintedAt
  <2>4. b + a < z /\ z <= Len(t)
    BY <2>1, <2>2, <2>3, PrintedAt
  <2>5. b + j \in 1 .. Len(t)
    BY <1>1, <2>2, <2>4
  <2>6. t[b + j] = NoteLine(ld[po[i]][j])
    BY <2>1 DEF LayOut
  <2>7. t[b + j].node = 0 /\ t[b + j].note = c
    BY <1>2, <2>6 DEF NoteLine
  <2> QED BY <2>1, <2>5, <2>7
<1>3. ASSUME NEW i \in 1 .. Len(p), BehindOf(p, tr, po[i]) = c
      PROVE  e[i] \in 1 .. Len(t) /\ t[e[i]].node = po[i] /\ t[e[i]].note = c
  <2>1. PICK b \in Nat : b = e[i - 1]
    BY PrintedAt
  <2>2. PICK a \in Nat : a = Len(ld[po[i]])
    BY PrintedAt
  <2>3. PICK z \in Nat : z = e[i]
    BY PrintedAt
  <2>4. b + a < z /\ z <= Len(t)
    BY <2>1, <2>2, <2>3, PrintedAt
  <2>5. z \in 1 .. Len(t) /\ b < z /\ z <= z /\ ~(z <= b + a)
    BY <1>1, <2>4
  <2>6. e[i] \in 1 .. Len(t) /\ e[i - 1] < e[i] /\ e[i] <= e[i] /\ ~(e[i] <= e[i - 1] + Len(ld[po[i]]))
    BY <2>1, <2>2, <2>3, <2>5
  <2>7. LineIs(p, po, ld, tr, e, t, i, z)
    <3>1. z \in 1 .. Len(t) /\ e[i - 1] < z /\ z <= e[i]
      BY <2>1, <2>3, <2>5
    <3> QED BY <3>1, PrintedLine
  <2>8. t[z].node = po[i] /\ t[z].note = c
    BY <1>3, <2>1, <2>2, <2>3, <2>5, <2>7 DEF LineIs
  <2> QED BY <2>3, <2>5, <2>8
<1>4. ASSUME NEW k \in 1 .. Len(t), t[k].note = c
      PROVE  \E i \in 1 .. Len(p) : Spot(p, po, ld, tr, e, c, i, k)
  <2>1. PICK i \in 1 .. Len(p) : e[i - 1] < k /\ k <= e[i]
    BY DEF LayOut
  <2>2. PICK b \in Nat : b = e[i - 1]
    BY PrintedAt
  <2>3. PICK a \in Nat : a = Len(ld[po[i]])
    BY PrintedAt
  <2>4. t[k] = IF k <= e[i - 1] + Len(ld[po[i]])
               THEN NoteLine(ld[po[i]][k - e[i - 1]])
               ELSE [node |-> po[i], note |-> IF k = e[i] THEN BehindOf(p, tr, po[i]) ELSE None,
                     pos |-> k = e[i - 1] + Len(ld[po[i]]) + p[po[i]].lands]
    BY <2>1, PrintedLine DEF LineIs
  <2>5. CASE k <= b + a
    <3>1. t[k] = NoteLine(ld[po[i]][k - b])
      BY <2>2, <2>3, <2>4, <2>5
    <3>2. ld[po[i]][k - b] = c
      BY <1>4, <3>1 DEF NoteLine
    <3>3. k - b \in 1 .. a /\ k = b + (k - b)
      BY <1>1, <2>1, <2>2, <2>5
    <3> QED BY <2>2, <2>3, <3>2, <3>3 DEF Spot
  <2>6. CASE ~(k <= b + a)
    <3>1. t[k].note = IF k = e[i] THEN BehindOf(p, tr, po[i]) ELSE None
      BY <2>2, <2>3, <2>4, <2>6
    <3>2. k = e[i] /\ BehindOf(p, tr, po[i]) = c
      BY <1>4, <3>1
    <3> QED BY <3>2 DEF Spot
  <2> QED BY <2>5, <2>6
<1> QED BY <1>2, <1>3, <1>4 DEF SpotsAre

CopiesOn(t, c) == Cardinality({l \in DOMAIN t : t[l].note = c})

(* The first pass prints a comment once if it has a place, and else not at all. *)
LEMMA CopiesPrinted ==
  ASSUME NEW p, NEW s, FileOK(p, s), NEW t, FirstPrint(p, s, t),
         NEW l \in 1 .. Len(s), NEW c, c = s[l].note, c # None
  PROVE  CopiesOn(t, c) = IF PlaceFor(p, s, l) THEN 1 ELSE 0
<1> DEFINE po == FirstOrder(p, s)
           K == {k \in DOMAIN t : t[k].note = c}
<1>1. PICK ld, tr, e : /\ Attached(p, s, Straight(p), ld, tr) /\ Comfortable(p, ld, tr)
                       /\ LayOut(p, po, ld, tr, e, t)
  BY FirstPrintLaidOut
<1>2. Permutation(p, po) /\ p \in Program
  BY FirstPrintLaidOut DEF FileOK, Program, Node
<1> HIDE DEF po
<1>3. DOMAIN t = 1 .. Len(t) /\ t \in Lines(p)
  BY <1>1, <1>2, LineTypes DEF LayOut
<1>a. SpotsAre(p, po, ld, tr, e, t, c)
  BY <1>1, <1>2, SpotsOfComment
<1>4. ASSUME NEW i \in 1 .. Len(p)
      PROVE  /\ po[i] \in 1 .. Len(p)
             /\ PrintsAbove(p, s, l, po[i]) <=> \E j \in 1 .. Len(ld[po[i]]) : ld[po[i]][j] = c
             /\ \A j, k \in 1 .. Len(ld[po[i]]) : ld[po[i]][j] = c /\ ld[po[i]][k] = c => j = k
             /\ PrintsBehind(p, s, l, po[i]) <=> BehindOf(p, tr, po[i]) = c
  <2>1. PICK n \in 1 .. Len(p) : n = po[i]
    BY <1>2 DEF Permutation
  <2>2. /\ PrintsAbove(p, s, l, n) <=> \E j \in 1 .. Len(ld[n]) : ld[n][j] = c
        /\ \A j, k \in 1 .. Len(ld[n]) : ld[n][j] = c /\ ld[n][k] = c => j = k
    BY <1>1, AboveOnce
  <2>3. PrintsBehind(p, s, l, n) <=> BehindOf(p, tr, n) = c
    BY <1>1, BehindOnce
  <2> QED BY <2>1, <2>2, <2>3
<1>5. ASSUME NEW x \in K, NEW y \in K
      PROVE  x = y
  <2>1. x \in 1 .. Len(t) /\ y \in 1 .. Len(t) /\ t[x].note = c /\ t[y].note = c
    BY <1>3
  <2>2. PICK i \in 1 .. Len(p) : Spot(p, po, ld, tr, e, c, i, x)
    BY <1>a, <2>1 DEF SpotsAre
  <2>3. PICK k \in 1 .. Len(p) : Spot(p, po, ld, tr, e, c, k, y)
    BY <1>a, <2>1 DEF SpotsAre
  <2>4. po[i] = po[k] => i = k
    BY <1>2 DEF Permutation
  <2>5. /\ PrintsAbove(p, s, l, po[i]) /\ PrintsAbove(p, s, l, po[k]) => po[i] = po[k]
        /\ ~ (PrintsAbove(p, s, l, po[i]) /\ PrintsBehind(p, s, l, po[k]))
        /\ ~ (PrintsAbove(p, s, l, po[k]) /\ PrintsBehind(p, s, l, po[i]))
        /\ PrintsBehind(p, s, l, po[i]) /\ PrintsBehind(p, s, l, po[k]) => po[i] = po[k]
    BY <1>4, OneHome
  <2>6. CASE PrintsAbove(p, s, l, po[i])
    <3>1. BehindOf(p, tr, po[i]) # c /\ BehindOf(p, tr, po[k]) # c
      <4>1. ~ PrintsBehind(p, s, l, po[i])
        BY <1>4, <2>6, OneHome
      <4> QED BY <1>4, <2>5, <2>6, <4>1
    <3>2. PICK j \in 1 .. Len(ld[po[i]]) : x = e[i - 1] + j /\ ld[po[i]][j] = c
      BY <2>2, <3>1 DEF Spot
    <3>3. PICK h \in 1 .. Len(ld[po[k]]) : y = e[k - 1] + h /\ ld[po[k]][h] = c
      BY <2>3, <3>1 DEF Spot
    <3>4. i = k
      BY <1>4, <2>4, <2>5, <2>6, <3>3
    <3>5. j = h
      BY <1>4, <3>2, <3>3, <3>4
    <3> QED BY <3>2, <3>3, <3>4, <3>5
  <2>7. CASE ~ PrintsAbove(p, s, l, po[i])
    <3>1. x = e[i] /\ BehindOf(p, tr, po[i]) = c
      BY <1>4, <2>2, <2>7 DEF Spot
    <3>2. PrintsBehind(p, s, l, po[i])
      BY <1>4, <3>1
    <3>3. y = e[k] /\ BehindOf(p, tr, po[k]) = c
      BY <1>4, <2>3, <2>5, <3>2 DEF Spot
    <3>4. i = k
      BY <1>4, <2>4, <2>5, <3>2, <3>3
    <3> QED BY <3>1, <3>3, <3>4
  <2> QED BY <2>6, <2>7
<1>6. K # {} <=> PlaceFor(p, s, l)
  <2>1. ASSUME NEW x \in K
        PROVE  \E n \in 1 .. Len(p) : PrintsAbove(p, s, l, n) \/ PrintsBehind(p, s, l, n)
    <3>1. x \in 1 .. Len(t) /\ t[x].note = c
      BY <1>3
    <3>2. PICK i \in 1 .. Len(p) : Spot(p, po, ld, tr, e, c, i, x)
      BY <1>a, <3>1 DEF SpotsAre
    <3>3. (\E j \in 1 .. Len(ld[po[i]]) : ld[po[i]][j] = c) \/ BehindOf(p, tr, po[i]) = c
      BY <3>2 DEF Spot
    <3> QED BY <1>4, <3>3
  <2>2. ASSUME NEW n \in 1 .. Len(p), PrintsAbove(p, s, l, n) \/ PrintsBehind(p, s, l, n)
        PROVE  K # {}
    <3>1. PICK i \in 1 .. Len(p) : po[i] = n
      BY <1>2 DEF Permutation
    <3>2. (\E j \in 1 .. Len(ld[po[i]]) : ld[po[i]][j] = c) \/ BehindOf(p, tr, po[i]) = c
      BY <1>4, <2>2, <3>1
    <3>3. CASE BehindOf(p, tr, po[i]) = c
      <4>1. e[i] \in 1 .. Len(t) /\ t[e[i]].node = po[i] /\ t[e[i]].note = c
        BY <1>a, <3>3 DEF SpotsAre
      <4>2. e[i] \in K
        BY <1>3, <4>1
      <4> QED BY <4>2
    <3>4. ASSUME NEW j \in 1 .. Len(ld[po[i]]), ld[po[i]][j] = c
          PROVE  K # {}
      <4>1. e[i - 1] + j \in 1 .. Len(t) /\ t[e[i - 1] + j].node = 0 /\ t[e[i - 1] + j].note = c
        BY <1>a, <3>4 DEF SpotsAre
      <4>2. e[i - 1] + j \in K
        BY <1>3, <4>1
      <4> QED BY <4>2
    <3> QED BY <3>2, <3>3, <3>4
  <2> HIDE DEF K
  <2>3. K # {} => \E n \in 1 .. Len(p) : PrintsAbove(p, s, l, n) \/ PrintsBehind(p, s, l, n)
    BY <2>1
  <2> QED BY <2>2, <2>3, HomeExists
<1>7. CopiesOn(t, c) = Cardinality(K)
  BY DEF CopiesOn
<1> HIDE DEF K
<1>8. CASE K = {}
  <2>1. Cardinality(K) = 0
    BY <1>8, FS_EmptySet
  <2> QED BY <1>6, <1>7, <1>8, <2>1
<1>9. CASE K # {}
  <2>1. PICK x : x \in K
    BY <1>9
  <2>2. K = {x}
    BY <1>5, <2>1
  <2>3. Cardinality(K) = 1
    BY <2>2, FS_Singleton
  <2> QED BY <1>6, <1>7, <1>9, <2>3
<1> QED BY <1>8, <1>9

(* After the first pass every comment is kept once, or had no place. *)
LEMMA KeptOnceHolds ==
  ASSUME FormatInv
  PROVE  KeptOnce
<1> SUFFICES ASSUME Formatted, NEW c \in InSource
             PROVE  Copies(c) = IF HasPlace(LineOf(c)) THEN 1 ELSE 0
  BY DEF KeptOnce
<1>1. FileOK(program, source) /\ FirstPrint(program, source, text)
  BY DEF FormatInv, PassInv, Formatted
<1>2. /\ DOMAIN source = 1 .. Len(source) /\ Nodes = 1 .. Len(program)
  <2>1. program \in Program /\ source \in Lines(program)
    BY <1>1 DEF FileOK, Program, Node, Lines
  <2> QED BY <2>1, LineTypes DEF Nodes
<1>3. PICK l \in 1 .. Len(source) : source[l].note = c /\ c # None
  BY <1>2 DEF InSource
<1>4. LineOf(c) = l
  <2>1. \A k \in DOMAIN source : source[k].note = c => k = l
    BY <1>1, <1>2, <1>3 DEF FileOK
  <2> QED BY <1>2, <1>3, <2>1 DEF LineOf
<1>5. CopiesOn(text, c) = IF PlaceFor(program, source, l) THEN 1 ELSE 0
  BY <1>1, <1>3, CopiesPrinted
<1>6. Copies(c) = CopiesOn(text, c)
  BY DEF Copies, CopiesOn
<1>7. HasPlace(l) <=> PlaceFor(program, source, l)
  <2> DEFINE positions == {n \in Nodes : Visited(n) /\ PosLine(source, n) = l}
             vis == VisOf(program, Straight(program))
             pos == PosOf(program, source, Straight(program))
             here == {n \in vis : pos[n] = l}
  <2>1. \A n \in 1 .. Len(program) : Straight(program)[n] = n
    BY DEF Straight
  <2>2. \A n : n \in vis <=> n \in Nodes /\ Visited(n)
    BY <1>2, <2>1 DEF VisOf, Visited
  <2>3. \A n \in 1 .. Len(program) : pos[n] = PosLine(source, n)
    BY <2>1 DEF PosOf, PosLine
  <2>4. here = positions
    BY <1>2, <2>2, <2>3
  <2>5. (\E n \in vis : pos[n] > l) <=> \E n \in Nodes : Visited(n) /\ PosLine(source, n) > l
    BY <1>2, <2>2, <2>3
  <2> QED BY <2>4, <2>5 DEF HasPlace, PlaceFor
<1> QED BY <1>4, <1>5, <1>6, <1>7

(* KeptOnce: the first pass prints every comment once, except the ones the walk has no node for and
   the ones behind a node that is not asked for them. *)
THEOREM CommentsKeptOnce == Spec => []KeptOnce
<1>1. FormatInv => KeptOnce
  BY KeptOnceHolds
<1> QED BY <1>1, PassesCorrect, PTL

(* The node below a line is the one of the next line of code, if that is its first. *)
LEMMA BelowIs ==
  ASSUME NEW p \in Program, NEW lines \in Lines(p), NEW l \in 1 .. Len(lines), NEW n, n # 0
  PROVE  Below(lines, l) = n <=>
           \E k \in l + 1 .. Len(lines) :
             /\ lines[k].node = n /\ k = FirstLine(lines, n)
             /\ \A j \in l + 1 .. Len(lines) : j < k => lines[j].node = 0
<1> DEFINE code == {k \in l + 1 .. Len(lines) : lines[k].node # 0}
<1>1. Len(lines) \in Nat /\ l \in Nat
  BY LineTypes
<1>2. ASSUME NEW k \in code, \A j \in code : k <= j
      PROVE  (CHOOSE x \in code : \A j \in code : x <= j) = k
  <2>1. ASSUME NEW x \in code, \A j \in code : x <= j
        PROVE  x = k
    <3>1. x <= k /\ k <= x /\ x \in Nat /\ k \in Nat
      BY <1>1, <1>2, <2>1
    <3> QED BY <3>1
  <2> HIDE DEF code
  <2> QED BY <1>2, <2>1
<1>3. ASSUME NEW k \in code, \A j \in code : k <= j
      PROVE  Below(lines, l) = IF k = FirstLine(lines, lines[k].node) THEN lines[k].node ELSE 0
  <2> DEFINE x == CHOOSE y \in code : \A j \in code : y <= j
  <2>1. Below(lines, l) = IF code = {} THEN 0
                          ELSE IF x = FirstLine(lines, lines[x].node) THEN lines[x].node ELSE 0
    BY DEF Below
  <2>2. x = k
    BY <1>2, <1>3
  <2>3. code # {}
    OBVIOUS
  <2> HIDE DEF code, x
  <2> QED BY <2>1, <2>2, <2>3
<1>4. code = {} => Below(lines, l) = 0
  BY DEF Below
<1>5. ASSUME Below(lines, l) = n
      PROVE  \E k \in l + 1 .. Len(lines) :
               /\ lines[k].node = n /\ k = FirstLine(lines, n)
               /\ \A j \in l + 1 .. Len(lines) : j < k => lines[j].node = 0
  <2>1. code # {} /\ code \in SUBSET Nat
    BY <1>1, <1>4, <1>5
  <2>2. PICK k \in code : \A j \in code : k <= j
    <3> HIDE DEF code
    <3> QED BY <2>1, LeastElement
  <2>3. k = FirstLine(lines, lines[k].node) /\ lines[k].node = n
    BY <1>3, <1>5, <2>2
  <2>4. ASSUME NEW j \in l + 1 .. Len(lines), j < k
        PROVE  lines[j].node = 0
    <3>1. ~(k <= j)
      BY <1>1, <2>4
    <3> QED BY <2>2, <3>1
  <2> QED BY <2>3, <2>4
<1>6. ASSUME NEW k \in l + 1 .. Len(lines), lines[k].node = n, k = FirstLine(lines, n),
             \A j \in l + 1 .. Len(lines) : j < k => lines[j].node = 0
      PROVE  Below(lines, l) = n
  <2>1. k \in code
    BY <1>6
  <2>2. ASSUME NEW j \in code PROVE k <= j
    <3>1. ~(j < k)
      BY <1>6
    <3> QED BY <1>1, <3>1
  <2> HIDE DEF code
  <2> QED BY <1>3, <1>6, <2>1, <2>2
<1> QED BY <1>5, <1>6

(* A comment right above a node leads to it. *)
LEMMA RightAbove ==
  ASSUME NEW p, NEW s, FileOK(p, s), NEW l \in 1 .. Len(s), s[l].node = 0,
         NEW n \in VisOf(p, Straight(p)), Below(s, l) = n
  PROVE  PrintsAbove(p, s, l, n)
<1> DEFINE o == Straight(p)
           pos == PosOf(p, s, o)
           vis == VisOf(p, o)
<1>1. InOrder(p, s, o) /\ p \in Program /\ s \in Lines(p)
  <2>1. InOrder(p, s, Straight(p))
    BY SourceInOrder
  <2> QED BY <2>1 DEF InOrder
<1>2. \A u \in 1 .. Len(p) : o[u] = u
  BY DEF Straight
<1>3. n \in 1 .. Len(p) /\ vis \subseteq 1 .. Len(p)
  BY DEF VisOf
<1>4. Len(p) \in Nat /\ Len(s) \in Nat
  BY <1>1, LineTypes
<1> HIDE DEF o, pos, vis
<1>5. n # 0
  BY <1>3, <1>4
<1>6. PICK k \in l + 1 .. Len(s) : /\ s[k].node = n /\ k = FirstLine(s, n)
                                   /\ \A j \in l + 1 .. Len(s) : j < k => s[j].node = 0
  BY <1>1, <1>5, BelowIs
<1>7. \A u \in 1 .. Len(p) :
        /\ pos[u] \in 1 .. Len(s) /\ s[pos[u]].node = u
        /\ FirstLine(s, u) <= pos[u] /\ pos[u] <= LastLine(s, u)
  BY <1>1, <1>2, PosOnLine DEF pos
<1>8. l < pos[n]
  <2>1. k <= pos[n] /\ pos[n] \in 1 .. Len(s)
    BY <1>3, <1>6, <1>7
  <2> QED BY <1>4, <2>1
<1>9. ASSUME NEW w \in vis, w < n
      PROVE  pos[w] < l
  <2>1. w \in 1 .. Len(p) /\ w # 0
    BY <1>3, <1>4
  <2>2. pos[w] \in 1 .. Len(s) /\ s[pos[w]].node = w /\ pos[w] <= LastLine(s, w)
    BY <1>7, <2>1
  <2>3. LastLine(s, w) < k
    <3>1. LastLine(s, o[w]) < FirstLine(s, o[n])
      BY <1>1, <1>3, <1>9, <2>1, OrderOfLines
    <3> QED BY <1>2, <1>3, <1>6, <2>1, <3>1
  <2>4. LastLine(s, w) \in 1 .. Len(s)
    <3>1. LastLine(s, o[w]) \in 1 .. Len(s)
      BY <1>1, <2>1, NodesOnLines
    <3> QED BY <1>2, <2>1, <3>1
  <2>5. pos[w] < k
    BY <1>4, <2>2, <2>3, <2>4
  <2>6. pos[w] # l
    BY <2>1, <2>2
  <2>7. pos[w] \notin l + 1 .. Len(s)
    BY <1>6, <2>1, <2>2, <2>5
  <2> QED BY <1>4, <2>2, <2>6, <2>7
<1>10. LeadsTo(pos, DepOf(p, o), vis, l, n)
  BY <1>8, <1>9 DEF LeadsTo
<1>11. n \in vis
  BY DEF vis, o
<1> QED BY <1>10, <1>11 DEF PrintsAbove, o, pos, vis

(* The nodes whose trailing comment is the one beside their position: the walk *)
(* attaches it to no other node, and the printer asks for it.                  *)
TakesIn(p, n) ==
  /\ p[n].kind \notin {"section", "mute"}
  /\ \A m \in 1 .. Len(p) : Within(p, n, m) => p[m].kind = "section"

(* Such a node waits for its trailing comment. *)
LEMMA TakesWaits ==
  ASSUME NEW p \in Program, NEW n \in 1 .. Len(p)
  PROVE  TakesIn(p, n) <=> /\ n \in VisOf(p, Straight(p)) /\ p[n].kind # "mute"
                           /\ Waits(DepOf(p, Straight(p)), VisOf(p, Straight(p)), n)
<1> DEFINE dep == DepOf(p, Straight(p))
           vis == VisOf(p, Straight(p))
<1>1. \A m : m \in vis <=> m \in 1 .. Len(p) /\ p[m].kind # "section"
  BY DEF VisOf, Straight
<1>2. \A m \in 1 .. Len(p) : Within(p, n, m) <=> NestedIn(dep, n, m)
  BY WithinIsNested
<1> HIDE DEF dep, vis
<1>3. Waits(dep, vis, n) <=> \A m \in 1 .. Len(p) : Within(p, n, m) => p[m].kind = "section"
  BY <1>1, <1>2 DEF Waits
<1>4. TakesIn(p, n) <=> n \in vis /\ p[n].kind # "mute" /\ Waits(dep, vis, n)
  BY <1>1, <1>3 DEF TakesIn
<1> QED BY <1>4 DEF dep, vis

(* It is printed behind the node. *)
LEMMA BesideTakes ==
  ASSUME NEW p, NEW s, FileOK(p, s), NEW n \in 1 .. Len(p), TakesIn(p, n)
  PROVE  PrintsBehind(p, s, PosLine(s, n), n)
<1>1. InOrder(p, s, Straight(p)) /\ p \in Program /\ Straight(p)[n] = n
  BY SourceInOrder DEF InOrder, Straight
<1>2. PosOf(p, s, Straight(p))[n] = PosLine(s, n)
  BY <1>1, PosOnLine
<1> QED BY <1>1, <1>2, TakesWaits DEF PrintsBehind

(* What the first pass prints above a node is right above it, and what it prints behind is behind. *)
LEMMA PrintedWithNode ==
  ASSUME NEW p, NEW s, FileOK(p, s), NEW t, FirstPrint(p, s, t),
         NEW l \in 1 .. Len(s), NEW c, c = s[l].note, c # None, NEW n \in 1 .. Len(p)
  PROVE  /\ PrintsAbove(p, s, l, n) =>
              \E k \in DOMAIN t : t[k].node = 0 /\ t[k].note = c /\ Below(t, k) = n
         /\ PrintsBehind(p, s, l, n) => \E k \in DOMAIN t : t[k].node = n /\ t[k].note = c
<1> DEFINE po == FirstOrder(p, s)
<1>1. PICK ld, tr, e : /\ Attached(p, s, Straight(p), ld, tr) /\ Comfortable(p, ld, tr)
                       /\ LayOut(p, po, ld, tr, e, t)
  BY FirstPrintLaidOut
<1>2. Permutation(p, po) /\ p \in Program
  BY FirstPrintLaidOut DEF FileOK, Program, Node
<1> HIDE DEF po
<1>3. t \in Lines(p) /\ DOMAIN t = 1 .. Len(t) /\ Len(t) \in Nat /\ Len(p) \in Nat
  <2>1. t \in Lines(p)
    BY <1>1 DEF LayOut
  <2> QED BY <1>2, <2>1, LineTypes
<1>4. SpotsAre(p, po, ld, tr, e, t, c)
  BY <1>1, <1>2, SpotsOfComment
<1>5. PICK i \in 1 .. Len(p) : po[i] = n
  BY <1>2 DEF Permutation
<1>6. ASSUME PrintsBehind(p, s, l, n)
      PROVE  \E k \in DOMAIN t : t[k].node = n /\ t[k].note = c
  <2>1. BehindOf(p, tr, n) = c
    BY <1>1, <1>6, BehindOnce
  <2>2. e[i] \in 1 .. Len(t) /\ t[e[i]].node = n /\ t[e[i]].note = c
    BY <1>4, <1>5, <2>1 DEF SpotsAre
  <2> QED BY <1>3, <2>2
<1>7. ASSUME PrintsAbove(p, s, l, n)
      PROVE  \E k \in DOMAIN t : t[k].node = 0 /\ t[k].note = c /\ Below(t, k) = n
  <2>1. \E j \in 1 .. Len(ld[n]) : ld[n][j] = c
    <3>1. Attached(p, s, Straight(p), ld, tr)
      BY <1>1
    <3> QED BY <1>7, <3>1, AboveOnce
  <2>2. PICK j \in 1 .. Len(ld[n]) : ld[n][j] = c
    BY <2>1
  <2>3. e[i - 1] + j \in 1 .. Len(t) /\ t[e[i - 1] + j].node = 0 /\ t[e[i - 1] + j].note = c
    BY <1>4, <1>5, <2>2 DEF SpotsAre
  <2>4. PICK b \in Nat : b = e[i - 1]
    BY <1>1, <1>2, PrintedAt
  <2>5. PICK a \in Nat : a = Len(ld[n])
    BY <1>1, <1>2, <1>5, PrintedAt
  <2>6. PICK z \in Nat : z = e[i]
    BY <1>1, <1>2, PrintedAt
  <2>7. b + a < z /\ z <= Len(t)
    BY <1>1, <1>2, <1>5, <2>4, <2>5, <2>6, PrintedAt
  <2>8. FirstLine(t, n) = b + a + 1
    BY <1>1, <1>2, <1>5, <2>4, <2>5, PrintedFrom
  <2>9. b + a + 1 \in 1 .. Len(t) /\ b + a < b + a + 1 /\ b + a + 1 <= z
    BY <1>3, <2>7
  <2>10. t[b + a + 1].node = n
    <3>1. PICK y \in 1 .. Len(t) : y = b + a + 1
      BY <2>9
    <3>2. e[i - 1] + Len(ld[po[i]]) < y /\ y <= e[i]
      BY <1>5, <2>4, <2>5, <2>6, <2>9, <3>1
    <3>3. t[y].node = po[i]
      BY <1>1, <1>2, <3>2, PrintedNode
    <3> QED BY <1>5, <3>1, <3>3
  <2>11. PICK k \in 1 .. Len(t) : k = b + j
    BY <2>3, <2>4
  <2>12. b + a + 1 \in k + 1 .. Len(t)
    <3>1. j \in 1 .. a
      BY <2>2, <2>5
    <3> QED BY ONLY a \in Nat, b \in Nat, <1>3, <2>9, <2>11, <3>1
  <2>13. ASSUME NEW x \in k + 1 .. Len(t), x < b + a + 1
         PROVE  t[x].node = 0
    <3>0. k \in Nat /\ k > b
      BY <2>2, <2>5, <2>11
    <3>1. x \in 1 .. Len(t) /\ b < x /\ x <= z /\ x <= b + a
      BY <1>3, <2>7, <2>13, <3>0
    <3>2. e[i - 1] < x /\ x <= e[i] /\ x <= e[i - 1] + Len(ld[po[i]])
      BY <1>5, <2>4, <2>5, <2>6, <3>1
    <3>3. t[x] = IF x <= e[i - 1] + Len(ld[po[i]])
                 THEN NoteLine(ld[po[i]][x - e[i - 1]])
                 ELSE [node |-> po[i], note |-> IF x = e[i] THEN BehindOf(p, tr, po[i]) ELSE None,
                       pos |-> x = e[i - 1] + Len(ld[po[i]]) + p[po[i]].lands]
      <4>1. x \in 1 .. Len(t) /\ e[i - 1] < x /\ x <= e[i]
        BY <3>1, <3>2
      <4>2. LineIs(p, po, ld, tr, e, t, i, x)
        BY <1>1, <1>2, <4>1, PrintedLine
      <4> QED BY <4>2 DEF LineIs
    <3> QED BY <3>2, <3>3 DEF NoteLine
  <2>14. n # 0
    BY <1>3
  <2>15. PICK y \in k + 1 .. Len(t) : y = b + a + 1
    BY <2>12
  <2>16. t[y].node = n /\ y = FirstLine(t, n) /\ \A x \in k + 1 .. Len(t) : x < y => t[x].node = 0
    BY <2>8, <2>10, <2>13, <2>15
  <2>17. Below(t, k) = n
    BY <1>2, <1>3, <2>14, <2>16, BelowIs
  <2>18. t[k].node = 0 /\ t[k].note = c /\ k \in DOMAIN t
    BY <1>3, <2>3, <2>4, <2>11
  <2> QED BY <2>17, <2>18
<1> QED BY <1>6, <1>7

(* After the first pass a comment is with the node it was with. *)
LEMMA TravelsHolds ==
  ASSUME FormatInv
  PROVE  TravelsWithNode
<1> SUFFICES ASSUME Formatted
             PROVE  TravelsWithNode
  BY DEF TravelsWithNode
<1>1. FileOK(program, source) /\ FirstPrint(program, source, text)
  BY DEF FormatInv, PassInv, Formatted
<1>2. /\ DOMAIN source = 1 .. Len(source) /\ Nodes = 1 .. Len(program)
      /\ \A l \in 1 .. Len(source) : source[l].node \in 0 .. Len(program)
      /\ Len(program) \in Nat
  <2>1. program \in Program /\ source \in Lines(program)
    BY <1>1 DEF FileOK, Program, Node, Lines
  <2> QED BY <2>1, LineTypes DEF Nodes
<1>3. \A n \in 1 .. Len(program) : n \in VisOf(program, Straight(program)) <=> Visited(n)
  BY DEF VisOf, Visited, Straight
<1>4. ASSUME NEW c \in InSource
      PROVE  LineOf(c) \in 1 .. Len(source) /\ source[LineOf(c)].note = c /\ c # None
  <2>1. PICK l \in 1 .. Len(source) : source[l].note = c /\ c # None
    BY <1>2 DEF InSource
  <2>2. \A k \in DOMAIN source : source[k].note = c => k = l
    BY <1>1, <1>2, <2>1 DEF FileOK
  <2>3. LineOf(c) = l
    BY <1>2, <2>1, <2>2 DEF LineOf
  <2> QED BY <2>1, <2>3
<1>5. ASSUME NEW c \in InSource, NEW l, l = LineOf(c), source[l].node = 0,
             Below(source, l) # 0, Visited(Below(source, l))
      PROVE  \E k \in DOMAIN text :
               /\ text[k].node = 0 /\ text[k].note = c
               /\ Below(text, k) = Below(source, l)
  <2>1. l \in 1 .. Len(source) /\ c = source[l].note /\ c # None
    BY <1>4, <1>5
  <2>2. PICK n : n = Below(source, l)
    OBVIOUS
  <2>3. n \in 1 .. Len(program)
    <3>1. program \in Program /\ source \in Lines(program)
      BY <1>1 DEF FileOK, Program, Node, Lines
    <3>2. n # 0
      BY <1>5, <2>2
    <3>3. PICK k \in l + 1 .. Len(source) : source[k].node = n
      <4>1. l \in 1 .. Len(source) /\ Below(source, l) = n
        BY <2>1, <2>2
      <4>2. Below(source, l) = n <=>
              \E k \in l + 1 .. Len(source) :
                /\ source[k].node = n /\ k = FirstLine(source, n)
                /\ \A j \in l + 1 .. Len(source) : j < k => source[j].node = 0
        BY ONLY <3>1, <3>2, <4>1, BelowIs
      <4> QED BY ONLY <4>1, <4>2
    <3>4. k \in 1 .. Len(source)
      BY <2>1, <3>1, LineTypes
    <3> QED BY <1>2, <3>2, <3>3, <3>4
  <2>4. n \in VisOf(program, Straight(program))
    BY <1>3, <1>5, <2>2, <2>3
  <2>5. PrintsAbove(program, source, l, n)
    BY <1>1, <1>5, <2>1, <2>2, <2>4, RightAbove
  <2>6. \E k \in DOMAIN text : text[k].node = 0 /\ text[k].note = c /\ Below(text, k) = n
    BY <1>1, <2>1, <2>3, <2>5, PrintedWithNode
  <2> QED BY <2>2, <2>6
<1>6. ASSUME NEW c \in InSource, NEW l, l = LineOf(c), NEW n, n = source[l].node, n # 0,
             l = PosLine(source, n), TakesTrailing(n)
      PROVE  \E k \in DOMAIN text : text[k].node = n /\ text[k].note = c
  <2>1. l \in 1 .. Len(source) /\ c = source[l].note /\ c # None
    BY <1>4, <1>6
  <2>2. n \in 1 .. Len(program)
    <3>1. source[l].node \in 0 .. Len(program)
      BY <1>2, <2>1
    <3>2. n \in 0 .. Len(program) /\ n # 0
      BY <1>6, <3>1
    <3> QED BY <1>2, <3>2
  <2>3. TakesIn(program, n)
    BY <1>2, <1>6 DEF TakesTrailing, TakesIn, Visited
  <2>4. PrintsBehind(program, source, l, n)
    BY <1>1, <1>6, <2>2, <2>3, BesideTakes
  <2> QED BY <1>1, <2>1, <2>2, <2>4, PrintedWithNode
<1> QED BY <1>5, <1>6 DEF TravelsWithNode

(* TravelsWithNode: a comment right above a node, or beside its position, stays with it, also when
   the imports are sorted and statements are printed on other lines than they were. *)
THEOREM CommentsTravel == Spec => []TravelsWithNode
<1>1. FormatInv => TravelsWithNode
  BY TravelsHolds
<1> QED BY <1>1, PassesCorrect, PTL

(***************************************************************************)
(* Formatting again.  The first pass leaves the nodes in an order the      *)
(* second keeps, what is inside a node next to it, and the comments where  *)
(* the walk attaches them to the same nodes: nothing changes any more.     *)
(***************************************************************************)

(* In the source a node is earlier in the print order by its group, then by its place. *)
LEMMA EarlierInSource ==
  ASSUME NEW p, NEW s, FileOK(p, s), NEW a \in 1 .. Len(p), NEW b \in 1 .. Len(p)
  PROVE  Earlier(p, s, a, b) <=> p[a].group < p[b].group \/ (p[a].group = p[b].group /\ a < b)
<1>1. InOrder(p, s, Straight(p)) /\ Straight(p)[a] = a /\ Straight(p)[b] = b
  BY SourceInOrder DEF Straight
<1>2. FirstLine(s, a) < FirstLine(s, b) <=> a < b
  <2>1. FirstLine(s, Straight(p)[a]) < FirstLine(s, Straight(p)[b]) <=> a < b
    BY <1>1, OrderOfLines
  <2> QED BY <1>1, <2>1
<1> QED BY <1>2 DEF Earlier

Numbered(p) ==
  \A n \in 1 .. Len(p) : p[n].group \in Nat /\ p[n].depth \in Nat

FirstSorted(p, po) ==
  \A i, j \in 1 .. Len(p) : i < j =>
     p[po[i]].group < p[po[j]].group \/ (p[po[i]].group = p[po[j]].group /\ po[i] < po[j])

(* The first print order. *)
LEMMA FirstOrderSorted ==
  ASSUME NEW p, NEW s, FileOK(p, s), NEW po, po = FirstOrder(p, s)
  PROVE  /\ Permutation(p, po) /\ Len(p) \in Nat /\ p \in Program
         /\ Numbered(p) /\ FirstSorted(p, po)
<1>1. InOrder(p, s, Straight(p)) /\ p \in Program /\ s \in Lines(p)
  <2>1. InOrder(p, s, Straight(p))
    BY SourceInOrder
  <2> QED BY ONLY <2>1 DEF InOrder
<1>2. Len(p) \in Nat /\ Numbered(p)
  BY ONLY <1>1, LineTypes DEF Numbered
<1>3. Permutation(p, po) /\ \A i, j \in 1 .. Len(p) : i < j => Earlier(p, s, po[i], po[j])
  BY <1>1, PrintOrderSorted DEF FirstOrder
<1>4. \A i \in 1 .. Len(p) : po[i] \in 1 .. Len(p)
  BY <1>3 DEF Permutation
<1>5. FirstSorted(p, po)
  <2> SUFFICES ASSUME NEW i \in 1 .. Len(p), NEW j \in 1 .. Len(p), i < j
               PROVE  \/ p[po[i]].group < p[po[j]].group
                      \/ p[po[i]].group = p[po[j]].group /\ po[i] < po[j]
    BY DEF FirstSorted
  <2>1. Earlier(p, s, po[i], po[j])
    BY <1>3
  <2> QED BY <1>4, <2>1, EarlierInSource
<1> QED BY <1>1, <1>2, <1>3, <1>5

(* The second pass prints the nodes in the order of the first. *)
LEMMA SameOrder ==
  ASSUME NEW p, NEW s, FileOK(p, s), NEW t, NEW po, po = FirstOrder(p, s), InOrder(p, t, po)
  PROVE  PrintOrderOf(p, t, po) = po
<1>1. Permutation(p, po) /\ Len(p) \in Nat /\ FirstSorted(p, po)
  BY FirstOrderSorted
<1>2. PICK R : R = EarlierPairs(p, t, po)
  OBVIOUS
<1>3. /\ Range(po) = 1 .. Len(p) /\ TotalOrder(1 .. Len(p), R)
      /\ \A x, y \in 1 .. Len(p) : <<x, y>> \in R <=> Earlier(p, t, x, y)
  BY <1>2, EarlierOrders
<1>4. ASSUME NEW i \in 1 .. Len(p), NEW j \in 1 .. Len(p), i < j
      PROVE  <<po[i], po[j]>> \in R
  <2>1. FirstLine(t, po[i]) < FirstLine(t, po[j])
    BY <1>4, OrderOfLines
  <2>2. p[po[i]].group < p[po[j]].group \/ p[po[i]].group = p[po[j]].group
    BY ONLY <1>1, <1>4, i \in 1 .. Len(p), j \in 1 .. Len(p) DEF FirstSorted
  <2>3. Earlier(p, t, po[i], po[j])
    BY <2>1, <2>2 DEF Earlier
  <2>4. po[i] \in 1 .. Len(p) /\ po[j] \in 1 .. Len(p)
    BY <1>1 DEF Permutation
  <2> QED BY <1>3, <2>3, <2>4
<1>5. Enumerates(po, Len(p), 1 .. Len(p), R)
  BY <1>1, <1>4 DEF Enumerates, Permutation
<1>6. PICK S : S = 1 .. Len(p)
  OBVIOUS
<1>7. Listed(S, R) = po
  BY <1>1, <1>3, <1>5, <1>6, EnumerationIsListed
<1> QED BY <1>2, <1>3, <1>6, <1>7 DEF PrintOrderOf

(* A node that is inside another stays behind the node before it. *)
LEMMA StaysNext ==
  ASSUME NEW p, NEW s, FileOK(p, s), NEW po, po = FirstOrder(p, s), NEW x \in 1 .. Len(p),
         p[po[x]].depth > 0
  PROVE  x - 1 \in 1 .. Len(p) /\ po[x - 1] = po[x] - 1
<1>1. Permutation(p, po) /\ Len(p) \in Nat /\ Numbered(p) /\ FirstSorted(p, po)
  BY FirstOrderSorted
<1>2. /\ \A i \in 1 .. Len(p) : po[i] \in 1 .. Len(p)
      /\ \A n \in 1 .. Len(p) : \E i \in 1 .. Len(p) : po[i] = n
  BY <1>1 DEF Permutation
<1>3. PICK n \in 1 .. Len(p) : n = po[x]
  BY <1>2
<1>4. n > 1 /\ p[n].group = p[n - 1].group
  BY <1>3 DEF FileOK
<1>5. n - 1 \in 1 .. Len(p) /\ n - 1 < n
  BY <1>1, <1>4
<1>6. PICK y \in 1 .. Len(p) : po[y] = n - 1
  BY <1>2, <1>5
<1>7. ~(x < y) /\ x # y
  <2>1. ~(n < n - 1) /\ n # n - 1
    BY <1>1
  <2>2. ~(p[n].group < p[n].group)
    BY <1>1 DEF Numbered
  <2>3. ~(p[n].group < p[n - 1].group \/ (p[n].group = p[n - 1].group /\ n < n - 1))
    BY <1>4, <2>1, <2>2
  <2>4. ~(x < y)
    BY ONLY <1>1, <1>3, <1>6, <2>3, x \in 1 .. Len(p), y \in 1 .. Len(p) DEF FirstSorted
  <2> QED BY <1>3, <1>6, <2>1, <2>4
<1>8. y < x
  BY <1>1, <1>7
<1>9. ASSUME y < x - 1
      PROVE  FALSE
  <2>1. PICK z \in 1 .. Len(p) : z = x - 1
    BY <1>1, <1>8
  <2>2. y < z /\ z < x
    BY <1>1, <1>9, <2>1
  <2>3. PICK k \in 1 .. Len(p) : k = po[z]
    BY <1>2
  <2>4. /\ p[n - 1].group < p[k].group \/ (p[n - 1].group = p[k].group /\ n - 1 < k)
        /\ p[k].group < p[n].group \/ (p[k].group = p[n].group /\ k < n)
    BY ONLY <1>1, <1>3, <1>6, <2>2, <2>3, x \in 1 .. Len(p), y \in 1 .. Len(p),
            z \in 1 .. Len(p) DEF FirstSorted
  <2>5. p[k].group \in Nat /\ p[n].group \in Nat
    BY <1>1 DEF Numbered
  <2>6. n - 1 < k /\ k < n
    BY ONLY <1>4, <2>4, <2>5
  <2> QED BY <1>1, <2>6
<1>10. y = x - 1
  BY <1>1, <1>8, <1>9
<1> QED BY <1>3, <1>6, <1>10

(* What is inside a node is inside it as it is printed. *)
LEMMA NestingKept ==
  ASSUME NEW p, NEW s, FileOK(p, s), NEW po, po = FirstOrder(p, s),
         NEW i \in 1 .. Len(p), NEW k \in 1 .. Len(p)
  PROVE  NestedIn(DepOf(p, po), i, k) <=> NestedIn(DepOf(p, Straight(p)), po[i], po[k])
<1> DEFINE d2 == DepOf(p, po)
           d1 == DepOf(p, Straight(p))
<1>1. Permutation(p, po) /\ Len(p) \in Nat /\ \A n \in 1 .. Len(p) : p[n].depth \in Nat
  BY FirstOrderSorted DEF Numbered
<1>2. /\ \A x \in 1 .. Len(p) : po[x] \in 1 .. Len(p)
      /\ \A x, y \in 1 .. Len(p) : po[x] = po[y] => x = y
  BY <1>1 DEF Permutation
<1>3. /\ \A x \in 1 .. Len(p) : d2[x] = p[po[x]].depth
      /\ \A n \in 1 .. Len(p) : d1[n] = p[n].depth
  BY DEF DepOf, Straight
<1> HIDE DEF d1, d2
<1>4. \A x \in 1 .. Len(p) : d2[x] = d1[po[x]] /\ d1[x] \in Nat
  BY <1>1, <1>2, <1>3
<1>5. \A x \in 1 .. Len(p) : d2[x] > 0 => x - 1 \in 1 .. Len(p) /\ po[x - 1] = po[x] - 1
  BY <1>3, StaysNext
<1>6. PICK a \in 1 .. Len(p) : a = po[i]
  BY <1>2
<1>7. PICK b \in 1 .. Len(p) : b = po[k]
  BY <1>2
<1>8. ASSUME NestedIn(d2, i, k)
      PROVE  NestedIn(d1, a, b)
  <2>1. i < k /\ \A x \in i + 1 .. k : d2[x] > d2[i]
    BY <1>8 DEF NestedIn
  <2> DEFINE Q == {d \in 0 .. k - i : po[i + d] = a + d}
  <2>2. 0 \in Q /\ k - i \in Nat
    BY <1>1, <1>6, <2>1
  <2>3. ASSUME NEW d \in 0 .. (k - i) - 1, d \in Q
        PROVE  d + 1 \in Q
    <3>1. PICK x \in i + 1 .. k : x = i + (d + 1)
      BY <1>1, <2>1
    <3>2. x \in 1 .. Len(p) /\ x - 1 = i + d
      BY <1>1, <3>1
    <3>3. d2[x] > 0
      <4>1. d2[x] > d2[i] /\ d2[x] \in Nat /\ d2[i] \in Nat
        BY <1>2, <1>4, <2>1, <3>1, <3>2
      <4> QED BY <4>1
    <3>4. po[x - 1] = po[x] - 1 /\ po[x] \in 1 .. Len(p)
      BY <1>2, <1>5, <3>2, <3>3
    <3>5. po[x] = a + (d + 1)
      <4>1. PICK q \in 1 .. Len(p) : q = po[x]
        BY <3>4
      <4>2. po[x - 1] = a + d
        BY <2>3, <3>2
      <4>3. q - 1 = a + d
        BY <3>4, <4>1, <4>2
      <4>4. q = a + (d + 1)
        BY <1>1, <4>3
      <4> QED BY <4>1, <4>4
    <3>6. d + 1 \in 0 .. k - i
      BY <1>1
    <3> QED BY <3>1, <3>5, <3>6
  <2> HIDE DEF Q
  <2>4. \A d \in 0 .. k - i : d \in Q
    BY <2>2, <2>3, CountingUp
  <2>5. \A d \in 0 .. k - i : po[i + d] = a + d
    BY <2>4 DEF Q
  <2>6. b = a + (k - i)
    <3>1. k - i \in 0 .. k - i /\ i + (k - i) = k
      BY <1>1, <2>1
    <3> QED BY <1>7, <2>5, <3>1
  <2>7. a < b
    BY <1>1, <2>1, <2>6
  <2>8. ASSUME NEW y \in a + 1 .. b
        PROVE  d1[y] > d1[a]
    <3>1. PICK x \in i + 1 .. k : x = i + (y - a)
      BY <1>1, <2>1, <2>6
    <3>2. y - a \in 0 .. k - i /\ a + (y - a) = y
      BY <1>1, <2>1, <2>6
    <3>3. po[x] = y
      BY <2>5, <3>1, <3>2
    <3>4. x \in 1 .. Len(p)
      BY <1>1
    <3> QED BY <1>4, <1>6, <2>1, <3>1, <3>3, <3>4
  <2> QED BY <2>7, <2>8 DEF NestedIn
<1>9. ASSUME NestedIn(d1, a, b)
      PROVE  NestedIn(d2, i, k)
  <2>1. a < b /\ \A x \in a + 1 .. b : d1[x] > d1[a]
    BY <1>9 DEF NestedIn
  <2> DEFINE Q == {d \in 0 .. b - a : k - d \in 1 .. Len(p) /\ po[k - d] = b - d}
  <2>2. 0 \in Q /\ b - a \in Nat
    BY <1>1, <1>7, <2>1
  <2>3. ASSUME NEW d \in 0 .. (b - a) - 1, d \in Q
        PROVE  d + 1 \in Q
    <3>1. PICK x \in 1 .. Len(p) : x = k - d
      BY <2>3
    <3>2. po[x] = b - d
      BY <2>3, <3>1
    <3>3. b - d \in a + 1 .. b
      BY <1>1, <2>1
    <3>4. d2[x] > 0
      <4>1. d2[x] > d1[a] /\ d2[x] \in Nat /\ d1[a] \in Nat
        BY <1>2, <1>4, <2>1, <3>2, <3>3
      <4> QED BY <4>1
    <3>5. x - 1 \in 1 .. Len(p) /\ po[x - 1] = po[x] - 1
      BY <1>5, <3>4
    <3>6. k - (d + 1) = x - 1 /\ po[x - 1] = b - (d + 1) /\ d + 1 \in 0 .. b - a
      BY <1>1, <3>1, <3>2, <3>5
    <3> QED BY <3>5, <3>6
  <2> HIDE DEF Q
  <2>4. \A d \in 0 .. b - a : d \in Q
    BY <2>2, <2>3, CountingUp
  <2>5. \A d \in 0 .. b - a : k - d \in 1 .. Len(p) /\ po[k - d] = b - d
    BY <2>4 DEF Q
  <2>6. i = k - (b - a)
    <3>1. PICK d \in 0 .. b - a : d = b - a
      BY <1>1, <2>1
    <3>2. b - d = a
      BY <1>1, <3>1
    <3>3. k - d \in 1 .. Len(p) /\ po[k - d] = a
      BY <2>5, <3>2
    <3>4. PICK y \in 1 .. Len(p) : y = k - d
      BY <3>3
    <3>5. i = y
      BY <1>2, <1>6, <3>3, <3>4
    <3> QED BY <3>1, <3>4, <3>5
  <2>7. i < k
    BY <1>1, <2>1, <2>6
  <2>8. ASSUME NEW x \in i + 1 .. k
        PROVE  d2[x] > d2[i]
    <3>1. PICK y \in a + 1 .. b : y = a + (x - i)
      BY <1>1, <2>1, <2>6
    <3>2. k - x \in 0 .. b - a /\ k - (k - x) = x /\ b - (k - x) = y
      BY <1>1, <2>1, <2>6, <3>1
    <3>3. po[x] = y
      BY <2>5, <3>2
    <3>4. x \in 1 .. Len(p)
      BY <1>1
    <3> QED BY <1>4, <1>6, <2>1, <3>1, <3>3, <3>4
  <2> QED BY <2>7, <2>8 DEF NestedIn
<1> QED BY <1>6, <1>7, <1>8, <1>9 DEF d1, d2

(* And so a comment that waits for its node does so in every pass. *)
LEMMA WaitsKept ==
  ASSUME NEW p, NEW s, FileOK(p, s), NEW po, po = FirstOrder(p, s), NEW i \in 1 .. Len(p)
  PROVE  /\ i \in VisOf(p, po) <=> po[i] \in VisOf(p, Straight(p))
         /\ Waits(DepOf(p, po), VisOf(p, po), i) <=>
              Waits(DepOf(p, Straight(p)), VisOf(p, Straight(p)), po[i])
<1> DEFINE d2 == DepOf(p, po)
           d1 == DepOf(p, Straight(p))
           v2 == VisOf(p, po)
           v1 == VisOf(p, Straight(p))
<1>1. Permutation(p, po) /\ Len(p) \in Nat
  BY FirstOrderSorted
<1>2. /\ \A x \in 1 .. Len(p) : po[x] \in 1 .. Len(p)
      /\ \A n \in 1 .. Len(p) : \E x \in 1 .. Len(p) : po[x] = n
  BY <1>1 DEF Permutation
<1>3. \A x \in 1 .. Len(p) : x \in v2 <=> po[x] \in v1
  BY <1>2 DEF VisOf, Straight
<1>4. v2 \subseteq 1 .. Len(p) /\ v1 \subseteq 1 .. Len(p)
  BY DEF VisOf
<1>5. \A x \in 1 .. Len(p) : NestedIn(d2, i, x) <=> NestedIn(d1, po[i], po[x])
  BY NestingKept
<1> HIDE DEF d1, d2, v1, v2
<1>6. Waits(d2, v2, i) <=> Waits(d1, v1, po[i])
  <2>1. ASSUME Waits(d2, v2, i), NEW n \in v1, NestedIn(d1, po[i], n)
        PROVE  FALSE
    <3>1. PICK x \in 1 .. Len(p) : po[x] = n
      BY <1>2, <1>4
    <3>2. x \in v2 /\ NestedIn(d2, i, x)
      BY <1>3, <1>5, <2>1, <3>1
    <3> QED BY <2>1, <3>2 DEF Waits
  <2>2. ASSUME Waits(d1, v1, po[i]), NEW x \in v2, NestedIn(d2, i, x)
        PROVE  FALSE
    <3>1. po[x] \in v1 /\ NestedIn(d1, po[i], po[x])
      BY <1>3, <1>4, <1>5, <2>2
    <3> QED BY <2>2, <3>1 DEF Waits
  <2> QED BY <2>1, <2>2 DEF Waits
<1>7. i \in v2 <=> po[i] \in v1
  BY <1>3
<1> QED BY <1>6, <1>7 DEF d1, d2, v1, v2

(* Every comment behind a node is beside a position that is printed on the last line. *)
SettledIn(p, s) ==
  \A n \in 1 .. Len(p) :
    TakesIn(p, n) /\ s[PosLine(s, n)].note # None => p[n].lands = p[n].want

(* A file formatted, and what the walk attaches in what was written. *)
Twice(p, s, po, ld, tr, e, t, ld2, tr2) ==
  /\ FileOK(p, s) /\ po = FirstOrder(p, s)
  /\ Attached(p, s, Straight(p), ld, tr) /\ LayOut(p, po, ld, tr, e, t)
  /\ Attached(p, t, po, ld2, tr2)

(* Both are files. *)
LEMMA TwiceFiles ==
  ASSUME NEW p, NEW s, NEW po, NEW ld, NEW tr, NEW e, NEW t, NEW ld2, NEW tr2,
         Twice(p, s, po, ld, tr, e, t, ld2, tr2)
  PROVE  /\ FileOK(p, s) /\ po = FirstOrder(p, s) /\ p \in Program
         /\ InOrder(p, s, Straight(p)) /\ InOrder(p, t, po) /\ Permutation(p, po)
         /\ Attached(p, s, Straight(p), ld, tr) /\ Attached(p, t, po, ld2, tr2)
         /\ Comfortable(p, ld, tr) /\ Comfortable(p, ld2, tr2) /\ LayOut(p, po, ld, tr, e, t)
         /\ Len(p) \in Nat /\ Len(t) \in Nat /\ \A i \in 1 .. Len(p) : po[i] \in 1 .. Len(p)
<1>1. /\ FileOK(p, s) /\ po = FirstOrder(p, s)
      /\ Attached(p, s, Straight(p), ld, tr) /\ LayOut(p, po, ld, tr, e, t)
      /\ Attached(p, t, po, ld2, tr2)
  BY DEF Twice
<1>2. InOrder(p, s, Straight(p)) /\ p \in Program /\ Permutation(p, po) /\ Len(p) \in Nat
  BY <1>1, SourceInOrder, FirstOrderSorted
<1>3. Comfortable(p, ld, tr)
  BY <1>1, <1>2, AttachedComments
<1>4. InOrder(p, t, po)
  BY <1>1, <1>2, <1>3, PrintedInOrder
<1>5. Comfortable(p, ld2, tr2)
  BY <1>1, <1>4, AttachedComments
<1>6. t \in Lines(p)
  BY <1>4 DEF InOrder
<1>7. Len(t) \in Nat
  BY <1>2, <1>6, LineTypes
<1>8. \A i \in 1 .. Len(p) : po[i] \in 1 .. Len(p)
  BY <1>2 DEF Permutation
<1> QED BY <1>1, <1>2, <1>3, <1>4, <1>5, <1>7, <1>8

(* Behind a node is printed the comment beside its position. *)
LEMMA BehindIs ==
  ASSUME NEW p, NEW s, FileOK(p, s), NEW ld, NEW tr, Attached(p, s, Straight(p), ld, tr),
         NEW n \in 1 .. Len(p)
  PROVE  BehindOf(p, tr, n) = IF TakesIn(p, n) THEN s[PosLine(s, n)].note ELSE None
<1>1. InOrder(p, s, Straight(p)) /\ p \in Program /\ Straight(p)[n] = n
  BY SourceInOrder DEF InOrder, Straight
<1>2. PosOf(p, s, Straight(p))[n] = PosLine(s, n)
  BY <1>1, PosOnLine
<1> DEFINE vis == VisOf(p, Straight(p))
           waits == Waits(DepOf(p, Straight(p)), vis, n)
<1>3. tr[n] = IF n \in vis /\ waits THEN s[PosLine(s, n)].note ELSE None
  BY <1>1, <1>2 DEF Attached
<1>4. TakesIn(p, n) <=> n \in vis /\ p[n].kind # "mute" /\ waits
  BY <1>1, TakesWaits
<1> HIDE DEF vis, waits
<1> QED BY <1>3, <1>4 DEF BehindOf

(* A node with a comment printed behind it is one that waits for it in every pass. *)
LEMMA BesideAgain ==
  ASSUME NEW p, NEW s, NEW po, NEW ld, NEW tr, NEW e, NEW t, NEW ld2, NEW tr2,
         Twice(p, s, po, ld, tr, e, t, ld2, tr2),
         NEW i \in 1 .. Len(p), BehindOf(p, tr, po[i]) # None
  PROVE  /\ i \in VisOf(p, po) /\ Waits(DepOf(p, po), VisOf(p, po), i)
         /\ SettledIn(p, s) => p[po[i]].lands = p[po[i]].want
<1>1. PICK n \in 1 .. Len(p) : n = po[i]
  BY TwiceFiles
<1>2. /\ FileOK(p, s) /\ Attached(p, s, Straight(p), ld, tr) /\ p \in Program
      /\ po = FirstOrder(p, s)
  BY TwiceFiles
<1>3. TakesIn(p, n) /\ s[PosLine(s, n)].note # None
  BY <1>1, <1>2, BehindIs
<1>4. n \in VisOf(p, Straight(p)) /\ Waits(DepOf(p, Straight(p)), VisOf(p, Straight(p)), n)
  BY <1>2, <1>3, TakesWaits
<1>5. i \in VisOf(p, po) /\ Waits(DepOf(p, po), VisOf(p, po), i)
  BY <1>1, <1>2, <1>4, WaitsKept
<1> QED BY <1>1, <1>3, <1>5 DEF SettledIn

(* What the second pass finds beside the position of a node: what was printed behind the node if its *)
(* position was printed on the last line, and else nothing.                                          *)
LEMMA NoteBeside ==
  ASSUME NEW p, NEW s, NEW po, NEW ld, NEW tr, NEW e, NEW t, NEW ld2, NEW tr2,
         Twice(p, s, po, ld, tr, e, t, ld2, tr2), NEW i \in 1 .. Len(p)
  PROVE  /\ p[po[i]].lands = p[po[i]].want => PosOf(p, t, po)[i] = e[i]
         /\ t[PosOf(p, t, po)[i]].note =
              IF p[po[i]].lands = p[po[i]].want THEN BehindOf(p, tr, po[i]) ELSE None
<1>1. /\ p \in Program /\ InOrder(p, t, po) /\ Permutation(p, po) /\ Comfortable(p, ld, tr)
      /\ LayOut(p, po, ld, tr, e, t) /\ Len(t) \in Nat
  BY TwiceFiles
<1>2. PICK k \in 1 .. Len(t) : k = PosOf(p, t, po)[i] /\ t[k].node = po[i] /\ t[k].pos
  BY <1>1, PosOnLine
<1>3. e[i - 1] + Len(ld[po[i]]) < k /\ k <= e[i]
  BY <1>1, <1>2, PrintedNode
<1>4. e[i - 1] \in Nat /\ Len(ld[po[i]]) \in Nat /\ e[i] \in Nat
  BY <1>1, PrintedAt
<1>5. e[i - 1] < k /\ ~(k <= e[i - 1] + Len(ld[po[i]]))
  BY <1>1, <1>3, <1>4
<1>6. LineIs(p, po, ld, tr, e, t, i, k)
  BY <1>1, <1>3, <1>5, PrintedLine
<1>7. t[k].note = IF k = e[i] THEN BehindOf(p, tr, po[i]) ELSE None
  BY <1>5, <1>6 DEF LineIs
<1>8. k = e[i] <=> p[po[i]].lands = p[po[i]].want
  <2>1. k = e[i - 1] + Len(ld[po[i]]) + p[po[i]].lands
    BY <1>1, <1>2, PrintedPos
  <2>2. e[i - 1] + Len(ld[po[i]]) + p[po[i]].lands = e[i] <=> p[po[i]].lands = p[po[i]].want
    BY <1>1, <1>2, PrintedPos
  <2> QED BY <2>1, <2>2
<1> QED BY <1>2, <1>7, <1>8

(* So what is printed behind a node stays behind it exactly if its position is printed on the last line. *)
LEMMA BehindSame ==
  ASSUME NEW p, NEW s, NEW po, NEW ld, NEW tr, NEW e, NEW t, NEW ld2, NEW tr2,
         Twice(p, s, po, ld, tr, e, t, ld2, tr2), NEW i \in 1 .. Len(p)
  PROVE  BehindOf(p, tr2, po[i]) =
           IF p[po[i]].lands = p[po[i]].want THEN BehindOf(p, tr, po[i]) ELSE None
<1>1. Attached(p, t, po, ld2, tr2)
  BY TwiceFiles
<1>2. PICK n : n = po[i]
  OBVIOUS
<1>3. CASE p[n].kind = "mute"
  BY <1>2, <1>3 DEF BehindOf
<1>4. CASE p[n].kind # "mute"
  <2>1. BehindOf(p, tr2, po[i]) = tr2[n]
    BY <1>2, <1>4 DEF BehindOf
  <2>2. CASE i \in VisOf(p, po) /\ Waits(DepOf(p, po), VisOf(p, po), i)
    <3>1. tr2[n] = t[PosOf(p, t, po)[i]].note
      BY <1>1, <1>2, <2>2 DEF Attached
    <3> QED BY <2>1, <3>1, NoteBeside
  <2>3. CASE ~(i \in VisOf(p, po) /\ Waits(DepOf(p, po), VisOf(p, po), i))
    <3>1. tr2[n] = None
      BY <1>1, <1>2, <2>3 DEF Attached
    <3>2. BehindOf(p, tr, po[i]) = None
      BY <2>3, BesideAgain
    <3> QED BY <2>1, <3>1, <3>2
  <2> QED BY <2>2, <2>3
<1> QED BY <1>3, <1>4

(* A comment that was written leads to the node it was printed above, and to no other. *)
LEMMA LeadsAgain ==
  ASSUME NEW p, NEW s, NEW po, NEW ld, NEW tr, NEW e, NEW t, NEW ld2, NEW tr2,
         Twice(p, s, po, ld, tr, e, t, ld2, tr2), SettledIn(p, s), NEW i \in VisOf(p, po),
         NEW k \in 1 .. Len(t), t[k].note # None
  PROVE  LeadsTo(PosOf(p, t, po), DepOf(p, po), VisOf(p, po), k, i) <=>
           e[i - 1] < k /\ k <= e[i - 1] + Len(ld[po[i]])
<1> DEFINE pos == PosOf(p, t, po)
           dep == DepOf(p, po)
           vis == VisOf(p, po)
<1>1. /\ p \in Program /\ InOrder(p, t, po) /\ Permutation(p, po) /\ Comfortable(p, ld, tr)
      /\ LayOut(p, po, ld, tr, e, t) /\ Len(t) \in Nat /\ Len(p) \in Nat
      /\ Attached(p, s, Straight(p), ld, tr) /\ FileOK(p, s) /\ po = FirstOrder(p, s)
      /\ \A x \in 1 .. Len(p) : po[x] \in 1 .. Len(p)
  BY TwiceFiles
<1>2. \A x \in vis : x \in 1 .. Len(p)
  BY DEF VisOf
<1>3. \A x \in 1 .. Len(p) : /\ e[x - 1] \in Nat /\ e[x] \in Nat /\ Len(ld[po[x]]) \in Nat
                             /\ e[x - 1] + Len(ld[po[x]]) < e[x]
  BY <1>1, PrintedAt
<1>4. ASSUME NEW x \in 1 .. Len(p)
      PROVE  pos[x] \in 1 .. Len(t) /\ e[x - 1] + Len(ld[po[x]]) < pos[x] /\ pos[x] <= e[x]
  <2>1. PICK y \in 1 .. Len(t) : y = pos[x] /\ t[y].node = po[x]
    <3>1. InOrder(p, t, po)
      BY <1>1
    <3>2. pos[x] \in 1 .. Len(t) /\ t[pos[x]].node = po[x]
      BY ONLY <3>1, x \in 1 .. Len(p), PosOnLine
    <3> QED BY <3>2
  <2>2. e[x - 1] + Len(ld[po[x]]) < y /\ y <= e[x]
    BY <1>1, <2>1, PrintedNode
  <2> QED BY <2>1, <2>2
<1>5. \A x \in 0 .. Len(p) : \A y \in x .. Len(p) : e[x] <= e[y]
  BY <1>1 DEF LayOut
<1> HIDE DEF pos, dep, vis
<1>6. i \in vis /\ i \in 1 .. Len(p)
  BY <1>2 DEF vis
<1>7. ASSUME e[i - 1] < k, k <= e[i - 1] + Len(ld[po[i]])
      PROVE  LeadsTo(pos, dep, vis, k, i)
  <2>1. k < pos[i]
    BY <1>1, <1>3, <1>4, <1>6, <1>7
  <2>2. ASSUME NEW w \in vis, w < i
        PROVE  pos[w] < k
    <3>1. w \in 1 .. Len(p) /\ w \in 0 .. Len(p) /\ i - 1 \in w .. Len(p)
      BY <1>1, <1>2, <1>6, <2>2
    <3>2. e[w] <= e[i - 1]
      BY <1>5, <3>1
    <3>3. pos[w] <= e[w] /\ pos[w] \in 1 .. Len(t)
      BY <1>4, <3>1
    <3>4. pos[w] \in Nat /\ e[w] \in Nat /\ e[i - 1] \in Nat /\ k \in Nat
      BY <1>1, <1>3, <1>6, <3>1, <3>3
    <3> QED BY ONLY <1>7, <3>2, <3>3, <3>4
  <2> QED BY <2>1, <2>2 DEF LeadsTo
<1>8. ASSUME LeadsTo(pos, dep, vis, k, i)
      PROVE  e[i - 1] < k /\ k <= e[i - 1] + Len(ld[po[i]])
  <2>1. PICK x \in 1 .. Len(p) : e[x - 1] < k /\ k <= e[x]
    BY <1>1 DEF LayOut
  <2>2. LineIs(p, po, ld, tr, e, t, x, k)
    BY <1>1, <2>1, PrintedLine
  <2>3. k < pos[i]
    BY <1>8 DEF LeadsTo
  <2>4. ASSUME ~(k <= e[x - 1] + Len(ld[po[x]]))
        PROVE  x \in vis /\ Waits(dep, vis, x) /\ pos[x] = k
    <3>1. t[k].note = IF k = e[x] THEN BehindOf(p, tr, po[x]) ELSE None
      BY <2>2, <2>4 DEF LineIs
    <3>2. k = e[x] /\ BehindOf(p, tr, po[x]) # None
      BY <3>1
    <3>3. x \in vis /\ Waits(dep, vis, x) /\ p[po[x]].lands = p[po[x]].want
      BY <3>2, BesideAgain DEF dep, vis
    <3>4. pos[x] = e[x]
      BY <3>3, NoteBeside DEF pos
    <3> QED BY <3>2, <3>3, <3>4
  <2>5. ASSUME k <= e[x - 1] + Len(ld[po[x]])
        PROVE  x \in vis /\ k < pos[x]
    <3>1. PICK n \in 1 .. Len(p) : n = po[x]
      BY <1>1
    <3>2. ld[n] # <<>>
      <4>1. ld[n] = <<>> => Len(ld[n]) = 0
        OBVIOUS
      <4>2. Len(ld[n]) # 0
        BY <1>1, <1>3, <2>1, <2>5, <3>1
      <4> QED BY <4>1, <4>2
    <3>3. n \in VisOf(p, Straight(p))
      <4>1. Straight(p)[n] = n
        BY DEF Straight
      <4> QED BY <1>1, <3>2, <4>1 DEF Attached
    <3>4. x \in vis
      BY <1>1, <3>1, <3>3, WaitsKept DEF vis
    <3>5. e[x - 1] + Len(ld[po[x]]) < pos[x] /\ pos[x] \in 1 .. Len(t)
      BY <1>4
    <3>6. e[x - 1] + Len(ld[po[x]]) \in Nat /\ k \in Nat /\ Len(t) \in Nat
      BY <1>1, <1>3
    <3> QED BY ONLY <2>5, <3>4, <3>5, <3>6
  <2>6. CASE x = i
    <3>1. k <= e[x - 1] + Len(ld[po[x]])
      <4>1. pos[x] # k
        BY <1>1, <1>4, <1>6, <2>3, <2>6
      <4> QED BY <2>4, <4>1
    <3> QED BY <2>1, <2>6, <3>1
  <2>7. CASE x > i
    <3>1. i \in 0 .. Len(p) /\ x - 1 \in i .. Len(p)
      BY <1>1, <1>6, <2>7
    <3>2. e[i] <= e[x - 1]
      BY <1>5, <3>1
    <3>3. pos[i] <= e[i] /\ pos[i] \in 1 .. Len(t)
      BY <1>4, <1>6
    <3> QED BY <1>1, <1>3, <1>6, <2>1, <2>3, <3>2, <3>3
  <2>8. CASE x < i
    <3>1. x \in vis => pos[x] < k \/ (pos[x] = k /\ NestedIn(dep, x, i))
      BY <1>8, <2>8 DEF LeadsTo
    <3>2. pos[x] \in Nat /\ k \in Nat
      BY <1>1, <1>4
    <3>3. ~(k <= e[x - 1] + Len(ld[po[x]]))
      BY <2>5, <3>1, <3>2
    <3>4. x \in vis /\ Waits(dep, vis, x) /\ pos[x] = k
      BY <2>4, <3>3
    <3>5. NestedIn(dep, x, i)
      BY <3>1, <3>2, <3>4
    <3> QED BY <1>6, <3>4, <3>5 DEF Waits
  <2> QED BY <1>1, <1>6, <2>6, <2>7, <2>8
<1> QED BY <1>7, <1>8 DEF pos, dep, vis

(* f lists the a numbers after b, from the least. *)
ListsNext(f, c, b, a) ==
  /\ f \in [1 .. c -> b + 1 .. b + a]
  /\ \A j, k \in 1 .. c : j < k => f[j] < f[k]
  /\ \A x \in b + 1 .. b + a : \E j \in 1 .. c : f[j] = x

(* An increasing list of all the numbers of an interval lists them one after the other. *)
LEMMA IncreasingOnto ==
  ASSUME NEW b \in Nat, NEW a \in Nat, NEW c \in Nat, NEW f, ListsNext(f, c, b, a)
  PROVE  c = a /\ \A j \in 1 .. a : f[j] = b + j
<1>0. /\ f \in [1 .. c -> b + 1 .. b + a]
      /\ \A j, k \in 1 .. c : j < k => f[j] < f[k]
      /\ \A x \in b + 1 .. b + a : \E j \in 1 .. c : f[j] = x
  BY DEF ListsNext
<1> DEFINE S == b + 1 .. b + a
           R == {q \in S \X S : q[1] < q[2]}
           g == [j \in 1 .. a |-> b + j]
<1>1. S \in SUBSET Nat
  OBVIOUS
<1>2. /\ f \in [1 .. c -> S] /\ \A x \in S : \E j \in 1 .. c : f[j] = x
  BY <1>0
<1>3. g \in [1 .. a -> S] /\ \A j \in 1 .. a : g[j] = b + j
  OBVIOUS
<1>4. \A x \in S : x - b \in 1 .. a /\ b + (x - b) = x
  OBVIOUS
<1> HIDE DEF g, S
<1>5. TotalOrder(S, R) /\ \A x, y \in S : <<x, y>> \in R <=> x < y
  BY <1>1, NumbersInOrder
<1> HIDE DEF R
<1>6. Enumerates(f, c, S, R)
  <2>1. \A j, k \in 1 .. c : j < k => <<f[j], f[k]>> \in R
    BY <1>0, <1>2, <1>5
  <2> QED BY <1>2, <2>1 DEF Enumerates
<1>7. Enumerates(g, a, S, R)
  <2>1. ASSUME NEW j \in 1 .. a, NEW k \in 1 .. a, j < k
        PROVE  <<g[j], g[k]>> \in R
    <3>1. g[j] \in S /\ g[k] \in S
      BY <1>3
    <3>2. g[j] = b + j /\ g[k] = b + k
      BY <1>3
    <3>3. b + j < b + k
      BY <2>1
    <3>4. g[j] < g[k]
      BY <3>2, <3>3
    <3> QED BY <1>5, <3>1, <3>4
  <2>2. ASSUME NEW x \in S
        PROVE  \E j \in 1 .. a : g[j] = x
    <3>1. PICK j \in 1 .. a : j = x - b /\ b + j = x
      BY <1>4
    <3> QED BY <1>3, <3>1
  <2> QED BY <1>3, <2>1, <2>2 DEF Enumerates
<1>8. Cardinality(S) = c /\ Listed(S, R) = f
  BY <1>5, <1>6, EnumerationIsListed
<1>9. Cardinality(S) = a /\ Listed(S, R) = g
  BY <1>5, <1>7, EnumerationIsListed
<1> QED BY <1>3, <1>8, <1>9

(* What is printed above a node stays above it. *)
LEMMA AboveSame ==
  ASSUME NEW p, NEW s, NEW po, NEW ld, NEW tr, NEW e, NEW t, NEW ld2, NEW tr2,
         Twice(p, s, po, ld, tr, e, t, ld2, tr2), SettledIn(p, s), NEW i \in 1 .. Len(p)
  PROVE  ld2[po[i]] = ld[po[i]]
<1>1. /\ p \in Program /\ InOrder(p, t, po) /\ Permutation(p, po) /\ Comfortable(p, ld, tr)
      /\ LayOut(p, po, ld, tr, e, t) /\ Len(t) \in Nat /\ Len(p) \in Nat
      /\ Attached(p, s, Straight(p), ld, tr) /\ FileOK(p, s) /\ po = FirstOrder(p, s)
      /\ Attached(p, t, po, ld2, tr2)
  BY TwiceFiles
<1>2. PICK n \in 1 .. Len(p) : n = po[i]
  BY TwiceFiles
<1>3. CASE i \notin VisOf(p, po)
  <2>1. ld2[n] = <<>>
    BY <1>1, <1>2, <1>3 DEF Attached
  <2>2. n \notin VisOf(p, Straight(p)) /\ Straight(p)[n] = n
    BY <1>1, <1>2, <1>3, WaitsKept DEF Straight
  <2>3. ld[n] = <<>>
    BY <1>1, <2>2 DEF Attached
  <2> QED BY <1>2, <2>1, <2>3
<1>4. CASE i \in VisOf(p, po)
  <2> DEFINE pos == PosOf(p, t, po)
             dep == DepOf(p, po)
             vis == VisOf(p, po)
  <2>1. LeadingFrom(pos, dep, vis, t, ld2[n], i)
    BY <1>1, <1>2, <1>4 DEF Attached
  <2>2. PICK b \in Nat : b = e[i - 1]
    BY <1>1, PrintedAt
  <2>3. PICK a \in Nat : a = Len(ld[n])
    BY <1>1, <1>2, PrintedAt
  <2>4. \A k \in 1 .. Len(t) : t[k].note # None => (LeadsTo(pos, dep, vis, k, i) <=> b < k /\ k <= b + a)
    BY <1>2, <1>4, <2>2, <2>3, LeadsAgain
  <2> HIDE DEF pos, dep, vis
  <2>5. PICK cs \in Seq(Comments) : cs = ld2[n]
    BY <2>1 DEF LeadingFrom
  <2>6. PICK c \in Nat : c = Len(cs)
    BY LenProperties
  <2>7. PICK f \in [1 .. c -> 1 .. Len(t)] :
          /\ \A j, k \in 1 .. c : j < k => f[j] < f[k]
          /\ \A j \in 1 .. c : cs[j] = t[f[j]].note /\ LeadsTo(pos, dep, vis, f[j], i)
          /\ \A l \in 1 .. Len(t) : t[l].note # None /\ LeadsTo(pos, dep, vis, l, i)
                                      => \E j \in 1 .. c : f[j] = l
    BY <2>1, <2>5, <2>6 DEF LeadingFrom
  <2>8. \A j \in 1 .. c : cs[j] \in Comments /\ cs[j] # None
    <3>1. \A j \in 1 .. c : cs[j] \in Comments
      BY <2>6, ElementOfSeq
    <3> QED BY <3>1, InputsAssumption
  <2>9. b + a <= Len(t)
    <3>1. PICK z \in Nat : z = e[i]
      BY <1>1, PrintedAt
    <3>2. b + a < z /\ z <= Len(t)
      BY <1>1, <1>2, <2>2, <2>3, <3>1, PrintedAt
    <3> QED BY <1>1, <3>2
  <2>10. PICK ls \in Seq(Comments) : ls = ld[n]
    BY <1>1 DEF Comfortable
  <2>11. \A j \in 1 .. a : t[b + j].note = ls[j] /\ ls[j] # None
    <3>1. \A j \in 1 .. a : t[b + j] = NoteLine(ld[n][j])
      <4>1. LayOut(p, po, ld, tr, e, t)
        BY <1>1
      <4>2. \A j \in 1 .. Len(ld[po[i]]) : t[e[i - 1] + j] = NoteLine(ld[po[i]][j])
        BY ONLY <4>1, i \in 1 .. Len(p) DEF LayOut
      <4> QED BY ONLY <1>2, <2>2, <2>3, <4>2
    <3>2. \A j \in 1 .. a : ls[j] \in Comments
      BY <2>3, <2>10, ElementOfSeq
    <3>3. ASSUME NEW j \in 1 .. a
          PROVE  t[b + j].note = ls[j]
      <4>1. t[b + j] = NoteLine(ls[j])
        BY <2>10, <3>1
      <4> QED BY <4>1 DEF NoteLine
    <3>4. None \notin Comments
      BY InputsAssumption
    <3>5. \A j \in 1 .. a : ls[j] # None
      BY <3>2, <3>4
    <3> QED BY <3>3, <3>5
  <2>12. f \in [1 .. c -> b + 1 .. b + a]
    <3>1. ASSUME NEW j \in 1 .. c
          PROVE  f[j] \in b + 1 .. b + a
      <4>1. PICK y \in 1 .. Len(t) : y = f[j]
        BY <2>7
      <4>2. t[y].note # None /\ LeadsTo(pos, dep, vis, y, i)
        BY <2>7, <2>8, <4>1
      <4>3. b < y /\ y <= b + a
        BY <2>4, <4>2
      <4>4. y \in b + 1 .. b + a
        BY <1>1, <4>3
      <4> QED BY <4>1, <4>4
    <3> QED BY <2>7, <3>1
  <2>13. ASSUME NEW x \in b + 1 .. b + a
         PROVE  \E j \in 1 .. c : f[j] = x
    <3>1. PICK y \in 1 .. Len(t) : y = x /\ b < y /\ y <= b + a
      BY <1>1, <2>9
    <3>2. PICK j \in 1 .. a : b + j = y
      <4>1. y - b \in 1 .. a /\ b + (y - b) = y
        BY <1>1, <3>1
      <4> QED BY <4>1
    <3>3. t[y].note # None
      BY <2>11, <3>2
    <3>4. LeadsTo(pos, dep, vis, y, i)
      BY <2>4, <3>1, <3>3
    <3> QED BY <2>7, <3>1, <3>3, <3>4
  <2>14. c = a /\ \A j \in 1 .. a : f[j] = b + j
    <3>1. \A j, k \in 1 .. c : j < k => f[j] < f[k]
      BY <2>7
    <3>2. ListsNext(f, c, b, a)
      BY <2>12, <2>13, <3>1 DEF ListsNext
    <3> QED BY <3>2, IncreasingOnto
  <2>15. \A j \in 1 .. a : cs[j] = ls[j]
    BY <2>7, <2>11, <2>14
  <2>16. cs = ls
    <3>1. Len(cs) = a /\ Len(ls) = a
      BY <2>3, <2>6, <2>10, <2>14
    <3> QED BY <2>15, <3>1, SeqEqual
  <2> QED BY <1>2, <2>5, <2>10, <2>16
<1> QED BY <1>3, <1>4

(* What the second pass prints behind the nodes is what the first has, only if the file had settled. *)
LEMMA BehindLost ==
  ASSUME NEW p, NEW s, NEW po, NEW ld, NEW tr, NEW e, NEW t, NEW ld2, NEW tr2,
         Twice(p, s, po, ld, tr, e, t, ld2, tr2), NEW e2, LayOut(p, po, ld2, tr2, e2, t)
  PROVE  SettledIn(p, s)
<1> SUFFICES ASSUME NEW n \in 1 .. Len(p), TakesIn(p, n), s[PosLine(s, n)].note # None,
                    p[n].lands # p[n].want
             PROVE  FALSE
  BY DEF SettledIn
<1>1. /\ FileOK(p, s) /\ Attached(p, s, Straight(p), ld, tr) /\ p \in Program /\ Permutation(p, po)
      /\ Comfortable(p, ld, tr) /\ Comfortable(p, ld2, tr2) /\ LayOut(p, po, ld, tr, e, t)
      /\ Len(t) \in Nat
  BY TwiceFiles
<1>2. PICK c : c = BehindOf(p, tr, n) /\ c # None
  BY <1>1, BehindIs
<1>3. PICK i \in 1 .. Len(p) : po[i] = n
  BY <1>1 DEF Permutation
<1>4. BehindOf(p, tr2, n) = None
  BY <1>3, BehindSame
<1>5. PICK k \in 1 .. Len(t) : t[k].node = n /\ t[k].note = c
  <2>1. SpotsAre(p, po, ld, tr, e, t, c)
    BY <1>1, <1>2, SpotsOfComment
  <2>2. e[i] \in 1 .. Len(t) /\ t[e[i]].node = po[i] /\ t[e[i]].note = c
    BY <1>2, <1>3, <2>1 DEF SpotsAre
  <2> QED BY <1>3, <2>2
<1>6. e2[i - 1] + Len(ld2[po[i]]) < k /\ k <= e2[i]
  BY <1>1, <1>3, <1>5, PrintedNode
<1>7. e2[i - 1] \in Nat /\ Len(ld2[po[i]]) \in Nat
  BY <1>1, PrintedAt
<1>8. e2[i - 1] < k /\ ~(k <= e2[i - 1] + Len(ld2[po[i]]))
  BY <1>1, <1>6, <1>7
<1>9. LineIs(p, po, ld2, tr2, e2, t, i, k)
  BY <1>1, <1>6, <1>8, PrintedLine
<1>10. t[k].note = None
  BY <1>3, <1>4, <1>8, <1>9 DEF LineIs
<1> QED BY <1>2, <1>5, <1>10

(* The second pass writes what the first has written exactly if the file had settled. *)
LEMMA SecondPrintSame ==
  ASSUME NEW p, NEW s, FileOK(p, s), NEW t, FirstPrint(p, s, t), NEW t2, SecondPrint(p, s, t, t2)
  PROVE  t2 = t <=> SettledIn(p, s)
<1>0. PICK po : po = FirstOrder(p, s)
  OBVIOUS
<1>1. InOrder(p, s, Straight(p)) /\ Permutation(p, po) /\ p \in Program /\ Len(p) \in Nat
  BY <1>0, SourceInOrder, FirstOrderSorted
<1>2. PICK ld, tr : Attached(p, s, Straight(p), ld, tr) /\ t = Printed(p, po, ld, tr)
  BY <1>0 DEF FirstPrint
<1>3. Comfortable(p, ld, tr)
  BY <1>1, <1>2, AttachedComments
<1>4. PICK e : LayOut(p, po, ld, tr, e, t)
  BY <1>1, <1>2, <1>3, PrintedLines
<1>5. PICK ld2, tr2 : /\ Attached(p, t, po, ld2, tr2)
                      /\ t2 = Printed(p, PrintOrderOf(p, t, po), ld2, tr2)
  BY <1>0 DEF SecondPrint
<1>6. Twice(p, s, po, ld, tr, e, t, ld2, tr2)
  BY <1>0, <1>2, <1>4, <1>5 DEF Twice
<1>7. InOrder(p, t, po) /\ Comfortable(p, ld2, tr2)
  BY <1>6, TwiceFiles
<1>8. PrintOrderOf(p, t, po) = po
  BY <1>0, <1>7, SameOrder
<1>9. ASSUME SettledIn(p, s)
      PROVE  t2 = t
  <2>1. \A i \in 1 .. Len(p) : AboveOf(ld2, po[i]) = AboveOf(ld, po[i])
    <3>1. \A i \in 1 .. Len(p) : ld2[po[i]] = ld[po[i]]
      BY <1>6, <1>9, AboveSame
    <3> QED BY <3>1 DEF AboveOf
  <2>2. \A i \in 1 .. Len(p) : LinesOf(p, tr2, po[i]) = LinesOf(p, tr, po[i])
    <3>1. ASSUME NEW i \in 1 .. Len(p)
          PROVE  BehindOf(p, tr2, po[i]) = BehindOf(p, tr, po[i])
      <4>1. BehindOf(p, tr2, po[i]) =
              IF p[po[i]].lands = p[po[i]].want THEN BehindOf(p, tr, po[i]) ELSE None
        BY <1>6, BehindSame
      <4>2. BehindOf(p, tr, po[i]) # None => p[po[i]].lands = p[po[i]].want
        BY <1>6, <1>9, BesideAgain
      <4> QED BY <4>1, <4>2
    <3> QED BY <3>1 DEF LinesOf
  <2>3. Len(po) = Len(p)
    BY <1>1 DEF Permutation
  <2>4. [i \in 1 .. Len(po) |-> AboveOf(ld2, po[i]) \o LinesOf(p, tr2, po[i])]
          = [i \in 1 .. Len(po) |-> AboveOf(ld, po[i]) \o LinesOf(p, tr, po[i])]
    BY <2>1, <2>2, <2>3
  <2>5. Printed(p, po, ld2, tr2) = Printed(p, po, ld, tr)
    BY <2>4 DEF Printed
  <2> QED BY <1>2, <1>5, <1>8, <2>5
<1>10. ASSUME t2 = t
       PROVE  SettledIn(p, s)
  <2>1. PICK e2 : LayOut(p, po, ld2, tr2, e2, Printed(p, po, ld2, tr2))
    BY <1>1, <1>7, PrintedLines
  <2>2. LayOut(p, po, ld2, tr2, e2, t)
    BY <1>5, <1>8, <1>10, <2>1
  <2> QED BY <1>6, <2>2, BehindLost
<1> QED BY <1>9, <1>10

(* Idempotent: formatting a formatted file again changes nothing exactly if no comment was beside a
   position that is printed on another line than the last of its node. *)
THEOREM FormattingIsIdempotent == Spec => []Idempotent
<1>1. ASSUME FormatInv PROVE Idempotent
  <2>1. SUFFICES ASSUME phase = "printed", pass = 2 PROVE text = once <=> Settled
    BY DEF Idempotent
  <2>2. /\ FileOK(program, source) /\ FirstPrint(program, source, once)
        /\ SecondPrint(program, source, once, text)
    BY <1>1, <2>1 DEF FormatInv, PassInv
  <2>3. Nodes = 1 .. Len(program)
    <3>1. program \in Program
      BY <2>2, SourceInOrder DEF InOrder
    <3> QED BY <3>1, LenProperties DEF Nodes, Program
  <2>4. \A n \in Nodes : TakesTrailing(n) <=> TakesIn(program, n)
    BY <2>3 DEF TakesTrailing, TakesIn, Visited
  <2>5. Settled <=> SettledIn(program, source)
    BY <2>3, <2>4 DEF Settled, SettledIn
  <2>6. text = once <=> SettledIn(program, source)
    BY <2>2, SecondPrintSame
  <2> QED BY <2>5, <2>6
<1>2. FormatInv => Idempotent
  BY <1>1
<1> QED BY <1>2, PassesCorrect, PTL

(***************************************************************************)
(* The type invariant.                                                     *)
(***************************************************************************)

(* What a walk over a file counts and what it gives are of their types. *)
LEMMA InWalkTypes ==
  ASSUME NEW p, NEW lines, NEW o, InOrder(p, lines, o), NEW nt, nt = ExtractComments(lines),
         NEW i, NEW a, NEW S, NEW ld, NEW tr, InWalk(p, lines, o, nt, i, a, S, ld, tr)
  PROVE  /\ i \in 1 .. Len(nt) + 1 /\ a \in 0 .. Len(o)
         /\ \A n \in 1 .. Len(p) : ld[n] \in Seq(Comments) /\ tr[n] \in Comments \cup {None}
<1> DEFINE pos == PosOf(p, lines, o)
           dep == DepOf(p, o)
           vis == VisOf(p, o)
           cm  == NotesOf(lines, nt)
           ald == Along(ld, p, o)
           atr == Along(tr, p, o)
<1>1. /\ WalkAt(Len(p), pos, dep, vis, nt, i, a, S)
      /\ WalkGiven(Len(p), pos, dep, vis, nt, cm, a, S, ald, atr)
  BY DEF InWalk, Walk
<1>2. p \in Program /\ lines \in Lines(p) /\ Len(p) \in Nat /\ Len(o) = Len(p)
  <2>1. p \in Program /\ lines \in Lines(p) /\ o \in [1 .. Len(p) -> 1 .. Len(p)]
    BY DEF InOrder
  <2>2. Len(p) \in Nat
    BY <2>1, LineTypes
  <2> QED BY <2>1, <2>2
<1>3. \A q \in 1 .. Len(nt) : cm[q] \in Comments \cup {None}
  <2>1. \A q \in 1 .. Len(nt) : nt[q] \in 1 .. Len(lines)
    BY <1>2, CommentsInOrder
  <2>2. \A l \in 1 .. Len(lines) : lines[l].note \in Comments \cup {None}
    BY <1>2, LineTypes
  <2> QED BY <2>1, <2>2 DEF NotesOf
<1>4. \A u \in 1 .. Len(p) : ald[u] = ld[o[u]] /\ atr[u] = tr[o[u]]
  BY DEF Along
<1> HIDE DEF pos, dep, vis, ald, atr
<1>5. ASSUME NEW u \in 1 .. Len(p)
      PROVE  ald[u] \in Seq(Comments)
  <2>1. CASE u \in vis /\ u <= a
    <3>1. HasLeading(pos, dep, vis, nt, cm, ald, u)
      BY <1>1, <2>1 DEF WalkGiven
    <3>2. LeadingFrom(pos, dep, vis, lines, ald[u], u)
      BY <3>1, LeadingLines
    <3> QED BY <3>2 DEF LeadingFrom
  <2>2. CASE ~(u \in vis /\ u <= a)
    <3>1. ald[u] = <<>>
      BY <1>1, <2>2 DEF WalkGiven
    <3> QED BY <3>1
  <2> QED BY <2>1, <2>2
<1>6. ASSUME NEW u \in 1 .. Len(p)
      PROVE  atr[u] \in Comments \cup {None}
  <2> HIDE DEF cm
  <2>1. CASE u \in vis /\ u <= a /\ u \notin S
    <3>1. HasTrailing(pos, dep, vis, nt, cm, atr, u)
      BY <1>1, <2>1 DEF WalkGiven
    <3>2. CASE \E q \in 1 .. Len(nt) : nt[q] = pos[u] /\ Waits(dep, vis, u)
      <4>1. PICK q \in 1 .. Len(nt) : nt[q] = pos[u] /\ Waits(dep, vis, u)
        BY <3>2
      <4>2. atr[u] = cm[q]
        BY <3>1, <4>1 DEF HasTrailing
      <4> QED BY <1>3, <4>2
    <3>3. CASE ~ \E q \in 1 .. Len(nt) : nt[q] = pos[u] /\ Waits(dep, vis, u)
      <4>1. atr[u] = None
        BY <3>1, <3>3 DEF HasTrailing
      <4> QED BY <4>1
    <3> QED BY <3>2, <3>3
  <2>2. CASE ~(u \in vis /\ u <= a /\ u \notin S)
    <3>1. atr[u] = None
      BY <1>1, <2>2 DEF WalkGiven
    <3> QED BY <3>1
  <2> QED BY <2>1, <2>2
<1>7. ASSUME NEW n \in 1 .. Len(p)
      PROVE  ld[n] \in Seq(Comments) /\ tr[n] \in Comments \cup {None}
  <2>1. PICK u \in 1 .. Len(p) : o[u] = n
    BY DEF InOrder
  <2> QED BY <1>4, <1>5, <1>6, <2>1
<1>8. i \in 1 .. Len(nt) + 1 /\ a \in 0 .. Len(o)
  BY <1>1, <1>2 DEF WalkAt
<1> QED BY <1>7, <1>8

(* What the passes leave alone when they print or start again. *)
CountsOK ==
  /\ idx \in 1 .. Len(notes) + 1 /\ at \in 0 .. Len(order)
  /\ \A n \in 1 .. Len(program) : leading[n] \in Seq(Comments) /\ trailing[n] \in Comments \cup {None}

(* The lines are those of a file in every pass. *)
LEMMA TextIsLines ==
  ASSUME PassInv
  PROVE  text \in Lines(program) /\ program \in Program
<1>1. FileOK(program, source) /\ program \in Program /\ source \in Lines(program)
  BY DEF PassInv, FileOK, Program, Node, Lines
<1>2. CASE text = source
  BY <1>1, <1>2
<1>3. CASE pass = 1 /\ text = once /\ FirstPrint(program, source, once)
  <2>1. InOrder(program, text, FirstOrder(program, source))
    BY <1>1, <1>3, FirstPrintLaidOut
  <2> QED BY <1>1, <2>1 DEF InOrder
<1>4. CASE FirstPrint(program, source, once) /\ SecondPrint(program, source, once, text)
  <2>0. PICK po : po = FirstOrder(program, source)
    OBVIOUS
  <2>1. InOrder(program, once, po)
    BY <1>1, <1>4, <2>0, FirstPrintLaidOut
  <2>2. PICK ld, tr : Attached(program, once, po, ld, tr)
                      /\ text = Printed(program, PrintOrderOf(program, once, po), ld, tr)
    BY <1>4, <2>0 DEF SecondPrint
  <2>3. Comfortable(program, ld, tr)
    BY <2>1, <2>2, AttachedComments
  <2>4. PICK po2 : po2 = PrintOrderOf(program, once, po)
    OBVIOUS
  <2>5. Permutation(program, po2)
    BY <2>1, <2>4, PrintOrderSorted
  <2>6. PICK e : LayOut(program, po2, ld, tr, e, text)
    BY <1>1, <2>2, <2>3, <2>4, <2>5, PrintedLines
  <2> QED BY <1>1, <2>6 DEF LayOut
<1> QED BY <1>2, <1>3, <1>4 DEF PassInv

(* The counts and what the nodes carry keep their types. *)
LEMMA CountsNext ==
  ASSUME FormatInv, FormatInv', CountsOK, [Next]_vars
  PROVE  CountsOK'
<1>1. ASSUME phase' = "attach"
      PROVE  CountsOK'
  <2>1. WalkInv'
    BY <1>1 DEF FormatInv
  <2>2. InOrder(program', text', order') /\ notes' = ExtractComments(text')
    BY <2>1 DEF WalkInv
  <2>3. PICK S : InWalk(program', text', order', notes', idx', at', S, leading', trailing')
    BY <2>1 DEF WalkInv
  <2> QED BY <2>2, <2>3, InWalkTypes DEF CountsOK
<1>2. ASSUME UNCHANGED <<program, notes, order, idx, at, leading, trailing>>
      PROVE  CountsOK'
  BY <1>2 DEF CountsOK
<1>3. \/ phase' = "attach"
      \/ UNCHANGED <<program, notes, order, idx, at, leading, trailing>>
  <2>1. CASE Read
    BY <2>1 DEF Read
  <2>2. CASE AttachLeading
    BY <2>2 DEF AttachLeading, Arriving
  <2>3. CASE PassBy
    BY <2>3 DEF PassBy, Arriving
  <2>4. CASE AttachTrailing
    BY <2>4 DEF AttachTrailing
  <2>5. CASE PrintTree
    BY <2>5 DEF PrintTree
  <2>6. CASE FormatAgain
    BY <2>6 DEF FormatAgain
  <2>7. CASE UNCHANGED vars
    BY <2>7 DEF vars
  <2> QED BY <2>1, <2>2, <2>3, <2>4, <2>5, <2>6, <2>7 DEF Next
<1> QED BY <1>1, <1>2, <1>3

(* TypeOK: the lines, the walk's place and what the nodes carry are what they should be, in every
   pass over every file. *)
THEOREM FormatterTypes == Spec => []TypeOK
<1>1. Init => CountsOK
  <2>1. ASSUME Init
        PROVE  CountsOK
    <3>1. FormatInv
      BY <2>1, FormatInit
    <3>2. Nodes = 1 .. Len(program)
      BY <3>1, TextIsLines, LineTypes DEF FormatInv, Nodes
    <3>3. Len(notes) = 0 /\ Len(order) = 0 /\ idx = 1 /\ at = 0
      BY <2>1 DEF Init
    <3>4. \A n \in 1 .. Len(program) : leading[n] = <<>> /\ trailing[n] = None
      BY <2>1, <3>2 DEF Init
    <3>5. idx \in 1 .. Len(notes) + 1 /\ at \in 0 .. Len(order)
      BY <3>3
    <3>6. \A n \in 1 .. Len(program) : leading[n] \in Seq(Comments) /\ trailing[n] \in Comments \cup {None}
      <4>1. <<>> \in Seq(Comments)
        BY EmptySeq
      <4> QED BY <3>4, <4>1
    <3> QED BY <3>5, <3>6 DEF CountsOK
  <2> QED BY <2>1
<1>2. FormatInv /\ FormatInv' /\ CountsOK /\ [Next]_vars => CountsOK'
  BY CountsNext
<1>3. ASSUME FormatInv, CountsOK, phase \in {"read", "attach", "printed"}, pass \in 0 .. 2
      PROVE  TypeOK
  <2>1. text \in Lines(program) /\ program \in Program
    BY <1>3, TextIsLines DEF FormatInv
  <2>2. Nodes = 1 .. Len(program) /\ Len(program) \in Nat /\ DOMAIN text = 1 .. Len(text)
    BY <2>1, LineTypes DEF Nodes
  <2>3. \A l \in DOMAIN text : text[l].node \in 0 .. Len(program) /\ text[l].note \in Comments \cup {None}
    BY <2>1, <2>2, LineTypes
  <2>4. \A n \in 0 .. Len(program) : n \in Nodes \cup {0}
    BY <2>2
  <2> QED BY <1>3, <2>2, <2>3, <2>4 DEF TypeOK, CountsOK
<1>4. Init => phase \in {"read", "attach", "printed"} /\ pass \in 0 .. 2
  BY DEF Init
<1>5. FormatInv => pass \in 0 .. 2
  BY DEF FormatInv, PassInv
<1>6. phase \in {"read", "attach", "printed"} /\ [Next]_vars => (phase \in {"read", "attach", "printed"})'
  BY DEF Next, Read, AttachLeading, Arriving, PassBy, AttachTrailing, PrintTree, FormatAgain, vars
<1>7. FormatInv /\ CountsOK /\ phase \in {"read", "attach", "printed"} /\ pass \in 0 .. 2 => TypeOK
  BY <1>3
<1> QED BY <1>1, <1>2, <1>4, <1>5, <1>6, <1>7, PassesCorrect, PTL DEF Spec

=============================================================================
