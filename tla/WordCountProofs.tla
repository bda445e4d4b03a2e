-------------------------- MODULE WordCountProofs --------------------------
(***************************************************************************)
(* Splitting the word count over map and reduce tasks does not change it:  *)
(* for all texts and every hash function the lines that doReduce prints    *)
(* are those of mrsequential.  Lists are told apart by how often each      *)
(* element occurs, and the sorting is shown to exist by induction on the   *)
(* length of a list.                                                       *)
(***************************************************************************)
EXTENDS WordCount, FiniteSetTheorems, TLAPS

USE ZenonT(10), SMTT(20)
---------------------------------------------------------------------------
(* Induction, with the predicate as a set of numbers.                      *)

\* A nonempty set of numbers has a least element: the first position of a run
\* and the key that a sort puts first are such elements.
LEMMA LeastNumber ==
    ASSUME NEW S \in SUBSET Nat, S # {}
    PROVE  \E x \in S : \A y \in S : x <= y
<1> DEFINE R == OpToRel(<, Nat)
<1>1. IsWellFoundedOn(R, Nat)
  BY NatLessThanWellFounded
<1>2. \A a, b \in Nat : a < b => <<a, b>> \in R
  BY DEF OpToRel
<1> HIDE DEF R
<1>3. PICK x \in S : \A y \in S : ~(<<y, x>> \in R)
  BY <1>1, WFMin
<1>4. \A y \in S : x \in Nat /\ y \in Nat /\ ~(y < x)
  BY <1>2, <1>3
<1>5. QED
  BY <1>4

\* A set that has 0 and with every number the next one has them all.
LEMMA NumberInduction ==
    ASSUME NEW S, 0 \in S, \A n \in Nat : n \in S => n + 1 \in S
    PROVE  Nat \subseteq S
<1> SUFFICES ASSUME ~(Nat \subseteq S)  PROVE FALSE
  OBVIOUS
<1> DEFINE T == Nat \ S
<1>1. T \in SUBSET Nat /\ T # {}
  OBVIOUS
<1> HIDE DEF T
<1>2. PICK x \in T : \A y \in T : x <= y
  BY <1>1, LeastNumber
<1>3. x \in Nat /\ x # 0
  BY DEF T
<1>4. x - 1 \in Nat /\ x - 1 \notin T
  BY <1>1, <1>2, <1>3
<1>5. QED
  BY <1>3, <1>4 DEF T
---------------------------------------------------------------------------
(* sort.Sort has something to return.                                      *)

\* A finite set can be enumerated in the order of any key: the least key comes
\* first, then the others as they are sorted without it.
LEMMA OrderExists ==
    ASSUME NEW S, IsFiniteSet(S), NEW key \in [S -> Nat]
    PROVE  \E p \in Bijection(1 .. Cardinality(S), S) :
              \A i, j \in 1 .. Cardinality(S) : i < j => key[p[i]] <= key[p[j]]
<1> DEFINE Ordered(n, p) == \A i, j \in 1 .. n : i < j => key[p[i]] <= key[p[j]]
           Sortable(n, T) == \E p \in Bijection(1 .. n, T) : Ordered(n, p)
           N == {n \in Nat : \A T \in SUBSET S : Cardinality(T) = n => Sortable(n, T)}
<1>1. 0 \in N
  <2> SUFFICES ASSUME NEW T \in SUBSET S, Cardinality(T) = 0
               PROVE  Sortable(0, T)
    OBVIOUS
  <2>1. T = {}
    BY FS_Subset, FS_EmptySet
  <2>2. 1 .. 0 = {}
    OBVIOUS
  <2>3. [i \in {} |-> 0] \in Bijection({}, {})
    BY DEF Bijection, Injection, Surjection, IsInjective
  <2>4. QED
    BY <2>1, <2>2, <2>3
<1>2. ASSUME NEW n \in Nat, n \in N
      PROVE  n + 1 \in N
  <2> SUFFICES ASSUME NEW T \in SUBSET S, Cardinality(T) = n + 1
               PROVE  Sortable(n + 1, T)
    OBVIOUS
  <2> DEFINE K == {key[x] : x \in T}
  <2>1. IsFiniteSet(T) /\ T # {}
    <3>1. IsFiniteSet(T)
      BY FS_Subset
    <3>2. n + 1 # 0
      OBVIOUS
    <3>3. QED
      BY <3>1, <3>2, FS_EmptySet
  <2>2. K \in SUBSET Nat /\ K # {}
    BY <2>1
  <2>3. PICK k \in K : \A m \in K : k <= m
    BY <2>2, LeastNumber
  <2>4. PICK x \in T : \A y \in T : key[x] <= key[y]
    BY <2>3
  <2> DEFINE U == T \ {x}
  <2>5. U \in SUBSET S /\ Cardinality(U) = n
    <3>1. Cardinality(U) = Cardinality(T) - 1
      BY <2>1, FS_RemoveElement
    <3>2. QED
      BY <3>1
  <2>6. PICK p \in Bijection(1 .. n, U) : Ordered(n, p)
    BY <1>2, <2>5
  <2>7. /\ p \in [1 .. n -> U]
        /\ \A i, j \in 1 .. n : p[i] = p[j] => i = j
        /\ \A y \in U : \E i \in 1 .. n : p[i] = y
    BY DEF Bijection, Injection, Surjection, IsInjective
  <2> DEFINE q == [i \in 1 .. n + 1 |-> IF i = 1 THEN x ELSE p[i - 1]]
  <2>8. \A i \in 1 .. n + 1 : i # 1 => i - 1 \in 1 .. n
    OBVIOUS
  <2>9. q \in [1 .. n + 1 -> T]
    BY <2>7, <2>8
  <2>10. \A i, j \in 1 .. n + 1 : q[i] = q[j] => i = j
    <3> SUFFICES ASSUME NEW i \in 1 .. n + 1, NEW j \in 1 .. n + 1, q[i] = q[j]
                 PROVE  i = j
      OBVIOUS
    <3>1. CASE i = 1 \/ j = 1
      BY <3>1, <2>7, <2>8
    <3>2. CASE i # 1 /\ j # 1
      <4>1. p[i - 1] = p[j - 1] /\ i - 1 \in 1 .. n /\ j - 1 \in 1 .. n
        BY <3>2, <2>8
      <4>2. i - 1 = j - 1
        BY <4>1, <2>7
      <4>3. QED
        BY <4>2
    <3>3. QED
      BY <3>1, <3>2
  <2>11. \A y \in T : \E i \in 1 .. n + 1 : q[i] = y
    <3> SUFFICES ASSUME NEW y \in T
                 PROVE  \E i \in 1 .. n + 1 : q[i] = y
      OBVIOUS
    <3>1. CASE y = x
      <4>1. 1 \in 1 .. n + 1
        OBVIOUS
      <4>2. q[1] = x
        BY <4>1
      <4>3. QED
        BY <3>1, <4>1, <4>2
    <3>2. CASE y # x
      <4>1. PICK i \in 1 .. n : p[i] = y
        BY <3>2, <2>7
      <4>2. i + 1 \in 1 .. n + 1 /\ i + 1 # 1 /\ (i + 1) - 1 = i
        OBVIOUS
      <4>3. q[i + 1] = y
        BY <4>1, <4>2
      <4>4. QED
        BY <4>2, <4>3
    <3>3. QED
      BY <3>1, <3>2
  <2>12. Ordered(n + 1, q)
    <3> SUFFICES ASSUME NEW i \in 1 .. n + 1, NEW j \in 1 .. n + 1, i < j
                 PROVE  key[q[i]] <= key[q[j]]
      OBVIOUS
    <3>1. j # 1 /\ j - 1 \in 1 .. n
      OBVIOUS
    <3>2. CASE i = 1
      BY <3>2, <2>4, <2>9
    <3>3. CASE i # 1
      <4>1. i - 1 \in 1 .. n /\ i - 1 < j - 1
        BY <3>3
      <4>2. key[p[i - 1]] <= key[p[j - 1]]
        BY <4>1, <3>1, <2>6
      <4>3. QED
        BY <4>2, <3>1, <3>3
    <3>4. QED
      BY <3>2, <3>3
  <2>13. q \in Bijection(1 .. n + 1, T)
    <3> HIDE DEF q
    <3>1. QED
      BY <2>9, <2>10, <2>11 DEF Bijection, Injection, Surjection, IsInjective
  <2> HIDE DEF q
  <2>14. QED
    BY <2>12, <2>13
<1> HIDE DEF N
<1>3. Nat \subseteq N
  BY <1>1, <1>2, NumberInduction
<1>4. Cardinality(S) \in Nat
  BY FS_CardinalityType
<1>5. QED
  BY <1>3, <1>4 DEF N
---------------------------------------------------------------------------
(* What sort.Sort returns.                                                 *)

\* The positions of an element, and the KeyValues that Map makes of words.
Places(list, e) == {p \in DOMAIN list : list[p] = e}
Pairs(W) == [key : W, value : {1}]

\* A list rearranged has the same elements, each as often: the positions of an
\* element move with it.
LEMMA Rearranged ==
    ASSUME NEW list, IsFiniteSet(DOMAIN list),
           NEW new, NEW p \in Bijection(DOMAIN new, DOMAIN list),
           \A i \in DOMAIN new : new[i] = list[p[i]]
    PROVE  Occurrences(new) = Occurrences(list)
<1> DEFINE D == DOMAIN list
           E == DOMAIN new
<1>1. /\ p \in [E -> D]
      /\ \A i, j \in E : p[i] = p[j] => i = j
      /\ \A x \in D : \E i \in E : p[i] = x
  BY DEF Bijection, Injection, Surjection, IsInjective
<1>2. Range(new) = Range(list)
  BY <1>1 DEF Range
<1>3. \A e : Cardinality(Places(new, e)) = Cardinality(Places(list, e))
  <2> TAKE e
  <2> DEFINE h == [i \in Places(new, e) |-> p[i]]
  <2>1. h \in [Places(new, e) -> Places(list, e)]
    BY <1>1 DEF Places
  <2>2. \A i, j \in Places(new, e) : h[i] = h[j] => i = j
    BY <1>1 DEF Places
  <2>3. ASSUME NEW x \in Places(list, e)
        PROVE  \E i \in Places(new, e) : h[i] = x
    <3>1. PICK i \in E : p[i] = x
      BY <1>1 DEF Places
    <3>2. i \in Places(new, e)
      BY <3>1 DEF Places
    <3>3. QED
      BY <3>1, <3>2
  <2>4. IsFiniteSet(Places(list, e))
    BY FS_Subset DEF Places
  <2> HIDE DEF h
  <2>5. h \in Injection(Places(new, e), Places(list, e))
    BY <2>1, <2>2 DEF Injection, IsInjective
  <2>6. h \in Surjection(Places(new, e), Places(list, e))
    BY <2>1, <2>3 DEF Surjection
  <2>7. QED
    BY <2>4, <2>5, <2>6, FS_Injection
<1>4. \A l : Occurrences(l) = [e \in Range(l) |-> Cardinality(Places(l, e))]
  BY DEF Occurrences, Places
<1>5. QED
  BY <1>2, <1>3, <1>4

\* ByKey returns the elements it is given, in the order of their keys.
LEMMA ByKeySorts ==
    ASSUME NEW W \in SUBSET Nat, NEW D, IsFiniteSet(D), NEW kvs \in [D -> Pairs(W)]
    PROVE  /\ ByKey(kvs) \in [1 .. Cardinality(D) -> Pairs(W)]
           /\ Cardinality(D) \in Nat
           /\ InOrder(ByKey(kvs))
           /\ Range(ByKey(kvs)) = Range(kvs)
           /\ \A e \in Range(kvs) :
                 Cardinality(Places(ByKey(kvs), e)) = Cardinality(Places(kvs, e))
<1> DEFINE n == Cardinality(D)
           key == [x \in D |-> kvs[x].key]
           Right(list) == InOrder(list) /\ Occurrences(list) = Occurrences(kvs)
<1>1. n \in Nat
  BY FS_CardinalityType
<1>2. key \in [D -> Nat]
  BY DEF Pairs
<1>3. PICK p \in Bijection(1 .. n, D) :
         \A i, j \in 1 .. n : i < j => key[p[i]] <= key[p[j]]
  BY <1>2, OrderExists
<1>4. p \in [1 .. n -> D]
  BY DEF Bijection, Injection
<1> DEFINE list == [i \in 1 .. n |-> kvs[p[i]]]
<1>5. list \in [1 .. n -> Range(kvs)]
  BY <1>4 DEF Range
<1>6. InOrder(list)
  BY <1>3, <1>4 DEF InOrder
<1>7. Occurrences(list) = Occurrences(kvs)
  <2>1. DOMAIN kvs = D /\ DOMAIN list = 1 .. n /\ \A i \in 1 .. n : list[i] = kvs[p[i]]
    OBVIOUS
  <2> HIDE DEF n, list
  <2>2. /\ IsFiniteSet(DOMAIN kvs) /\ p \in Bijection(DOMAIN list, DOMAIN kvs)
        /\ \A i \in DOMAIN list : list[i] = kvs[p[i]]
    BY <2>1
  <2>3. QED
    BY <2>2, Rearranged
<1>8. ByKey(kvs) = CHOOSE l \in [1 .. n -> Range(kvs)] : Right(l)
  <2>1. DOMAIN kvs = D
    OBVIOUS
  <2>2. QED
    BY <2>1, Zenon DEF ByKey
<1>9. \E l \in [1 .. n -> Range(kvs)] : Right(l)
  <2> HIDE DEF list
  <2>1. QED
    BY <1>5, <1>6, <1>7
<1>10. ByKey(kvs) \in [1 .. n -> Range(kvs)] /\ Right(ByKey(kvs))
  <2> HIDE DEF Right
  <2>1. QED
    BY <1>8, <1>9
<1>11. Range(kvs) \subseteq Pairs(W)
  BY DEF Range
<1>12. \A l : DOMAIN Occurrences(l) = Range(l)
  BY DEF Occurrences
<1>13. \A l : \A e \in Range(l) : Occurrences(l)[e] = Cardinality(Places(l, e))
  BY DEF Occurrences, Places
<1>14. Range(ByKey(kvs)) = Range(kvs)
  BY <1>10, <1>12
<1>15. QED
  BY <1>1, <1>10, <1>11, <1>13, <1>14
---------------------------------------------------------------------------
(* The loop over runs of equal keys, in a sorted list of n KeyValues.      *)

\* Between two positions with the same key every key is the same, and so are
\* the KeyValues.
LEMMA Between ==
    ASSUME NEW W \in SUBSET Nat, NEW n \in Nat, NEW s \in [1 .. n -> Pairs(W)],
           InOrder(s), NEW i \in 1 .. n, NEW j \in 1 .. n, NEW m \in 1 .. n,
           i <= m, m <= j, s[i].key = s[j].key
    PROVE  s[m].key = s[i].key
<1>1. s[i].key \in Nat /\ s[m].key \in Nat /\ s[j].key \in Nat
  BY DEF Pairs
<1>2. s[i].key <= s[m].key
  BY <1>1 DEF InOrder
<1>3. s[m].key <= s[j].key
  BY <1>1 DEF InOrder
<1>4. QED
  BY <1>1, <1>2, <1>3

\* A KeyValue of Map is its key.
LEMMA PairsByKey ==
    ASSUME NEW W, NEW d \in Pairs(W), NEW e \in Pairs(W), d.key = e.key
    PROVE  d = e
  BY DEF Pairs

\* A run has all the KeyValues of its key: none comes before its start, and none
\* is separated from it.
LEMMA RunIsWhole ==
    ASSUME NEW W \in SUBSET Nat, NEW n \in Nat, NEW s \in [1 .. n -> Pairs(W)],
           InOrder(s), NEW i \in RunStarts(s)
    PROVE  Run(s, i) = Places(s, s[i])
<1>1. i \in 1 .. n /\ (i = 1 \/ s[i - 1].key # s[i].key)
  BY DEF RunStarts
<1>2. ASSUME NEW k \in Run(s, i)
      PROVE  k \in Places(s, s[i])
  <2>1. k \in 1 .. n /\ k >= i /\ \A m \in i .. k : s[m].key = s[i].key
    BY DEF Run
  <2>2. k \in i .. k
    BY <1>1, <2>1
  <2>3. s[k] = s[i]
    BY <1>1, <2>1, <2>2, PairsByKey
  <2>4. QED
    BY <2>1, <2>3 DEF Places
<1>3. ASSUME NEW k \in Places(s, s[i])
      PROVE  k \in Run(s, i)
  <2>1. k \in 1 .. n /\ s[k] = s[i]
    BY DEF Places
  <2>2. k >= i
    <3> SUFFICES ASSUME k < i  PROVE FALSE
      BY <1>1, <2>1
    <3>1. i - 1 \in 1 .. n /\ k <= i - 1 /\ i - 1 <= i /\ i # 1
      BY <1>1, <2>1
    <3>2. s[i - 1].key = s[k].key
      <4>1. i \in 1 .. n /\ k \in 1 .. n /\ s[k].key = s[i].key
        BY <1>1, <2>1
      <4>2. QED
        BY <3>1, <4>1, Between
    <3>3. QED
      BY <1>1, <2>1, <3>1, <3>2
  <2>3. ASSUME NEW m \in i .. k
        PROVE  s[m].key = s[i].key
    <3>1. m \in 1 .. n /\ i <= m /\ m <= k
      BY <1>1, <2>1
    <3>2. QED
      BY <1>1, <2>1, <3>1, Between
  <2>4. QED
    BY <2>1, <2>2, <2>3 DEF Run
<1>4. QED
  BY <1>2, <1>3

\* One line is printed for a key.
LEMMA OneStart ==
    ASSUME NEW W \in SUBSET Nat, NEW n \in Nat, NEW s \in [1 .. n -> Pairs(W)],
           InOrder(s)
    PROVE  /\ \A i, j \in RunStarts(s) : s[i].key = s[j].key => i = j
           /\ \A e \in Range(s) : \E i \in RunStarts(s) : s[i] = e
<1>1. ASSUME NEW i \in RunStarts(s), NEW j \in RunStarts(s), s[i].key = s[j].key, i < j
      PROVE  FALSE
  <2>1. i \in 1 .. n /\ j \in 1 .. n /\ (j = 1 \/ s[j - 1].key # s[j].key)
    BY DEF RunStarts
  <2>2. j - 1 \in 1 .. n /\ i <= j - 1 /\ j - 1 <= j /\ j # 1
    BY <1>1, <2>1
  <2>3. s[j - 1].key = s[i].key
    BY <1>1, <2>1, <2>2, Between
  <2>4. QED
    BY <1>1, <2>1, <2>2, <2>3
<1>2. RunStarts(s) \subseteq Nat
  BY DEF RunStarts
<1>3. ASSUME NEW e \in Range(s)
      PROVE  \E i \in RunStarts(s) : s[i] = e
  <2>1. Places(s, e) \in SUBSET Nat /\ Places(s, e) # {}
    BY DEF Places, Range
  <2>2. PICK i \in Places(s, e) : \A j \in Places(s, e) : i <= j
    BY <2>1, LeastNumber
  <2>3. i \in 1 .. n /\ s[i] = e
    BY DEF Places
  <2>4. CASE i # 1 /\ s[i - 1].key = s[i].key
    <3>1. i - 1 \in 1 .. n /\ ~(i <= i - 1)
      BY <2>3, <2>4
    <3>2. s[i - 1] = e
      BY <2>3, <2>4, <3>1, PairsByKey
    <3>3. QED
      BY <2>2, <3>1, <3>2 DEF Places
  <2>5. QED
    BY <2>3, <2>4 DEF RunStarts
<1>4. \A i, j \in RunStarts(s) : s[i].key = s[j].key => i = j
  BY <1>1, <1>2
<1>5. QED
  BY <1>3, <1>4

\* The line that a list gives for one of its elements.
Line(kvs, e) == [key |-> e.key, value |-> Cardinality(Places(kvs, e))]

\* doReduce and mrsequential print one line for each key, and it tells how often
\* the key occurs.
LEMMA LinesCount ==
    ASSUME NEW W \in SUBSET Nat, NEW D, IsFiniteSet(D), NEW kvs \in [D -> Pairs(W)]
    PROVE  /\ \A i, j \in DOMAIN Lines(ByKey(kvs)) :
                 Lines(ByKey(kvs))[i].key = Lines(ByKey(kvs))[j].key => i = j
           /\ Range(Lines(ByKey(kvs))) = {Line(kvs, e) : e \in Range(kvs)}
<1> DEFINE n == Cardinality(D)
           s == ByKey(kvs)
<1>1. /\ s \in [1 .. n -> Pairs(W)] /\ n \in Nat /\ InOrder(s)
      /\ Range(s) = Range(kvs)
      /\ \A e \in Range(kvs) :
            Cardinality(Places(s, e)) = Cardinality(Places(kvs, e))
  BY ByKeySorts
<1> HIDE DEF n, s
<1>2. \A i \in RunStarts(s) : i \in 1 .. n /\ s[i] \in Range(kvs)
  BY <1>1 DEF RunStarts, Range
<1>3. DOMAIN Lines(s) = RunStarts(s)
  BY DEF Lines
<1>4. ASSUME NEW i \in RunStarts(s)
      PROVE  Lines(s)[i] = Line(kvs, s[i])
  <2>1. Lines(s)[i] = [key |-> s[i].key, value |-> Cardinality(Run(s, i))]
    BY DEF Lines, Reduce
  <2>2. Run(s, i) = Places(s, s[i])
    BY <1>1, RunIsWhole
  <2>3. QED
    BY <1>1, <1>2, <2>1, <2>2 DEF Line
<1>5. /\ \A i, j \in RunStarts(s) : s[i].key = s[j].key => i = j
      /\ \A e \in Range(s) : \E i \in RunStarts(s) : s[i] = e
  BY <1>1, OneStart
<1>6. \A i, j \in DOMAIN Lines(s) : Lines(s)[i].key = Lines(s)[j].key => i = j
  <2>1. ASSUME NEW i \in RunStarts(s)
        PROVE  Lines(s)[i].key = s[i].key
    <3>1. Lines(s)[i] = Line(kvs, s[i])
      BY <1>4
    <3>2. QED
      BY <3>1 DEF Line
  <2>2. QED
    BY <1>3, <1>5, <2>1
<1>7. Range(Lines(s)) = {Lines(s)[i] : i \in RunStarts(s)}
  BY <1>3 DEF Range
<1>8. Range(Lines(s)) = {Line(kvs, e) : e \in Range(kvs)}
  <2>1. {Lines(s)[i] : i \in RunStarts(s)} \subseteq {Line(kvs, e) : e \in Range(kvs)}
    BY <1>2, <1>4
  <2>2. ASSUME NEW e \in Range(kvs)
        PROVE  Line(kvs, e) \in {Lines(s)[i] : i \in RunStarts(s)}
    <3>1. PICK i \in RunStarts(s) : s[i] = e
      BY <1>1, <1>5
    <3>2. QED
      BY <1>4, <3>1
  <2>3. QED
    BY <1>7, <2>1, <2>2
<1>9. QED
  BY <1>6, <1>8 DEF s

\* Lists in which no element occurs twice are sorted to the same one if they
\* have the same elements.
LEMMA SameElements ==
    ASSUME NEW l1, NEW l2,
           \A p, q \in DOMAIN l1 : l1[p] = l1[q] => p = q,
           \A p, q \in DOMAIN l2 : l2[p] = l2[q] => p = q,
           Range(l1) = Range(l2)
    PROVE  Sorted(l1) = Sorted(l2)
<1>1. ASSUME NEW l, \A p, q \in DOMAIN l : l[p] = l[q] => p = q
      PROVE  Sorted(l) = [e \in Range(l) |-> 1]
  <2>1. ASSUME NEW e \in Range(l)
        PROVE  Cardinality({p \in DOMAIN l : l[p] = e}) = 1
    <3>1. PICK q \in DOMAIN l : l[q] = e
      BY DEF Range
    <3>2. {p \in DOMAIN l : l[p] = e} = {q}
      BY <1>1, <3>1
    <3>3. QED
      BY <3>2, FS_Singleton
  <2>2. QED
    BY <2>1 DEF Sorted, Occurrences
<1>2. QED
  BY <1>1
---------------------------------------------------------------------------
(* Appending lists.                                                        *)

\* The positions in lists put together: which list, and where in it.
LEMMA AppendedPlaces ==
    ASSUME NEW lists
    PROVE  /\ \A p \in DOMAIN Appended(lists) :
                 /\ p = <<p[1], p[2]>>
                 /\ p[1] \in DOMAIN lists /\ p[2] \in DOMAIN lists[p[1]]
                 /\ Appended(lists)[p] = lists[p[1]][p[2]]
           /\ \A t \in DOMAIN lists : \A k \in DOMAIN lists[t] :
                 /\ <<t, k>> \in DOMAIN Appended(lists)
                 /\ Appended(lists)[<<t, k>>] = lists[t][k]
<1> DEFINE D == UNION {{t} \X DOMAIN lists[t] : t \in DOMAIN lists}
<1>1. DOMAIN Appended(lists) = D /\ \A p \in D : Appended(lists)[p] = lists[p[1]][p[2]]
  BY DEF Appended
<1>2. ASSUME NEW p \in D
      PROVE  p = <<p[1], p[2]>> /\ p[1] \in DOMAIN lists /\ p[2] \in DOMAIN lists[p[1]]
  <2>1. PICK t \in DOMAIN lists : p \in {t} \X DOMAIN lists[t]
    OBVIOUS
  <2>2. QED
    BY <2>1
<1>3. ASSUME NEW t \in DOMAIN lists, NEW k \in DOMAIN lists[t]
      PROVE  <<t, k>> \in D
  <2>1. <<t, k>> \in {t} \X DOMAIN lists[t]
    OBVIOUS
  <2>2. QED
    BY <2>1
<1> HIDE DEF D
<1>4. QED
  BY <1>1, <1>2, <1>3

\* Finitely many files have finitely many lines.
LEMMA AppendedFinite ==
    ASSUME NEW lists, IsFiniteSet(DOMAIN lists),
           \A t \in DOMAIN lists : IsFiniteSet(DOMAIN lists[t])
    PROVE  IsFiniteSet(DOMAIN Appended(lists))
<1> DEFINE T == DOMAIN lists
           Block == {{t} \X DOMAIN lists[t] : t \in T}
           f == [t \in T |-> {t} \X DOMAIN lists[t]]
<1>1. f \in Surjection(T, Block)
  BY DEF Surjection
<1>2. IsFiniteSet(Block)
  <2> HIDE DEF f, Block
  <2>1. QED
    BY <1>1, FS_Surjection
<1>3. ASSUME NEW B \in Block
      PROVE  IsFiniteSet(B)
  <2>1. PICK t \in T : B = {t} \X DOMAIN lists[t]
    OBVIOUS
  <2>2. IsFiniteSet({t})
    BY FS_Singleton
  <2>3. QED
    BY <2>1, <2>2, FS_Product
<1>4. IsFiniteSet(UNION Block)
  <2> HIDE DEF Block
  <2>1. QED
    BY <1>2, <1>3, FS_UNION
<1>5. DOMAIN Appended(lists) = UNION Block
  BY DEF Appended
<1>6. QED
  BY <1>4, <1>5

\* A pair occurs at places of the sequence.
LEMMA PlacesIn ==
    ASSUME NEW f, NEW e
    PROVE  Places(f, e) \subseteq DOMAIN f
BY DEF Places

\* An element occurs as often in two lists of lists if these can be paired off
\* so that it occurs as often in each.
LEMMA AppendedCount ==
    ASSUME NEW a, NEW b, NEW e, NEW r \in [DOMAIN a -> DOMAIN b],
           \A s, t \in DOMAIN a : r[s] = r[t] => s = t,
           \A u \in DOMAIN b : \E t \in DOMAIN a : r[t] = u,
           IsFiniteSet(DOMAIN b),
           \A t \in DOMAIN a : /\ IsFiniteSet(DOMAIN a[t])
                               /\ IsFiniteSet(DOMAIN b[r[t]])
                               /\ Cardinality(Places(a[t], e)) = Cardinality(Places(b[r[t]], e))
    PROVE  Cardinality(Places(Appended(a), e)) = Cardinality(Places(Appended(b), e))
<1> DEFINE A(t) == Places(a[t], e)
           B(t) == Places(b[r[t]], e)
           g == [t \in DOMAIN a |-> CHOOSE h : h \in Bijection(A(t), B(t))]
<1>1. ASSUME NEW t \in DOMAIN a
      PROVE  /\ g[t] \in [A(t) -> B(t)]
             /\ \A x, y \in A(t) : g[t][x] = g[t][y] => x = y
             /\ \A z \in B(t) : \E x \in A(t) : g[t][x] = z
  <2>1. IsFiniteSet(A(t)) /\ IsFiniteSet(B(t))
    <3>1. A(t) \subseteq DOMAIN a[t] /\ B(t) \subseteq DOMAIN b[r[t]]
      BY PlacesIn
    <3>2. IsFiniteSet(DOMAIN a[t]) /\ IsFiniteSet(DOMAIN b[r[t]])
      OBVIOUS
    <3> HIDE DEF A, B
    <3>3. \A X, Y : IsFiniteSet(Y) /\ X \subseteq Y => IsFiniteSet(X)
      BY FS_Subset
    <3>4. QED
      BY <3>1, <3>2, <3>3
  <2>2. Bijection(A(t), B(t)) # {}
    BY <2>1, FS_SameCardinalityBij DEF ExistsBijection
  <2>3. g[t] \in Bijection(A(t), B(t))
    BY <2>2
  <2> HIDE DEF g, A, B
  <2>4. QED
    BY <2>3 DEF Bijection, Injection, Surjection, IsInjective
<1> HIDE DEF g
<1> DEFINE S == Places(Appended(a), e)
           T == Places(Appended(b), e)
           h == [p \in S |-> <<r[p[1]], g[p[1]][p[2]]>>]
<1>2. ASSUME NEW p \in S
      PROVE  p = <<p[1], p[2]>> /\ p[1] \in DOMAIN a /\ p[2] \in A(p[1])
  <2>1. p \in DOMAIN Appended(a) /\ Appended(a)[p] = e
    BY DEF Places
  <2>2. /\ p = <<p[1], p[2]>> /\ p[1] \in DOMAIN a /\ p[2] \in DOMAIN a[p[1]]
        /\ a[p[1]][p[2]] = e
    BY <2>1, AppendedPlaces
  <2>3. QED
    BY <2>2 DEF Places
<1>3. ASSUME NEW p \in T
      PROVE  p = <<p[1], p[2]>> /\ p[1] \in DOMAIN b /\ p[2] \in Places(b[p[1]], e)
  <2>1. p \in DOMAIN Appended(b) /\ Appended(b)[p] = e
    BY DEF Places
  <2>2. /\ p = <<p[1], p[2]>> /\ p[1] \in DOMAIN b /\ p[2] \in DOMAIN b[p[1]]
        /\ b[p[1]][p[2]] = e
    BY <2>1, AppendedPlaces
  <2>3. QED
    BY <2>2 DEF Places
<1>4. ASSUME NEW t \in DOMAIN a, NEW k \in A(t)
      PROVE  <<t, k>> \in S
  <2>1. k \in DOMAIN a[t] /\ a[t][k] = e
    BY DEF Places
  <2>2. <<t, k>> \in DOMAIN Appended(a) /\ Appended(a)[<<t, k>>] = e
    BY <2>1, AppendedPlaces
  <2>3. QED
    BY <2>2 DEF Places
<1>5. ASSUME NEW t \in DOMAIN a, NEW k \in B(t)
      PROVE  <<r[t], k>> \in T
  <2>1. r[t] \in DOMAIN b /\ k \in DOMAIN b[r[t]] /\ b[r[t]][k] = e
    BY DEF Places
  <2>2. <<r[t], k>> \in DOMAIN Appended(b) /\ Appended(b)[<<r[t], k>>] = e
    BY <2>1, AppendedPlaces
  <2>3. QED
    BY <2>2 DEF Places
<1> HIDE DEF A, B, S, T
<1>6. h \in [S -> T]
  BY <1>1, <1>2, <1>5
<1>7. ASSUME NEW p \in S, NEW q \in S, h[p] = h[q]
      PROVE  p = q
  <2>1. r[p[1]] = r[q[1]] /\ g[p[1]][p[2]] = g[q[1]][q[2]]
    BY <1>7
  <2>2. p[1] = q[1]
    BY <1>2, <2>1
  <2>3. p[2] = q[2]
    BY <1>1, <1>2, <2>1, <2>2
  <2>4. QED
    BY <1>2, <2>2, <2>3
<1>8. ASSUME NEW z \in T
      PROVE  \E p \in S : h[p] = z
  <2>1. PICK t \in DOMAIN a : r[t] = z[1]
    BY <1>3
  <2>2. z[2] \in B(t) /\ z = <<r[t], z[2]>>
    BY <1>3, <2>1 DEF B
  <2>3. PICK k \in A(t) : g[t][k] = z[2]
    BY <1>1, <2>2
  <2>4. <<t, k>> \in S
    BY <1>4
  <2>5. h[<<t, k>>] = z
    BY <2>2, <2>3, <2>4
  <2>6. QED
    BY <2>4, <2>5
<1>9. IsFiniteSet(T)
  <2>1. \A u \in DOMAIN b : IsFiniteSet(DOMAIN b[u])
    OBVIOUS
  <2>2. IsFiniteSet(DOMAIN Appended(b))
    BY <2>1, AppendedFinite
  <2>3. QED
    BY <2>2, FS_Subset DEF T, Places
<1> HIDE DEF h
<1>10. Cardinality(S) = Cardinality(T)
  <2>1. h \in Injection(S, T)
    BY <1>6, <1>7 DEF Injection, IsInjective
  <2>2. h \in Surjection(S, T)
    BY <1>6, <1>8 DEF Surjection
  <2>3. QED
    BY <1>9, <2>1, <2>2, FS_Injection
<1>11. QED
  BY <1>10 DEF S, T
---------------------------------------------------------------------------
(* What doMap writes.                                                      *)

TextOf(W) == UNION {[1 .. n -> W] : n \in Nat}

\* Map makes a KeyValue with the value 1 of every word.
LEMMA MapPairs ==
    ASSUME NEW W, NEW text \in TextOf(W)
    PROVE  /\ Map(text) \in [DOMAIN text -> Pairs(W)]
           /\ IsFiniteSet(DOMAIN text)
<1>1. PICK n \in Nat : text \in [1 .. n -> W]
  BY DEF TextOf
<1>2. IsFiniteSet(1 .. n)
  BY FS_Interval
<1>3. QED
  BY <1>1, <1>2 DEF Map, Pairs

\* mr-X-Y has every word of the text that belongs to part Y as often as the text
\* has it, and no other.
LEMMA doMapCount ==
    ASSUME NEW W \in SUBSET Nat, NEW text \in TextOf(W), NEW hash, NEW y
    PROVE  /\ doMap(text, hash, y) \in [DOMAIN doMap(text, hash, y) -> Pairs(W)]
           /\ IsFiniteSet(DOMAIN doMap(text, hash, y))
           /\ Range(doMap(text, hash, y)) = {e \in Range(Map(text)) : hash[e.key] = y}
           /\ \A e \in Pairs(W) : hash[e.key] = y =>
                 Cardinality(Places(doMap(text, hash, y), e))
                     = Cardinality(Places(Map(text), e))
<1> DEFINE kvs == Map(text)
           D == DOMAIN text
           n == Cardinality(D)
           s == ByKey(kvs)
           K == {k \in DOMAIN s : hash[s[k].key] = y}
           d == doMap(text, hash, y)
<1>1. kvs \in [D -> Pairs(W)] /\ IsFiniteSet(D)
  BY MapPairs
<1>2. d = [k \in K |-> s[k]]
  BY DEF doMap, Restrict
<1> HIDE DEF kvs, D, s, d
<1>3. /\ s \in [1 .. n -> Pairs(W)] /\ n \in Nat
      /\ Range(s) = Range(kvs)
      /\ \A e \in Range(kvs) :
            Cardinality(Places(s, e)) = Cardinality(Places(kvs, e))
  BY <1>1, ByKeySorts DEF s
<1> HIDE DEF n
<1>4. DOMAIN d = K /\ K \subseteq 1 .. n /\ DOMAIN s = 1 .. n
  BY <1>2, <1>3
<1>5. d \in [DOMAIN d -> Pairs(W)]
  BY <1>2, <1>3
<1>6. IsFiniteSet(DOMAIN d)
  BY <1>3, <1>4, FS_Interval, FS_Subset
<1>7. Range(d) = {e \in Range(kvs) : hash[e.key] = y}
  <2>1. Range(d) = {s[k] : k \in K}
    BY <1>2 DEF Range
  <2>2. Range(s) = {s[k] : k \in 1 .. n}
    BY <1>4 DEF Range
  <2>3. {s[k] : k \in K} = {e \in Range(s) : hash[e.key] = y}
    <3>1. \A k \in K : s[k] \in Range(s) /\ hash[s[k].key] = y
      BY <1>4, <2>2
    <3>2. \A e \in Range(s) : hash[e.key] = y => \E k \in K : e = s[k]
      BY <1>4, <2>2
    <3>3. QED
      BY <3>1, <3>2
  <2>4. QED
    BY <1>3, <2>1, <2>3
<1>8. ASSUME NEW e \in Pairs(W), hash[e.key] = y
      PROVE  Cardinality(Places(d, e)) = Cardinality(Places(kvs, e))
  <2>1. Places(d, e) = Places(s, e)
    BY <1>2, <1>4, <1>8 DEF Places
  <2>2. CASE e \in Range(kvs)
    BY <1>3, <2>1, <2>2
  <2>3. CASE e \notin Range(kvs)
    <3>1. Places(s, e) = {} /\ Places(kvs, e) = {}
      BY <1>3, <2>3 DEF Places, Range
    <3>2. QED
      BY <2>1, <3>1
  <2>4. QED
    BY <2>2, <2>3
<1>9. QED
  BY <1>5, <1>6, <1>7, <1>8 DEF kvs, d
---------------------------------------------------------------------------
(* What doReduce reads, and what mrsequential sorts.                       *)

AllPairs(texts) == Appended([f \in DOMAIN texts |-> Map(texts[f])])
PartPairs(read, texts, hash, y) ==
    Appended([t \in DOMAIN read |-> doMap(texts[read[t]], hash, y)])

\* The words of all texts are a finite list of KeyValues.
LEMMA AllPairsTyped ==
    ASSUME NEW W \in SUBSET Nat, NEW F, IsFiniteSet(F), NEW texts \in [F -> TextOf(W)]
    PROVE  /\ AllPairs(texts) \in [DOMAIN AllPairs(texts) -> Pairs(W)]
           /\ IsFiniteSet(DOMAIN AllPairs(texts))
           /\ Range(AllPairs(texts)) = UNION {Range(Map(texts[f])) : f \in F}
<1> DEFINE lists == [f \in DOMAIN texts |-> Map(texts[f])]
<1>1. DOMAIN lists = F /\ \A f \in F : lists[f] = Map(texts[f])
  OBVIOUS
<1>2. ASSUME NEW f \in F
      PROVE  lists[f] \in [DOMAIN texts[f] -> Pairs(W)] /\ IsFiniteSet(DOMAIN lists[f])
  <2>1. texts[f] \in TextOf(W)
    OBVIOUS
  <2>2. Map(texts[f]) \in [DOMAIN texts[f] -> Pairs(W)] /\ IsFiniteSet(DOMAIN texts[f])
    BY <2>1, MapPairs
  <2>3. QED
    BY <1>1, <2>2
<1>3. AllPairs(texts) = Appended(lists)
  BY DEF AllPairs
<1> HIDE DEF lists
<1>4. IsFiniteSet(DOMAIN Appended(lists))
  BY <1>1, <1>2, AppendedFinite
<1>5. ASSUME NEW p \in DOMAIN Appended(lists)
      PROVE  /\ Appended(lists)[p] \in Pairs(W)
             /\ Appended(lists)[p] \in UNION {Range(Map(texts[f])) : f \in F}
  <2>1. /\ p[1] \in F /\ p[2] \in DOMAIN lists[p[1]]
        /\ Appended(lists)[p] = lists[p[1]][p[2]]
    BY <1>1, AppendedPlaces
  <2>2. Appended(lists)[p] \in Pairs(W)
    BY <1>2, <2>1
  <2>3. Appended(lists)[p] \in Range(Map(texts[p[1]]))
    BY <1>1, <2>1 DEF Range
  <2>4. QED
    BY <2>1, <2>2, <2>3
<1>6. ASSUME NEW f \in F, NEW e \in Range(Map(texts[f]))
      PROVE  e \in Range(Appended(lists))
  <2>1. PICK k \in DOMAIN lists[f] : e = lists[f][k]
    BY <1>1 DEF Range
  <2>2. <<f, k>> \in DOMAIN Appended(lists) /\ Appended(lists)[<<f, k>>] = e
    BY <1>1, <2>1, AppendedPlaces
  <2>3. QED
    BY <2>2 DEF Range
<1>7. Range(Appended(lists)) = UNION {Range(Map(texts[f])) : f \in F}
  <2>1. Range(Appended(lists)) \subseteq UNION {Range(Map(texts[f])) : f \in F}
    BY <1>5 DEF Range
  <2>2. QED
    BY <1>6, <2>1
<1>8. Appended(lists) \in [DOMAIN Appended(lists) -> Pairs(W)]
  <2>1. Appended(lists) = [p \in DOMAIN Appended(lists) |-> Appended(lists)[p]]
    BY DEF Appended
  <2>2. QED
    BY <1>5, <2>1
<1>9. QED
  BY <1>3, <1>4, <1>7, <1>8

\* The reducer of part y that reads the file of every input once has every word
\* of its part as often as all texts together.
LEMMA PartPairsCount ==
    ASSUME NEW W \in SUBSET Nat, NEW F, IsFiniteSet(F), NEW texts \in [F -> TextOf(W)],
           NEW hash, NEW y,
           NEW read, read \in [DOMAIN read -> F],
           \A s, t \in DOMAIN read : read[s] = read[t] => s = t,
           \A f \in F : \E t \in DOMAIN read : read[t] = f
    PROVE  LET part == PartPairs(read, texts, hash, y)
           IN  /\ part \in [DOMAIN part -> Pairs(W)]
               /\ IsFiniteSet(DOMAIN part)
               /\ Range(part) = {e \in Range(AllPairs(texts)) : hash[e.key] = y}
               /\ \A e \in Range(part) :
                     Cardinality(Places(part, e))
                         = Cardinality(Places(AllPairs(texts), e))
<1> DEFINE T == DOMAIN read
           files == [t \in T |-> doMap(texts[read[t]], hash, y)]
           lists == [f \in F |-> Map(texts[f])]
           part == Appended(files)
<1>1. IsFiniteSet(T)
  <2>1. read \in Injection(T, F)
    BY DEF Injection, IsInjective
  <2>2. QED
    BY <2>1, FS_Injection
<1>2. DOMAIN files = T /\ \A t \in T : files[t] = doMap(texts[read[t]], hash, y)
  OBVIOUS
<1>3. DOMAIN lists = F /\ \A f \in F : lists[f] = Map(texts[f])
  OBVIOUS
<1>4. PartPairs(read, texts, hash, y) = part /\ AllPairs(texts) = Appended(lists)
  BY DEF PartPairs, AllPairs
<1> HIDE DEF files, lists
<1>5. ASSUME NEW t \in T
      PROVE  /\ files[t] \in [DOMAIN files[t] -> Pairs(W)]
             /\ IsFiniteSet(DOMAIN files[t])
             /\ Range(files[t]) = {e \in Range(lists[read[t]]) : hash[e.key] = y}
             /\ \A e \in Pairs(W) : hash[e.key] = y =>
                   Cardinality(Places(files[t], e))
                       = Cardinality(Places(lists[read[t]], e))
             /\ IsFiniteSet(DOMAIN lists[read[t]])
  <2>1. read[t] \in F /\ texts[read[t]] \in TextOf(W)
    OBVIOUS
  <2>2. IsFiniteSet(DOMAIN Map(texts[read[t]]))
    BY <2>1, MapPairs
  <2>3. QED
    BY <1>2, <1>3, <2>1, <2>2, doMapCount
<1>6. IsFiniteSet(DOMAIN part)
  BY <1>1, <1>2, <1>5, AppendedFinite
<1>7. ASSUME NEW p \in DOMAIN part
      PROVE  /\ part[p] \in Pairs(W)
             /\ part[p] \in Range(AllPairs(texts))
             /\ hash[part[p].key] = y
  <2>1. p[1] \in T /\ p[2] \in DOMAIN files[p[1]] /\ part[p] = files[p[1]][p[2]]
    BY <1>2, AppendedPlaces
  <2>2. part[p] \in Pairs(W)
    BY <1>5, <2>1
  <2>3. part[p] \in Range(files[p[1]])
    BY <2>1 DEF Range
  <2>4. part[p] \in Range(lists[read[p[1]]]) /\ hash[part[p].key] = y
    BY <1>5, <2>1, <2>3
  <2>5. read[p[1]] \in F
    BY <2>1
  <2>6. part[p] \in Range(AllPairs(texts))
    BY <1>3, <2>4, <2>5, AllPairsTyped
  <2>7. QED
    BY <2>2, <2>4, <2>6
<1>8. part \in [DOMAIN part -> Pairs(W)]
  <2>1. part = [p \in DOMAIN part |-> part[p]]
    BY DEF Appended
  <2> HIDE DEF part
  <2>2. QED
    BY <1>7, <2>1
<1>9. ASSUME NEW e \in Range(AllPairs(texts)), hash[e.key] = y
      PROVE  e \in Range(part)
  <2>1. PICK f \in F : e \in Range(Map(texts[f]))
    BY AllPairsTyped
  <2>2. PICK t \in T : read[t] = f
    OBVIOUS
  <2>3. e \in Range(files[t])
    <3>1. e \in Range(lists[read[t]])
      BY <1>3, <2>1, <2>2
    <3>2. Range(files[t]) = {d \in Range(lists[read[t]]) : hash[d.key] = y}
      BY <1>5
    <3>3. QED
      BY <1>9, <3>1, <3>2
  <2>4. PICK k \in DOMAIN files[t] : files[t][k] = e
    BY <2>3 DEF Range
  <2>5. <<t, k>> \in DOMAIN part /\ part[<<t, k>>] = e
    BY <1>2, <2>4, AppendedPlaces
  <2>6. QED
    BY <2>5 DEF Range
<1>10. Range(part) = {e \in Range(AllPairs(texts)) : hash[e.key] = y}
  <2>1. \A e \in Range(part) : e \in Range(AllPairs(texts)) /\ hash[e.key] = y
    BY <1>7 DEF Range
  <2>2. QED
    BY <1>9, <2>1
<1>11. ASSUME NEW e \in Range(part)
       PROVE  Cardinality(Places(part, e)) = Cardinality(Places(AllPairs(texts), e))
  <2>1. e \in Pairs(W) /\ hash[e.key] = y
    BY <1>7 DEF Range
  <2>2. /\ read \in [DOMAIN files -> DOMAIN lists]
        /\ \A s, t \in DOMAIN files : read[s] = read[t] => s = t
        /\ \A u \in DOMAIN lists : \E t \in DOMAIN files : read[t] = u
        /\ IsFiniteSet(DOMAIN lists)
    BY <1>2, <1>3
  <2>3. \A t \in DOMAIN files :
           /\ IsFiniteSet(DOMAIN files[t])
           /\ IsFiniteSet(DOMAIN lists[read[t]])
           /\ Cardinality(Places(files[t], e)) = Cardinality(Places(lists[read[t]], e))
    BY <1>2, <1>5, <2>1
  <2>4. Cardinality(Places(Appended(files), e)) = Cardinality(Places(Appended(lists), e))
    BY <2>2, <2>3, AppendedCount
  <2>5. QED
    BY <1>4, <2>4
<1> HIDE DEF part
<1>12. QED
  BY <1>4, <1>6, <1>8, <1>10, <1>11

\* Whatever the texts and the hash function are, the sorted files mr-out* are the
\* sorted output of mrsequential if the reducer of each part has read the file of
\* every input once: no word is split between two lines or counted in two parts.
THEOREM OutputIsMrsequential ==
    ASSUME NEW W \in SUBSET Nat, NEW F, IsFiniteSet(F), NEW texts \in [F -> TextOf(W)],
           NEW reads, NEW hash \in [W -> DOMAIN reads],
           \A y \in DOMAIN reads : reads[y] \in Bijection(DOMAIN reads[y], F)
    PROVE  Sorted(Output(reads, texts, hash)) = Sorted(mrsequential(texts))
<1> DEFINE all == AllPairs(texts)
           part(y) == PartPairs(reads[y], texts, hash, y)
           lines == [y \in DOMAIN reads |-> Lines(ByKey(part(y)))]
           right == Lines(ByKey(all))
<1>1. /\ all \in [DOMAIN all -> Pairs(W)] /\ IsFiniteSet(DOMAIN all)
      /\ Range(all) \subseteq Pairs(W)
  <2>1. all \in [DOMAIN all -> Pairs(W)] /\ IsFiniteSet(DOMAIN all)
    BY AllPairsTyped
  <2> HIDE DEF all
  <2>2. QED
    BY <2>1 DEF Range
<1>2. ASSUME NEW y \in DOMAIN reads
      PROVE  /\ part(y) \in [DOMAIN part(y) -> Pairs(W)]
             /\ IsFiniteSet(DOMAIN part(y))
             /\ Range(part(y)) = {e \in Range(all) : hash[e.key] = y}
             /\ \A e \in Range(part(y)) :
                   Cardinality(Places(part(y), e)) = Cardinality(Places(all, e))
  <2>1. /\ reads[y] \in [DOMAIN reads[y] -> F]
        /\ \A s, t \in DOMAIN reads[y] : reads[y][s] = reads[y][t] => s = t
        /\ \A f \in F : \E t \in DOMAIN reads[y] : reads[y][t] = f
    BY DEF Bijection, Injection, Surjection, IsInjective
  <2>2. QED
    BY <2>1, PartPairsCount
<1>3. Output(reads, texts, hash) = Appended(lines) /\ mrsequential(texts) = right
  BY DEF Output, mrsequential, doReduce, PartPairs, AllPairs
<1>4. DOMAIN lines = DOMAIN reads /\ \A y \in DOMAIN reads : lines[y] = Lines(ByKey(part(y)))
  OBVIOUS
<1> HIDE DEF all, part, lines, right
<1>5. /\ \A i, j \in DOMAIN right : right[i].key = right[j].key => i = j
      /\ Range(right) = {Line(all, e) : e \in Range(all)}
  BY <1>1, LinesCount DEF right
<1>6. ASSUME NEW y \in DOMAIN reads
      PROVE  /\ \A i, j \in DOMAIN lines[y] : lines[y][i].key = lines[y][j].key => i = j
             /\ Range(lines[y]) = {Line(part(y), e) : e \in Range(part(y))}
  <2>1. part(y) \in [DOMAIN part(y) -> Pairs(W)] /\ IsFiniteSet(DOMAIN part(y))
    BY <1>2
  <2>2. lines[y] = Lines(ByKey(part(y)))
    BY <1>4
  <2>3. QED
    BY <2>1, <2>2, LinesCount
<1>7. ASSUME NEW y \in DOMAIN reads, NEW e \in Range(part(y))
      PROVE  Line(part(y), e) = Line(all, e)
  BY <1>2 DEF Line
<1>8. ASSUME NEW y \in DOMAIN reads
      PROVE  Range(lines[y]) = {Line(all, e) : e \in {d \in Range(all) : hash[d.key] = y}}
  <2> DEFINE R == Range(part(y))
  <2>1. R = {d \in Range(all) : hash[d.key] = y}
    BY <1>2
  <2>2. Range(lines[y]) = {Line(part(y), e) : e \in R}
    BY <1>6
  <2>3. \A e \in R : Line(part(y), e) = Line(all, e)
    BY <1>7
  <2> HIDE DEF R
  <2>4. {Line(part(y), e) : e \in R} = {Line(all, e) : e \in R}
    BY <2>3
  <2>5. QED
    BY <2>1, <2>2, <2>4
<1>9. \A e : Line(all, e).key = e.key
  BY DEF Line
<1>10. ASSUME NEW p \in DOMAIN Appended(lines)
       PROVE  /\ p = <<p[1], p[2]>> /\ p[1] \in DOMAIN reads /\ p[2] \in DOMAIN lines[p[1]]
              /\ Appended(lines)[p] = lines[p[1]][p[2]]
              /\ hash[Appended(lines)[p].key] = p[1]
              /\ Appended(lines)[p] \in Range(right)
  <2>1. /\ p = <<p[1], p[2]>> /\ p[1] \in DOMAIN reads /\ p[2] \in DOMAIN lines[p[1]]
        /\ Appended(lines)[p] = lines[p[1]][p[2]]
    BY <1>4, AppendedPlaces
  <2>2. Appended(lines)[p] \in Range(lines[p[1]])
    BY <2>1 DEF Range
  <2>3. PICK e \in Range(all) : hash[e.key] = p[1] /\ Appended(lines)[p] = Line(all, e)
    BY <1>8, <2>1, <2>2
  <2>4. hash[Appended(lines)[p].key] = p[1]
    BY <1>9, <2>3
  <2>5. Appended(lines)[p] \in Range(right)
    BY <1>5, <2>3
  <2>6. QED
    BY <2>1, <2>4, <2>5
<1>11. ASSUME NEW p \in DOMAIN Appended(lines), NEW q \in DOMAIN Appended(lines),
              Appended(lines)[p] = Appended(lines)[q]
       PROVE  p = q
  <2>1. p[1] = q[1]
    BY <1>10, <1>11
  <2>2. p[2] = q[2]
    BY <1>6, <1>10, <1>11, <2>1
  <2>3. QED
    BY <1>10, <2>1, <2>2
<1>12. ASSUME NEW l \in Range(right)
       PROVE  l \in Range(Appended(lines))
  <2>1. PICK e \in Range(all) : l = Line(all, e)
    BY <1>5
  <2>2. hash[e.key] \in DOMAIN reads
    BY <1>1, <2>1 DEF Pairs
  <2>3. PICK y \in DOMAIN reads : hash[e.key] = y
    BY <2>2
  <2>4. l \in Range(lines[y])
    BY <1>8, <2>1, <2>3
  <2>5. PICK k \in DOMAIN lines[y] : lines[y][k] = l
    BY <2>4 DEF Range
  <2>6. <<y, k>> \in DOMAIN Appended(lines) /\ Appended(lines)[<<y, k>>] = l
    BY <1>4, <2>5, AppendedPlaces
  <2>7. QED
    BY <2>6 DEF Range
<1>13. Range(Appended(lines)) = Range(right)
  <2>1. \A l \in Range(Appended(lines)) : l \in Range(right)
    <3>1. ASSUME NEW l \in Range(Appended(lines))  PROVE l \in Range(right)
      <4>1. PICK p \in DOMAIN Appended(lines) : Appended(lines)[p] = l
        BY DEF Range
      <4>2. QED
        BY <1>10, <4>1
    <3>2. QED
      BY <3>1
  <2>2. QED
    BY <1>12, <2>1
<1>14. Sorted(Appended(lines)) = Sorted(right)
  <2>1. \A p, q \in DOMAIN Appended(lines) : Appended(lines)[p] = Appended(lines)[q] => p = q
    BY <1>11
  <2>2. \A i, j \in DOMAIN right : right[i] = right[j] => i = j
    BY <1>5
  <2>3. QED
    BY <1>13, <2>1, <2>2, SameElements
<1>15. QED
  BY <1>3, <1>14
============================================================================
