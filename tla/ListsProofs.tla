---------------------------- MODULE ListsProofs ----------------------------
(***************************************************************************)
(* Facts about the operators of Lists, for lists of any length.  A loop is *)
(* a recursive function over the index; each fact about one is proved by   *)
(* induction, stated with a set in place of a predicate (Induction).       *)
(***************************************************************************)
EXTENDS Lists, FiniteSetTheorems, SequenceTheorems, WellFoundedInduction, TLAPS

-----------------------------------------------------------------------------
(* Natural numbers                                                         *)

\* A set of natural numbers that is not empty has a least element.
LEMMA LeastNatural ==
  ASSUME NEW T \in SUBSET Nat, T # {}
  PROVE  \E m \in T : \A k \in T : m <= k
  <1> DEFINE R == OpToRel(<, Nat)
  <1>1. IsWellFoundedOn(R, Nat)
    BY NatLessThanWellFounded, Zenon
  <1>2. \A x, y \in Nat : x < y => <<x, y>> \in R
    BY DEF OpToRel
  <1> HIDE DEF R
  <1>3. PICK m \in T : \A y \in T : ~ (<<y, m>> \in R)
    BY <1>1, WFMin, Zenon
  <1>4. ASSUME NEW k \in T PROVE m <= k
    <2>1. k \in Nat /\ m \in Nat
      OBVIOUS
    <2>2. ~ (k < m)
      BY <1>2, <1>3, <2>1, Zenon
    <2>3. QED
      BY <2>1, <2>2
  <1>5. QED
    BY <1>4, Zenon

\* Induction over the natural numbers; the set T stands for the predicate.
LEMMA Induction ==
  ASSUME NEW T, 0 \in T, \A n \in Nat : n \in T => n + 1 \in T
  PROVE  \A n \in Nat : n \in T
  <1> DEFINE F == {n \in Nat : n \notin T}
  <1>1. SUFFICES ASSUME F # {} PROVE FALSE
    OBVIOUS
  <1>2. PICK m \in F : \A k \in F : m <= k
    <2>1. F \in SUBSET Nat
      OBVIOUS
    <2> HIDE DEF F
    <2>2. QED
      BY <1>1, <2>1, LeastNatural, Zenon
  <1>3. m # 0 /\ m - 1 \in Nat /\ m - 1 \notin F
    BY <1>2
  <1>4. m - 1 \in T /\ (m - 1) + 1 = m
    BY <1>3
  <1>5. m \in T
    BY <1>3, <1>4
  <1>6. QED
    BY <1>2, <1>5

\* A bounded set of natural numbers has a greatest element, and Max is it.
LEMMA MaxIs ==
  ASSUME NEW n \in Nat, NEW T \in SUBSET 0..n, T # {}
  PROVE  Max(T) \in T /\ \A k \in T : k <= Max(T)
  <1> DEFINE F == {n - k : k \in T}
  <1>1. F \in SUBSET Nat /\ F # {}
    OBVIOUS
  <1>2. PICK m \in F : \A k \in F : m <= k
    <2> HIDE DEF F
    <2>1. QED
      BY <1>1, LeastNatural, Zenon
  <1>3. PICK x \in T : m = n - x
    BY <1>2
  <1>4. \A k \in T : k <= x
    BY <1>2, <1>3
  <1>5. \E y \in T : \A k \in T : k <= y
    BY <1>4, Zenon
  <1>6. QED
    BY <1>5, Zenon DEF Max

\* A set of natural numbers has Min as its least element.
LEMMA MinIs ==
  ASSUME NEW T \in SUBSET Nat, T # {}
  PROVE  Min(T) \in T /\ \A k \in T : Min(T) <= k
  <1>1. \E m \in T : \A k \in T : m <= k
    BY LeastNatural, Zenon
  <1>2. QED
    BY <1>1, Zenon DEF Min

-----------------------------------------------------------------------------
(* Kept                                                                    *)

\* The values of the loop of Kept up to its n-th round.
KeptRounds(list, S, n, f) ==
    f = [i \in 0..n |-> IF i = 0 THEN <<>>
                        ELSE IF list[i] \in S THEN Append(f[i - 1], list[i]) ELSE f[i - 1]]

LEMMA KeptDefined ==
  ASSUME NEW list, NEW S, NEW n \in Nat
  PROVE  \E f : KeptRounds(list, S, n, f)
  <1> DEFINE T == {k \in Nat : \E f : KeptRounds(list, S, k, f)}
  <1>1. 0 \in T
    <2>1. KeptRounds(list, S, 0, [i \in 0..0 |-> <<>>])
      BY DEF KeptRounds
    <2>2. QED
      BY <2>1
  <1>2. ASSUME NEW k \in Nat, k \in T PROVE k + 1 \in T
    <2>1. PICK f : KeptRounds(list, S, k, f)
      BY <1>2
    <2> DEFINE last == IF list[k + 1] \in S THEN Append(f[k], list[k + 1]) ELSE f[k]
               g == [i \in 0..(k + 1) |-> IF i = k + 1 THEN last ELSE f[i]]
    <2>2. \A i \in 0..k : f[i] = IF i = 0 THEN <<>>
                ELSE IF list[i] \in S THEN Append(f[i - 1], list[i]) ELSE f[i - 1]
      BY <2>1 DEF KeptRounds
    <2>3. \A i \in 0..(k + 1) : g[i] = IF i = 0 THEN <<>>
                ELSE IF list[i] \in S THEN Append(g[i - 1], list[i]) ELSE g[i - 1]
      <3>1. \A i \in 0..(k + 1) : i # k + 1 => i \in 0..k /\ g[i] = f[i]
        OBVIOUS
      <3>2. \A i \in 0..(k + 1) : i # 0 => i - 1 \in 0..k /\ g[i - 1] = f[i - 1]
        OBVIOUS
      <3>3. g[k + 1] = last /\ (k + 1) - 1 = k /\ k + 1 # 0
        OBVIOUS
      <3> HIDE DEF g
      <3>4. QED
        BY <2>2, <3>1, <3>2, <3>3
    <2>4. KeptRounds(list, S, k + 1, g)
      <3>1. g = [i \in 0..(k + 1) |-> g[i]]
        OBVIOUS
      <3> HIDE DEF g
      <3>2. QED
        BY <2>3, <3>1, Zenon DEF KeptRounds
    <2>5. QED
      BY <2>4
  <1> HIDE DEF T
  <1>3. n \in T
    BY <1>1, <1>2, Induction, Zenon
  <1>4. QED
    BY <1>3 DEF T

\* The first n elements of list that are in S are those of q, in order; h gives
\* their places.
Picks(list, S, n, q, h) ==
    /\ Len(h) = Len(q)
    /\ \A k \in 1..Len(q) : h[k] \in 1..n /\ q[k] = list[h[k]] /\ q[k] \in S
    /\ \A k, l \in 1..Len(q) : k < l => h[k] < h[l]
    /\ \A i \in 1..n : list[i] \in S => \E k \in 1..Len(q) : h[k] = i

LEMMA PicksOneMore ==
  ASSUME NEW E, NEW list, NEW S, NEW n \in Nat, NEW q \in Seq(E), NEW h \in Seq(Nat),
         Picks(list, S, n, q, h), list[n + 1] \in E, list[n + 1] \in S
  PROVE  /\ Append(q, list[n + 1]) \in Seq(E) /\ Append(h, n + 1) \in Seq(Nat)
         /\ Picks(list, S, n + 1, Append(q, list[n + 1]), Append(h, n + 1))
  <1> DEFINE p == Append(q, list[n + 1])
             g == Append(h, n + 1)
  <1>1. /\ p \in Seq(E) /\ g \in Seq(Nat) /\ Len(q) \in Nat
        /\ Len(p) = Len(q) + 1 /\ Len(g) = Len(q) + 1
        /\ \A k \in 1..Len(q) : p[k] = q[k] /\ g[k] = h[k]
        /\ p[Len(q) + 1] = list[n + 1] /\ g[Len(q) + 1] = n + 1
    BY DEF Picks
  <1> HIDE DEF p, g
  <1>2. \A k \in 1..Len(p) : k \in 1..Len(q) \/ k = Len(q) + 1
    BY <1>1
  <1>3. \A k \in 1..Len(p) : g[k] \in 1..(n + 1) /\ p[k] = list[g[k]] /\ p[k] \in S
    <2>1. \A k \in 1..Len(q) : h[k] \in 1..(n + 1)
      BY DEF Picks
    <2>2. QED
      BY <1>1, <1>2, <2>1, n + 1 \in 1..(n + 1) DEF Picks
  <1>4. ASSUME NEW k \in 1..Len(p), NEW l \in 1..Len(p), k < l
        PROVE  g[k] < g[l]
    <2>1. k \in 1..Len(q) /\ g[k] = h[k] /\ h[k] \in 1..n
      BY <1>1, <1>2, <1>4 DEF Picks
    <2>2. CASE l = Len(q) + 1
      BY <1>1, <2>1, <2>2
    <2>3. CASE l \in 1..Len(q)
      BY <1>1, <1>4, <2>1, <2>3 DEF Picks
    <2>4. QED
      BY <1>2, <2>2, <2>3
  <1>5. ASSUME NEW i \in 1..(n + 1), list[i] \in S
        PROVE  \E k \in 1..Len(p) : g[k] = i
    <2>1. CASE i = n + 1
      <3>1. Len(q) + 1 \in 1..Len(p) /\ g[Len(q) + 1] = i
        BY <1>1, <2>1
      <3>2. QED
        BY <3>1, Zenon
    <2>2. CASE i \in 1..n
      <3>1. PICK k \in 1..Len(q) : h[k] = i
        BY <1>5, <2>2, Zenon DEF Picks
      <3>2. k \in 1..Len(p) /\ g[k] = i
        BY <1>1, <3>1
      <3>3. QED
        BY <3>2, Zenon
    <2>3. QED
      BY <2>1, <2>2
  <1>6. QED
    BY <1>1, <1>3, <1>4, <1>5 DEF Picks, p, g

\* Kept returns the elements in S, all of them, in their order.
LEMMA KeptIs ==
  ASSUME NEW E, NEW list \in Seq(E), NEW S
  PROVE  /\ Kept(list, S) \in Seq(E)
         /\ \E h \in Seq(Nat) : Picks(list, S, Len(list), Kept(list, S), h)
  <1> DEFINE n == Len(list)
  <1>1. n \in Nat /\ \A i \in 1..n : list[i] \in E
    OBVIOUS
  <1>2. PICK f : KeptRounds(list, S, n, f) /\ Kept(list, S) = f[n]
    <2>1. \E f : KeptRounds(list, S, n, f)
      BY <1>1, KeptDefined, Zenon
    <2>2. QED
      BY <2>1, Zenon DEF KeptRounds, Kept
  <1>3. /\ f[0] = <<>>
        /\ \A i \in 1..n : f[i] = IF list[i] \in S THEN Append(f[i - 1], list[i]) ELSE f[i - 1]
    <2> DEFINE body(i) == IF i = 0 THEN <<>>
                          ELSE IF list[i] \in S THEN Append(f[i - 1], list[i]) ELSE f[i - 1]
    <2>1. f = [i \in 0..n |-> body(i)]
      BY <1>2, Zenon DEF KeptRounds
    <2> HIDE DEF n
    <2>2. \A i \in 0..n : f[i] = body(i)
      BY <2>1, Zenon
    <2>3. 0 \in 0..n /\ \A i \in 1..n : i \in 0..n /\ i # 0
      BY <1>1
    <2>4. QED
      BY <2>2, <2>3, Zenon
  <1> DEFINE T == {k \in Nat : k <= n => /\ f[k] \in Seq(E)
                                         /\ \E h \in Seq(Nat) : Picks(list, S, k, f[k], h)}
  <1> HIDE DEF n
  <1>4. 0 \in T
    <2>1. Picks(list, S, 0, <<>>, <<>>)
      BY DEF Picks
    <2>2. <<>> \in Seq(E) /\ <<>> \in Seq(Nat)
      OBVIOUS
    <2>3. QED
      BY <1>3, <2>1, <2>2
  <1>5. ASSUME NEW k \in Nat, k \in T PROVE k + 1 \in T
    <2>1. SUFFICES ASSUME k + 1 <= n
                   PROVE  /\ f[k + 1] \in Seq(E)
                          /\ \E h \in Seq(Nat) : Picks(list, S, k + 1, f[k + 1], h)
      OBVIOUS
    <2>2. PICK h \in Seq(Nat) : f[k] \in Seq(E) /\ Picks(list, S, k, f[k], h)
      BY <1>1, <1>5, <2>1
    <2>3. f[k + 1] = IF list[k + 1] \in S THEN Append(f[k], list[k + 1]) ELSE f[k]
      <3>1. k + 1 \in 1..n /\ (k + 1) - 1 = k
        BY <1>1, <2>1
      <3>2. QED
        BY <1>3, <3>1
    <2>4. list[k + 1] \in E
      BY <1>1, <2>1
    <2>5. CASE list[k + 1] \in S
      <3>1. /\ Append(f[k], list[k + 1]) \in Seq(E) /\ Append(h, k + 1) \in Seq(Nat)
            /\ Picks(list, S, k + 1, Append(f[k], list[k + 1]), Append(h, k + 1))
        BY <2>2, <2>4, <2>5, PicksOneMore, Zenon
      <3>2. QED
        BY <2>3, <2>5, <3>1, Zenon
    <2>6. CASE list[k + 1] \notin S
      <3>1. Picks(list, S, k + 1, f[k], h)
        <4>1. \A i \in 1..(k + 1) : list[i] \in S => i \in 1..k
          BY <2>6
        <4>2. \A i \in 1..k : i \in 1..(k + 1)
          OBVIOUS
        <4>3. QED
          BY <2>2, <4>1, <4>2, Zenon DEF Picks
      <3>2. QED
        BY <2>2, <2>3, <2>6, <3>1
    <2>7. QED
      BY <2>5, <2>6
  <1> HIDE DEF T
  <1>6. n \in T
    BY <1>1, <1>4, <1>5, Induction, Zenon
  <1>7. QED
    BY <1>1, <1>2, <1>6 DEF T, n

-----------------------------------------------------------------------------
(* SliceStable                                                             *)

\* r is s with x put behind its first m elements.
HasBehind(E, s, x, m, r) ==
    /\ r \in Seq(E) /\ Len(r) = Len(s) + 1 /\ r[m + 1] = x
    /\ \A k \in 1..m : r[k] = s[k]
    /\ \A k \in (m + 2)..(Len(s) + 1) : r[k] = s[k - 1]

LEMMA InsertAtIs ==
  ASSUME NEW E, NEW s \in Seq(E), NEW x \in E, NEW m \in 0..Len(s)
  PROVE  HasBehind(E, s, x, m, InsertAt(s, m + 1, x))
  <1> DEFINE a == SubSeq(s, 1, (m + 1) - 1)
             b == SubSeq(s, m + 1, Len(s))
             n == Len(s)
             r == (a \o <<x>>) \o b
  <1>1. InsertAt(s, m + 1, x) = r
    BY DEF InsertAt
  <1>2. n \in Nat /\ m \in Nat /\ m <= n
    OBVIOUS
  <1>3. a \in Seq(E) /\ Len(a) = m /\ \A k \in 1..m : a[k] = s[k]
    BY <1>2
  <1>4. b \in Seq(E) /\ Len(b) = n - m /\ \A k \in 1..(n - m) : b[k] = s[m + k]
    BY <1>2
  <1> HIDE DEF a, b, n
  <1>5. /\ a \o <<x>> \in Seq(E) /\ Len(a \o <<x>>) = m + 1
        /\ \A k \in 1..m : (a \o <<x>>)[k] = s[k]
        /\ (a \o <<x>>)[m + 1] = x
    BY <1>2, <1>3
  <1> DEFINE c == a \o <<x>>
  <1> HIDE DEF c
  <1>6. c \in Seq(E) /\ Len(c) = m + 1 /\ (\A k \in 1..m : c[k] = s[k]) /\ c[m + 1] = x
    BY <1>5 DEF c
  <1>7. /\ c \o b \in Seq(E) /\ Len(c \o b) = n + 1
        /\ \A k \in 1..(m + 1) : (c \o b)[k] = c[k]
        /\ \A k \in (m + 2)..(n + 1) : (c \o b)[k] = b[k - (m + 1)]
    <2>1. /\ c \o b \in Seq(E) /\ Len(c \o b) = Len(c) + Len(b)
          /\ \A k \in 1..(Len(c) + Len(b)) :
                (c \o b)[k] = IF k <= Len(c) THEN c[k] ELSE b[k - Len(c)]
      BY <1>4, <1>6, ConcatProperties, Zenon
    <2>2. Len(c) + Len(b) = n + 1 /\ \A k \in 1..(m + 1) : k \in 1..(n + 1) /\ k <= Len(c)
      BY <1>2, <1>4, <1>6
    <2>3. \A k \in (m + 2)..(n + 1) : k \in 1..(n + 1) /\ ~ (k <= Len(c))
      BY <1>2, <1>4, <1>6
    <2>4. QED
      BY <1>6, <2>1, <2>2, <2>3, Zenon
  <1>8. \A k \in (m + 2)..(n + 1) : b[k - (m + 1)] = s[k - 1]
    <2>1. ASSUME NEW k \in (m + 2)..(n + 1)
          PROVE  k - (m + 1) \in 1..(n - m) /\ m + (k - (m + 1)) = k - 1
      BY <1>2
    <2>2. QED
      BY <1>4, <2>1
  <1>9. \A k \in 1..m : k \in 1..(m + 1)
    BY <1>2
  <1>10. m + 1 \in 1..(m + 1)
    BY <1>2
  <1>11. r = c \o b
    BY DEF c
  <1> HIDE DEF r
  <1>12. InsertAt(s, m + 1, x) = c \o b /\ n = Len(s)
    BY <1>1, <1>11, Zenon DEF n
  <1>13. /\ \A k \in 1..m : (c \o b)[k] = s[k]
         /\ (c \o b)[m + 1] = x
         /\ \A k \in (m + 2)..(n + 1) : (c \o b)[k] = s[k - 1]
    BY <1>6, <1>7, <1>8, <1>9, <1>10, Zenon
  <1>14. QED
    BY <1>7, <1>12, <1>13, Zenon DEF HasBehind

\* r is s with x behind the last element it is not less than.
StopsAt(s, x, less, r) ==
    \E m \in 0..Len(s) :
        /\ m # 0 => <<x, s[m]>> \notin less
        /\ \A j \in (m + 1)..Len(s) : <<x, s[j]>> \in less
        /\ r = InsertAt(s, m + 1, x)

LEMMA InsertedIs ==
  ASSUME NEW E, NEW s \in Seq(E), NEW x \in E, NEW less
  PROVE  StopsAt(s, x, less, Inserted(s, x, less))
  <1> DEFINE stops == {0} \cup {j \in DOMAIN s : <<x, s[j]>> \notin less}
  <1>1. Len(s) \in Nat /\ DOMAIN s = 1..Len(s)
    OBVIOUS
  <1>2. stops \in SUBSET (0..Len(s)) /\ stops # {}
    BY <1>1
  <1>3. Max(stops) \in stops /\ \A k \in stops : k <= Max(stops)
    <2> HIDE DEF stops
    <2>1. QED
      BY <1>1, <1>2, MaxIs, Zenon
  <1>4. Inserted(s, x, less) = InsertAt(s, Max(stops) + 1, x)
    BY Zenon DEF Inserted
  <1> DEFINE m == Max(stops)
  <1> HIDE DEF m
  <1>5. m \in 0..Len(s) /\ m \in stops /\ \A k \in stops : k <= m
    BY <1>2, <1>3 DEF m
  <1>6. m # 0 => <<x, s[m]>> \notin less
    BY <1>5
  <1>7. ASSUME NEW j \in (m + 1)..Len(s) PROVE <<x, s[j]>> \in less
    <2>1. j \in 1..Len(s) /\ ~ (j <= m)
      BY <1>1, <1>5
    <2>2. j \notin stops
      BY <1>5, <2>1, Zenon
    <2>3. QED
      BY <1>1, <2>1, <2>2
  <1>8. Inserted(s, x, less) = InsertAt(s, m + 1, x)
    BY <1>4 DEF m
  <1> HIDE DEF stops
  <1>9. QED
    BY <1>5, <1>6, <1>7, <1>8, Zenon DEF StopsAt

\* The values of the loop of SliceStable up to its n-th round.
SortRounds(list, less, n, f) ==
    f = [i \in 0..n |-> IF i = 0 THEN <<>> ELSE Inserted(f[i - 1], list[i], less)]

LEMMA SortDefined ==
  ASSUME NEW list, NEW less, NEW n \in Nat
  PROVE  \E f : SortRounds(list, less, n, f)
  <1> DEFINE T == {k \in Nat : \E f : SortRounds(list, less, k, f)}
  <1>1. 0 \in T
    <2>1. SortRounds(list, less, 0, [i \in 0..0 |-> <<>>])
      BY DEF SortRounds
    <2>2. QED
      BY <2>1
  <1>2. ASSUME NEW k \in Nat, k \in T PROVE k + 1 \in T
    <2>1. PICK f : SortRounds(list, less, k, f)
      BY <1>2
    <2> DEFINE last == Inserted(f[k], list[k + 1], less)
               g == [i \in 0..(k + 1) |-> IF i = k + 1 THEN last ELSE f[i]]
    <2>2. \A i \in 0..k : f[i] = IF i = 0 THEN <<>> ELSE Inserted(f[i - 1], list[i], less)
      BY <2>1 DEF SortRounds
    <2>3. \A i \in 0..(k + 1) : g[i] = IF i = 0 THEN <<>> ELSE Inserted(g[i - 1], list[i], less)
      <3>1. \A i \in 0..(k + 1) : i # k + 1 => i \in 0..k /\ g[i] = f[i]
        OBVIOUS
      <3>2. \A i \in 0..(k + 1) : i # 0 => i - 1 \in 0..k /\ g[i - 1] = f[i - 1]
        OBVIOUS
      <3>3. g[k + 1] = last /\ (k + 1) - 1 = k /\ k + 1 # 0
        OBVIOUS
      <3> HIDE DEF g
      <3>4. QED
        BY <2>2, <3>1, <3>2, <3>3
    <2>4. SortRounds(list, less, k + 1, g)
      <3>1. g = [i \in 0..(k + 1) |-> g[i]]
        OBVIOUS
      <3> HIDE DEF g
      <3>2. QED
        BY <2>3, <3>1, Zenon DEF SortRounds
    <2>5. QED
      BY <2>4
  <1> HIDE DEF T
  <1>3. n \in T
    BY <1>1, <1>2, Induction, Zenon
  <1>4. QED
    BY <1>3 DEF T

\* The elements of q are in the order of the relation B.
Ordered(q, B) == \A k, l \in 1..Len(q) : k < l => <<q[k], q[l]>> \in B

\* q has the first n elements of list, in the order of B.
Sorts(list, n, q, B) ==
    /\ Len(q) = n /\ Ordered(q, B)
    /\ \A k \in 1..n : \E i \in 1..n : q[k] = list[i]
    /\ \A i \in 1..n : \E k \in 1..n : q[k] = list[i]

\* r is q with x before the first elements from the end that must come later.
Inserts(E, q, x, less, r) ==
    \E m \in 0..Len(q) :
        /\ m # 0 => <<x, q[m]>> \notin less
        /\ \A j \in (m + 1)..Len(q) : <<x, q[j]>> \in less
        /\ HasBehind(E, q, x, m, r)

LEMMA InsertedInserts ==
  ASSUME NEW E, NEW q \in Seq(E), NEW x \in E, NEW less
  PROVE  Inserts(E, q, x, less, Inserted(q, x, less))
  <1> DEFINE r == Inserted(q, x, less)
  <1>1. PICK m \in 0..Len(q) : /\ m # 0 => <<x, q[m]>> \notin less
                               /\ \A j \in (m + 1)..Len(q) : <<x, q[j]>> \in less
                               /\ r = InsertAt(q, m + 1, x)
    <2>1. StopsAt(q, x, less, r)
      BY InsertedIs, Zenon
    <2> HIDE DEF r
    <2>2. QED
      BY <2>1, Zenon DEF StopsAt
  <1>2. HasBehind(E, q, x, m, InsertAt(q, m + 1, x))
    BY InsertAtIs, Zenon
  <1>3. HasBehind(E, q, x, m, r)
    BY <1>1, <1>2, Zenon
  <1> HIDE DEF r
  <1>4. Inserts(E, q, x, less, r)
    BY <1>1, <1>3, Zenon DEF Inserts
  <1>5. QED
    BY <1>4 DEF r

\* An insertion keeps the order of B, if B extends less and puts x behind the
\* elements before which it need not come.
LEMMA InsertSorts ==
  ASSUME NEW E, NEW list, NEW n \in Nat, NEW q \in Seq(E), NEW less, NEW B,
         Sorts(list, n, q, B), list[n + 1] \in E,
         \A a, b, c \in E : <<a, b>> \in B /\ <<b, c>> \in B => <<a, c>> \in B,
         \A a, b \in E : <<a, b>> \in less => <<a, b>> \in B,
         \A i \in 1..n : <<list[n + 1], list[i]>> \notin less => <<list[i], list[n + 1]>> \in B
  PROVE  /\ Inserted(q, list[n + 1], less) \in Seq(E)
         /\ Sorts(list, n + 1, Inserted(q, list[n + 1], less), B)
  <1> DEFINE x == list[n + 1]
             r == Inserted(q, x, less)
  <1>1. Len(q) = n /\ \A k \in 1..n : q[k] \in E
    BY DEF Sorts
  <1>2. x \in E
    OBVIOUS
  <1> HIDE DEF x, r
  <1>3. PICK m \in 0..n :
            /\ m # 0 => <<x, q[m]>> \notin less
            /\ \A j \in (m + 1)..n : <<x, q[j]>> \in less
            /\ r \in Seq(E) /\ Len(r) = n + 1 /\ r[m + 1] = x
            /\ \A k \in 1..m : r[k] = q[k]
            /\ \A k \in (m + 2)..(n + 1) : r[k] = q[k - 1]
    <2>1. Inserts(E, q, x, less, Inserted(q, x, less))
      BY <1>2, InsertedInserts, Zenon
    <2>2. QED
      BY <1>1, <2>1, Zenon DEF Inserts, HasBehind, r
  <1> USE DEF x
  <1>4. \A k \in 1..(n + 1) : \/ k \in 1..m /\ k \in 1..n
                              \/ k = m + 1
                              \/ k \in (m + 2)..(n + 1) /\ k - 1 \in (m + 1)..n /\ k - 1 \in 1..n
    OBVIOUS
  <1>5. \A k, l \in 1..n : k < l => <<q[k], q[l]>> \in B
    BY <1>1 DEF Sorts, Ordered
  <1>6. \A k \in 1..m : <<q[k], x>> \in B
    <2>1. m # 0 => <<q[m], x>> \in B
      <3>1. SUFFICES ASSUME m # 0 PROVE <<q[m], x>> \in B
        OBVIOUS
      <3>2. m \in 1..n
        BY <3>1
      <3>3. PICK i \in 1..n : q[m] = list[i]
        BY <3>2 DEF Sorts
      <3>4. QED
        BY <1>3, <3>1, <3>3
    <2>2. ASSUME NEW k \in 1..m PROVE <<q[k], x>> \in B
      <3>1. k \in 1..n /\ m \in 1..n /\ m # 0
        OBVIOUS
      <3>2. CASE k = m
        BY <2>1, <3>1, <3>2
      <3>3. CASE k < m
        <4>1. <<q[k], q[m]>> \in B
          BY <1>5, <3>1, <3>3
        <4>2. QED
          BY <1>1, <2>1, <3>1, <4>1
      <3>4. QED
        BY <3>2, <3>3
    <2>3. QED
      BY <2>2
  <1>7. \A j \in (m + 1)..n : <<x, q[j]>> \in B
    <2>1. \A j \in (m + 1)..n : j \in 1..n
      OBVIOUS
    <2>2. QED
      BY <1>1, <1>3, <2>1
  <1>8. Ordered(r, B)
    <2>1. SUFFICES ASSUME NEW k \in 1..(n + 1), NEW l \in 1..(n + 1), k < l
                   PROVE  <<r[k], r[l]>> \in B
      BY <1>3 DEF Ordered
    <2>2. CASE l \in 1..m
      <3>1. k \in 1..m /\ k \in 1..n /\ l \in 1..n
        BY <2>1, <2>2
      <3>2. QED
        BY <1>3, <1>5, <2>1, <2>2, <3>1
    <2>3. CASE l = m + 1
      <3>1. k \in 1..m
        BY <2>1, <2>3
      <3>2. QED
        BY <1>3, <1>6, <2>3, <3>1
    <2>4. CASE l \in (m + 2)..(n + 1)
      <3>1. l - 1 \in (m + 1)..n /\ l - 1 \in 1..n /\ r[l] = q[l - 1]
        BY <1>3, <2>4
      <3>2. CASE k \in 1..m
        <4>1. k \in 1..n /\ k < l - 1 /\ r[k] = q[k]
          BY <1>3, <2>4, <3>2
        <4>2. QED
          BY <1>5, <3>1, <4>1
      <3>3. CASE k = m + 1
        BY <1>3, <1>7, <3>1, <3>3
      <3>4. CASE k \in (m + 2)..(n + 1)
        <4>1. k - 1 \in 1..n /\ k - 1 < l - 1 /\ r[k] = q[k - 1]
          BY <1>3, <2>1, <3>4
        <4>2. QED
          BY <1>5, <3>1, <4>1
      <3>5. QED
        BY <1>4, <3>2, <3>3, <3>4
    <2>5. QED
      BY <1>4, <2>2, <2>3, <2>4
  <1>9. ASSUME NEW k \in 1..(n + 1) PROVE \E i \in 1..(n + 1) : r[k] = list[i]
    <2>1. \A j \in 1..n : \E i \in 1..(n + 1) : q[j] = list[i]
      <3>1. \A i \in 1..n : i \in 1..(n + 1)
        OBVIOUS
      <3>2. QED
        BY <3>1 DEF Sorts
    <2>2. n + 1 \in 1..(n + 1)
      OBVIOUS
    <2>3. (\E j \in 1..n : r[k] = q[j]) \/ r[k] = x
      BY <1>3, <1>4
    <2>4. QED
      BY <2>1, <2>2, <2>3
  <1>10. ASSUME NEW i \in 1..(n + 1) PROVE \E k \in 1..(n + 1) : r[k] = list[i]
    <2>1. \A j \in 1..n : \E k \in 1..(n + 1) : r[k] = q[j]
      <3>1. ASSUME NEW j \in 1..n, j <= m PROVE \E k \in 1..(n + 1) : r[k] = q[j]
        <4>1. j \in 1..m /\ j \in 1..(n + 1)
          BY <3>1
        <4>2. QED
          BY <1>3, <4>1
      <3>2. ASSUME NEW j \in 1..n, ~ (j <= m) PROVE \E k \in 1..(n + 1) : r[k] = q[j]
        <4>1. j + 1 \in (m + 2)..(n + 1) /\ j + 1 \in 1..(n + 1) /\ (j + 1) - 1 = j
          BY <3>2
        <4>2. r[j + 1] = q[j]
          BY <1>3, <4>1
        <4>3. QED
          BY <4>1, <4>2
      <3>3. QED
        BY <3>1, <3>2
    <2>2. CASE i \in 1..n
      <3>1. PICK j \in 1..n : q[j] = list[i]
        BY <2>2 DEF Sorts
      <3>2. QED
        BY <2>1, <3>1
    <2>3. CASE i = n + 1
      <3>1. m + 1 \in 1..(n + 1) /\ r[m + 1] = list[i]
        BY <1>3, <2>3
      <3>2. QED
        BY <3>1
    <2>4. QED
      BY <2>2, <2>3
  <1>11. QED
    BY <1>3, <1>8, <1>9, <1>10 DEF Sorts, r

\* SliceStable returns the elements of the list in the order of B, for every
\* transitive relation B that extends less and keeps the order in which elements
\* are given unless less says otherwise.
LEMMA SliceStableIs ==
  ASSUME NEW E, NEW list \in Seq(E), NEW less, NEW B,
         \A a, b, c \in E : <<a, b>> \in B /\ <<b, c>> \in B => <<a, c>> \in B,
         \A a, b \in E : <<a, b>> \in less => <<a, b>> \in B,
         \A i, j \in 1..Len(list) : i < j /\ <<list[j], list[i]>> \notin less
                                        => <<list[i], list[j]>> \in B
  PROVE  SliceStable(list, less) \in Seq(E) /\ Sorts(list, Len(list), SliceStable(list, less), B)
  <1> DEFINE n == Len(list)
  <1>1. n \in Nat /\ \A i \in 1..n : list[i] \in E
    OBVIOUS
  <1>2. PICK f : SortRounds(list, less, n, f) /\ SliceStable(list, less) = f[n]
    <2>1. \E f : SortRounds(list, less, n, f)
      BY <1>1, SortDefined, Zenon
    <2>2. QED
      BY <2>1, Zenon DEF SortRounds, SliceStable
  <1>3. f[0] = <<>> /\ \A i \in 1..n : f[i] = Inserted(f[i - 1], list[i], less)
    <2> DEFINE body(i) == IF i = 0 THEN <<>> ELSE Inserted(f[i - 1], list[i], less)
    <2>1. f = [i \in 0..n |-> body(i)]
      BY <1>2, Zenon DEF SortRounds
    <2> HIDE DEF n
    <2>2. \A i \in 0..n : f[i] = body(i)
      BY <2>1, Zenon
    <2>3. 0 \in 0..n /\ \A i \in 1..n : i \in 0..n /\ i # 0
      BY <1>1
    <2>4. QED
      BY <2>2, <2>3, Zenon
  <1> DEFINE T == {k \in Nat : k <= n => f[k] \in Seq(E) /\ Sorts(list, k, f[k], B)}
  <1>4. 0 \in T
    <2>1. <<>> \in Seq(E) /\ Sorts(list, 0, <<>>, B)
      BY DEF Sorts, Ordered
    <2>2. QED
      BY <1>3, <2>1
  <1>5. ASSUME NEW k \in Nat, k \in T PROVE k + 1 \in T
    <2>1. SUFFICES ASSUME k + 1 <= n
                   PROVE  f[k + 1] \in Seq(E) /\ Sorts(list, k + 1, f[k + 1], B)
      OBVIOUS
    <2>2. f[k] \in Seq(E) /\ Sorts(list, k, f[k], B)
      BY <1>1, <1>5, <2>1
    <2>3. f[k + 1] = Inserted(f[k], list[k + 1], less)
      <3>1. k + 1 \in 1..n /\ (k + 1) - 1 = k
        BY <1>1, <2>1
      <3> HIDE DEF n
      <3>2. QED
        BY <1>3, <3>1
    <2>4. list[k + 1] \in E
      BY <1>1, <2>1
    <2>5. \A i \in 1..k : <<list[k + 1], list[i]>> \notin less => <<list[i], list[k + 1]>> \in B
      BY <1>1, <2>1
    <2>6. QED
      BY <2>2, <2>3, <2>4, <2>5, InsertSorts, Zenon
  <1> HIDE DEF T, n
  <1>6. n \in T
    BY <1>1, <1>4, <1>5, Induction, Zenon
  <1>7. QED
    BY <1>1, <1>2, <1>6 DEF T, n

-----------------------------------------------------------------------------
(* Ranked                                                                  *)

\* A list of the elements of S without repetitions has as many elements as S.
LEMMA ListCardinality ==
  ASSUME NEW n \in Nat, NEW q, NEW S,
         \A k, l \in 1..n : q[k] = q[l] => k = l,
         \A k \in 1..n : q[k] \in S,
         \A y \in S : \E k \in 1..n : q[k] = y
  PROVE  IsFiniteSet(S) /\ Cardinality(S) = n
  <1> DEFINE f == [k \in 1..n |-> q[k]]
  <1>1. f \in Bijection(1..n, S)
    <2>1. f \in [1..n -> S] /\ \A k \in 1..n : f[k] = q[k]
      OBVIOUS
    <2>2. \A k, l \in 1..n : f[k] = f[l] => k = l
      BY <2>1
    <2>3. \A y \in S : \E k \in 1..n : f[k] = y
      BY <2>1
    <2> HIDE DEF f
    <2>4. QED
      BY <2>1, <2>2, <2>3, Zenon DEF Bijection, Injection, Surjection, IsInjective
  <1>2. ExistsBijection(1..n, S)
    BY <1>1, Zenon DEF ExistsBijection
  <1>3. IsFiniteSet(1..n) /\ Cardinality(1..n) = n
    BY FS_Interval
  <1>4. QED
    BY <1>2, <1>3, FS_Bijection

\* A list of the elements of S in the order of an asymmetric relation is Ranked.
LEMMA RankedIs ==
  ASSUME NEW S, NEW B, NEW q \in Seq(S), Ordered(q, B),
         \A x \in S : \E k \in 1..Len(q) : q[k] = x,
         \A a, b \in S : <<a, b>> \in B => <<b, a>> \notin B
  PROVE  Ranked(S, B) = q
  <1> DEFINE n == Len(q)
             below(x) == {y \in S : <<y, x>> \in B}
  <1>1. n \in Nat /\ \A k \in 1..n : q[k] \in S
    OBVIOUS
  <1>2. \A k, l \in 1..n : k < l => <<q[k], q[l]>> \in B /\ <<q[l], q[k]>> \notin B
    BY <1>1 DEF Ordered
  <1>3. \A k \in 1..n : <<q[k], q[k]>> \notin B
    BY <1>1
  <1>4. ASSUME NEW k \in 1..n, NEW l \in 1..n, q[k] = q[l] PROVE k = l
    <2>1. ~ (k < l) /\ ~ (l < k)
      BY <1>2, <1>3, <1>4
    <2>2. QED
      BY <2>1
  <1>5. S = {q[k] : k \in 1..n}
    BY <1>1
  <1> HIDE DEF n
  <1>6. Cardinality(S) = n
    <2>1. \A k, l \in 1..n : q[k] = q[l] => k = l
      BY <1>4
    <2>2. \A y \in S : \E k \in 1..n : q[k] = y
      BY <1>5
    <2>3. QED
      BY <1>1, <2>1, <2>2, ListCardinality, Zenon
  <1>7. ASSUME NEW i \in 1..n PROVE Cardinality(below(q[i])) = i - 1
    <2>1. below(q[i]) = {q[k] : k \in 1..(i - 1)}
      <3>1. ASSUME NEW k \in 1..(i - 1) PROVE q[k] \in below(q[i])
        <4>1. k \in 1..n /\ k < i
          BY <1>1
        <4>2. QED
          BY <1>1, <1>2, <4>1
      <3>2. ASSUME NEW y \in below(q[i]) PROVE y \in {q[k] : k \in 1..(i - 1)}
        <4>1. PICK k \in 1..n : q[k] = y
          BY <1>5
        <4>2. ~ (i < k) /\ k # i
          BY <1>2, <1>3, <4>1
        <4>3. k \in 1..(i - 1)
          BY <1>1, <4>2
        <4>4. QED
          BY <4>1, <4>3
      <3>3. QED
        <4> HIDE DEF below
        <4>1. QED
          BY <3>1, <3>2, Zenon
    <2>2. i - 1 \in Nat /\ \A k, l \in 1..(i - 1) : q[k] = q[l] => k = l
      BY <1>1, <1>4
    <2> HIDE DEF below
    <2>3. /\ \A k \in 1..(i - 1) : q[k] \in below(q[i])
          /\ \A y \in below(q[i]) : \E k \in 1..(i - 1) : q[k] = y
      BY <2>1
    <2>4. QED
      BY <2>2, <2>3, ListCardinality
  <1>8. ASSUME NEW i \in 1..n
        PROVE  (CHOOSE x \in S : Cardinality(below(x)) = i - 1) = q[i]
    <2>1. q[i] \in S /\ Cardinality(below(q[i])) = i - 1
      BY <1>1, <1>7
    <2>2. ASSUME NEW x \in S, Cardinality(below(x)) = i - 1 PROVE x = q[i]
      <3>1. PICK k \in 1..n : q[k] = x
        BY <1>5
      <3>2. Cardinality(below(q[k])) = k - 1
        BY <1>7
      <3>3. k = i
        BY <2>2, <3>1, <3>2
      <3>4. QED
        BY <3>1, <3>3
    <2> HIDE DEF below
    <2>3. QED
      BY <2>1, <2>2, Zenon
  <1>9. Ranked(S, B) = [i \in 1..n |-> q[i]]
    BY <1>6, <1>8, Zenon DEF Ranked
  <1>10. QED
    BY <1>9 DEF n


\* L is an order of S in which distinct elements may tie.
IsWeakOrder(S, L) ==
    /\ \A a, b \in S : <<a, b>> \in L => <<b, a>> \notin L
    /\ \A a, b, c \in S : <<a, b>> \in L => <<a, c>> \in L \/ <<c, b>> \in L

\* The order of L, ties by their places.
TiesBy(S, L, place) ==
    {p \in S \X S : \/ <<p[1], p[2]>> \in L
                    \/ <<p[2], p[1]>> \notin L /\ place[p[1]] < place[p[2]]}

LEMMA TiesByIs ==
  ASSUME NEW S, NEW L, NEW place \in [S -> Int], IsWeakOrder(S, L)
  PROVE  /\ \A a, b, c \in S : /\ <<a, b>> \in TiesBy(S, L, place)
                               /\ <<b, c>> \in TiesBy(S, L, place)
                               => <<a, c>> \in TiesBy(S, L, place)
         /\ \A a, b \in S : <<a, b>> \in TiesBy(S, L, place) => <<b, a>> \notin TiesBy(S, L, place)
         /\ \A a, b \in S : <<a, b>> \in L => <<a, b>> \in TiesBy(S, L, place)
  <1>1. \A a, b \in S : <<a, b>> \in TiesBy(S, L, place) <=>
            <<a, b>> \in L \/ (<<b, a>> \notin L /\ place[a] < place[b])
    BY DEF TiesBy
  <1>2. \A a \in S : place[a] \in Int
    OBVIOUS
  <1>3. ASSUME NEW a \in S, NEW b \in S, NEW c \in S,
               <<a, b>> \in TiesBy(S, L, place), <<b, c>> \in TiesBy(S, L, place)
        PROVE  <<a, c>> \in TiesBy(S, L, place)
    <2>1. CASE <<a, b>> \in L
      <3>1. <<a, c>> \in L \/ <<c, b>> \in L
        BY <2>1 DEF IsWeakOrder
      <3>2. <<c, b>> \notin L
        BY <1>1, <1>3 DEF IsWeakOrder
      <3>3. QED
        BY <1>1, <3>1, <3>2
    <2>2. CASE <<a, b>> \notin L
      <3>1. <<b, a>> \notin L /\ place[a] < place[b]
        BY <1>1, <1>3, <2>2
      <3>2. CASE <<b, c>> \in L
        <4>1. <<b, a>> \in L \/ <<a, c>> \in L
          BY <3>2 DEF IsWeakOrder
        <4>2. QED
          BY <1>1, <3>1, <4>1
      <3>3. CASE <<b, c>> \notin L
        <4>1. <<c, b>> \notin L /\ place[b] < place[c]
          BY <1>1, <1>3, <3>3
        <4>2. <<c, a>> \notin L
          BY <3>1, <4>1 DEF IsWeakOrder
        <4>3. place[a] < place[c]
          BY <1>2, <3>1, <4>1
        <4>4. QED
          BY <1>1, <4>2, <4>3
      <3>4. QED
        BY <3>2, <3>3
    <2>3. QED
      BY <2>1, <2>2
  <1>4. ASSUME NEW a \in S, NEW b \in S, <<a, b>> \in TiesBy(S, L, place)
        PROVE  <<b, a>> \notin TiesBy(S, L, place)
    <2>1. CASE <<a, b>> \in L
      BY <1>1, <2>1 DEF IsWeakOrder
    <2>2. CASE <<a, b>> \notin L
      BY <1>1, <1>2, <1>4, <2>2
    <2>3. QED
      BY <2>1, <2>2
  <1>5. QED
    BY <1>1, <1>3, <1>4

\* A stable sort of a list of the elements of S, in the order of their places
\* where they tie, is the ranking of S.
LEMMA StableRanks ==
  ASSUME NEW S, NEW L, NEW place \in [S -> Int], IsWeakOrder(S, L),
         NEW list \in Seq(S), \A x \in S : \E i \in 1..Len(list) : list[i] = x,
         \A i, j \in 1..Len(list) : i < j => \/ <<list[i], list[j]>> \in L
                                             \/ <<list[j], list[i]>> \in L
                                             \/ place[list[i]] < place[list[j]]
  PROVE  SliceStable(list, L) \in Seq(S) /\ SliceStable(list, L) = Ranked(S, TiesBy(S, L, place))
  <1> DEFINE B == TiesBy(S, L, place)
             q == SliceStable(list, L)
             n == Len(list)
  <1>1. n \in Nat /\ \A i \in 1..n : list[i] \in S
    OBVIOUS
  <1>2. \A i, j \in 1..n : i < j /\ <<list[j], list[i]>> \notin L => <<list[i], list[j]>> \in B
    BY <1>1 DEF TiesBy
  <1>3. /\ \A a, b, c \in S : <<a, b>> \in B /\ <<b, c>> \in B => <<a, c>> \in B
        /\ \A a, b \in S : <<a, b>> \in B => <<b, a>> \notin B
        /\ \A a, b \in S : <<a, b>> \in L => <<a, b>> \in B
    BY TiesByIs, Zenon
  <1> HIDE DEF B
  <1>4. q \in Seq(S) /\ Sorts(list, n, q, B)
    BY <1>2, <1>3, SliceStableIs, Zenon
  <1> HIDE DEF q
  <1>5. Ordered(q, B) /\ \A x \in S : \E k \in 1..Len(q) : q[k] = x
    BY <1>4, Zenon DEF Sorts
  <1>6. Ranked(S, B) = q
    BY <1>3, <1>4, <1>5, RankedIs, Zenon
  <1>7. QED
    BY <1>4, <1>6 DEF B, q


-----------------------------------------------------------------------------
(* Enumerations                                                            *)

\* o lists the elements of S, each once.
Enumerates(o, S) ==
    /\ o \in Seq(S)
    /\ \A k, l \in 1..Len(o) : o[k] = o[l] => k = l
    /\ \A x \in S : \E k \in 1..Len(o) : o[k] = x

LEMMA EnumerationCardinality ==
  ASSUME NEW S, NEW o, Enumerates(o, S)
  PROVE  IsFiniteSet(S) /\ Cardinality(S) = Len(o)
  <1>1. Len(o) \in Nat /\ o \in [1..Len(o) -> S]
    BY DEF Enumerates
  <1>2. QED
    BY <1>1, ListCardinality DEF Enumerates

\* A list of the elements of S that is as long as another that repeats none does
\* not repeat one either.
LEMMA SameLengthEnumerates ==
  ASSUME NEW S, NEW o, Enumerates(o, S), NEW p \in Seq(S), Len(p) = Len(o),
         \A x \in S : \E k \in 1..Len(p) : p[k] = x
  PROVE  Enumerates(p, S)
  <1> DEFINE n == Len(o)
             f == [k \in 1..n |-> p[k]]
  <1>1. /\ n \in Nat /\ \A k \in 1..n : o[k] \in S /\ p[k] \in S
        /\ Len(p) = n /\ \A x \in S : \E k \in 1..n : p[k] = x
    <2>1. o \in Seq(S)
      BY Zenon DEF Enumerates
    <2>2. n \in Nat /\ Len(p) = n /\ \A k \in 1..n : o[k] \in S
      BY <2>1
    <2> HIDE DEF n
    <2>3. \A k \in 1..n : p[k] \in S
      BY <2>2
    <2>4. \A x \in S : \E k \in 1..n : p[k] = x
      BY <2>2
    <2>5. QED
      BY <2>2, <2>3, <2>4
  <1>2. IsFiniteSet(S) /\ Cardinality(S) = n
    BY EnumerationCardinality, Zenon
  <1> HIDE DEF n
  <1>3. f \in [1..n -> S] /\ (\A k \in 1..n : f[k] = p[k]) /\ DOMAIN f = 1..n
    BY <1>1
  <1> HIDE DEF f
  <1>4. f \in Surjection(1..n, S)
    BY <1>1, <1>3 DEF Surjection
  <1>5. IsFiniteSet(1..n) /\ Cardinality(1..n) = n
    BY <1>1, FS_Interval
  <1>6. f \in Injection(1..n, S)
    BY <1>2, <1>4, <1>5, FS_SurjSameCardinalityImpliesInj
  <1>7. \A k, l \in 1..n : f[k] = f[l] => k = l
    BY <1>3, <1>6, Zenon DEF Injection, IsInjective
  <1>8. \A k, l \in 1..Len(p) : p[k] = p[l] => k = l
    BY <1>1, <1>3, <1>7
  <1>9. QED
    BY <1>8, Zenon DEF Enumerates

\* What SetToSeqs gives for the elements of a list are the lists of them.
LEMMA SetToSeqsEnumerates ==
  ASSUME NEW S, NEW o, Enumerates(o, S)
  PROVE  o \in SetToSeqs(S) /\ \A p \in SetToSeqs(S) : Enumerates(p, S)
  <1> DEFINE n == Len(o)
  <1>1. n \in Nat /\ o \in [1..n -> S] /\ \A k, l \in 1..n : k # l => o[k] # o[l]
    BY DEF Enumerates
  <1>2. IsFiniteSet(S) /\ Cardinality(S) = n
    BY EnumerationCardinality, Zenon
  <1> HIDE DEF n
  <1>3. SetToSeqs(S) = {f \in [1..n -> S] : \A k, l \in 1..n : k # l => f[k] # f[l]}
    BY <1>2 DEF SetToSeqs
  <1>4. ASSUME NEW p \in SetToSeqs(S) PROVE Enumerates(p, S)
    <2>1. p \in [1..n -> S] /\ \A k, l \in 1..n : p[k] = p[l] => k = l
      BY <1>3
    <2>2. p \in Seq(S) /\ Len(p) = n
      BY <1>1, <2>1
    <2>3. p \in Injection(1..n, S)
      BY <2>1, Zenon DEF Injection, IsInjective
    <2>4. IsFiniteSet(1..n) /\ Cardinality(1..n) = n
      BY <1>1, FS_Interval
    <2>5. p \in Surjection(1..n, S)
      BY <1>2, <2>3, <2>4, FS_Injection
    <2>6. \A x \in S : \E k \in 1..n : p[k] = x
      BY <2>5, Zenon DEF Surjection
    <2>7. QED
      BY <2>1, <2>2, <2>6 DEF Enumerates
  <1>5. QED
    BY <1>1, <1>3, <1>4

\* The sort of an enumeration is one.
LEMMA SliceStableEnumerates ==
  ASSUME NEW S, NEW o, Enumerates(o, S), NEW less
  PROVE  Enumerates(SliceStable(o, less), S)
  <1> DEFINE B == {p \in S \X S : TRUE} \cup less
             q == SliceStable(o, less)
  <1>1. o \in Seq(S) /\ Len(o) \in Nat /\ \A i \in 1..Len(o) : o[i] \in S
    BY DEF Enumerates
  <1>2. \A a, b \in S : <<a, b>> \in B
    OBVIOUS
  <1> HIDE DEF B
  <1>3. q \in Seq(S) /\ Sorts(o, Len(o), q, B)
    <2>1. /\ \A a, b, c \in S : <<a, b>> \in B /\ <<b, c>> \in B => <<a, c>> \in B
          /\ \A a, b \in S : <<a, b>> \in less => <<a, b>> \in B
          /\ \A i, j \in 1..Len(o) : i < j /\ <<o[j], o[i]>> \notin less => <<o[i], o[j]>> \in B
      BY <1>1, <1>2
    <2>2. QED
      BY <1>1, <2>1, SliceStableIs, Zenon
  <1> HIDE DEF q
  <1>4. Len(q) = Len(o) /\ \A x \in S : \E k \in 1..Len(q) : q[k] = x
    <2>1. Len(q) = Len(o) /\ \A i \in 1..Len(o) : \E k \in 1..Len(o) : q[k] = o[i]
      BY <1>3, Zenon DEF Sorts
    <2>2. \A x \in S : \E i \in 1..Len(o) : o[i] = x
      BY Zenon DEF Enumerates
    <2>3. QED
      BY <2>1, <2>2
  <1>5. Enumerates(q, S)
    BY <1>3, <1>4, SameLengthEnumerates, Zenon
  <1>6. QED
    BY <1>5 DEF q

\* The loop of Kept over an enumeration lists the elements it looks for, in order.
LEMMA KeptEnumerates ==
  ASSUME NEW S, NEW o, Enumerates(o, S), NEW R \in SUBSET S
  PROVE  /\ Enumerates(Kept(o, R), R)
         /\ \A i, j \in 1..Len(o), k, l \in 1..Len(Kept(o, R)) :
                k < l /\ Kept(o, R)[k] = o[i] /\ Kept(o, R)[l] = o[j] => i < j
  <1> DEFINE q == Kept(o, R)
             n == Len(o)
  <1>1. o \in Seq(S) /\ n \in Nat /\ (\A k, l \in 1..n : o[k] = o[l] => k = l)
        /\ \A x \in S : \E k \in 1..n : o[k] = x
    BY DEF Enumerates
  <1>2. q \in Seq(S) /\ \E h \in Seq(Nat) : Picks(o, R, n, q, h)
    BY <1>1, KeptIs, Zenon
  <1> HIDE DEF q
  <1>3. PICK h \in Seq(Nat) : Picks(o, R, n, q, h)
    BY <1>2
  <1>4. /\ \A k \in 1..Len(q) : h[k] \in 1..n /\ q[k] = o[h[k]] /\ q[k] \in R
        /\ \A k, l \in 1..Len(q) : k < l => h[k] < h[l]
        /\ \A i \in 1..n : o[i] \in R => \E k \in 1..Len(q) : h[k] = i
    BY <1>3, Zenon DEF Picks
  <1> HIDE DEF n
  <1>5. q \in Seq(R)
    <2>1. Len(q) \in Nat /\ q = [k \in 1..Len(q) |-> q[k]]
      BY <1>2
    <2>2. QED
      BY <1>4, <2>1
  <1>6. ASSUME NEW i \in 1..n, NEW j \in 1..n, NEW k \in 1..Len(q), NEW l \in 1..Len(q),
               k < l, q[k] = o[i], q[l] = o[j]
        PROVE  i < j
    <2>1. /\ h[k] \in 1..n /\ o[h[k]] = o[i]
          /\ h[l] \in 1..n /\ o[h[l]] = o[j]
      BY <1>4, <1>6
    <2>2. h[k] = i /\ h[l] = j
      BY <1>1, <2>1, Zenon
    <2>3. QED
      BY <1>4, <1>6, <2>2, Zenon
  <1>7. ASSUME NEW k \in 1..Len(q), NEW l \in 1..Len(q), q[k] = q[l] PROVE k = l
    <2>1. h[k] \in 1..n /\ h[l] \in 1..n /\ o[h[k]] = o[h[l]]
      BY <1>4, <1>7
    <2>2. h[k] = h[l]
      BY <1>1, <2>1, Zenon
    <2>3. ~ (k < l) /\ ~ (l < k)
      BY <1>4, <2>1, <2>2
    <2>4. k \in Int /\ l \in Int
      BY <1>2
    <2>5. QED
      BY <2>3, <2>4
  <1>8. ASSUME NEW x \in R PROVE \E k \in 1..Len(q) : q[k] = x
    <2>1. PICK i \in 1..n : o[i] = x
      BY <1>1
    <2>2. QED
      BY <1>4, <2>1
  <1>9. Enumerates(q, R)
    BY <1>5, <1>7, <1>8 DEF Enumerates
  <1>10. QED
    BY <1>6, <1>9 DEF q, n


-----------------------------------------------------------------------------
(* Sums                                                                    *)

\* Total without rounding.
ExactTotal(list) ==
    LET total[i \in 0..Len(list)] == IF i = 0 THEN 0 ELSE total[i - 1] + list[i]
    IN  total[Len(list)]

\* The values of its loop up to the n-th round.
TotalRounds(list, n, f) ==
    f = [i \in 0..n |-> IF i = 0 THEN 0 ELSE f[i - 1] + list[i]]

LEMMA TotalDefined ==
  ASSUME NEW list, NEW n \in Nat
  PROVE  \E f : TotalRounds(list, n, f)
  <1> DEFINE T == {k \in Nat : \E f : TotalRounds(list, k, f)}
  <1>1. 0 \in T
    <2>1. TotalRounds(list, 0, [i \in 0..0 |-> 0])
      BY DEF TotalRounds
    <2>2. QED
      BY <2>1
  <1>2. ASSUME NEW k \in Nat, k \in T PROVE k + 1 \in T
    <2>1. PICK f : TotalRounds(list, k, f)
      BY <1>2
    <2> DEFINE last == f[k] + list[k + 1]
               g == [i \in 0..(k + 1) |-> IF i = k + 1 THEN last ELSE f[i]]
    <2>2. \A i \in 0..k : f[i] = IF i = 0 THEN 0 ELSE f[i - 1] + list[i]
      BY <2>1 DEF TotalRounds
    <2>3. \A i \in 0..(k + 1) : g[i] = IF i = 0 THEN 0 ELSE g[i - 1] + list[i]
      <3>1. \A i \in 0..(k + 1) : i # k + 1 => i \in 0..k /\ g[i] = f[i]
        OBVIOUS
      <3>2. \A i \in 0..(k + 1) : i # 0 => i - 1 \in 0..k /\ g[i - 1] = f[i - 1]
        OBVIOUS
      <3>3. g[k + 1] = last /\ (k + 1) - 1 = k /\ k + 1 # 0
        OBVIOUS
      <3> HIDE DEF g
      <3>4. QED
        BY <2>2, <3>1, <3>2, <3>3
    <2>4. TotalRounds(list, k + 1, g)
      <3>1. g = [i \in 0..(k + 1) |-> g[i]]
        OBVIOUS
      <3> HIDE DEF g
      <3>2. QED
        BY <2>3, <3>1, Zenon DEF TotalRounds
    <2>5. QED
      BY <2>4
  <1> HIDE DEF T
  <1>3. n \in T
    BY <1>1, <1>2, Induction, Zenon
  <1>4. QED
    BY <1>3 DEF T

\* t holds the sums of the first elements of list.
PartialSums(list, n, t) ==
    /\ t[0] = 0 /\ \A i \in 0..n : t[i] \in Int
    /\ \A i \in 1..n : t[i] = t[i - 1] + list[i]

LEMMA TotalIs ==
  ASSUME NEW n \in Nat, NEW list, Len(list) = n, \A i \in 1..n : list[i] \in Int
  PROVE  \E t : PartialSums(list, n, t) /\ ExactTotal(list) = t[n]
  <1>1. PICK t : TotalRounds(list, n, t) /\ ExactTotal(list) = t[n]
    <2>1. \E t : TotalRounds(list, n, t)
      BY TotalDefined, Zenon
    <2>2. QED
      BY <2>1, Zenon DEF TotalRounds, ExactTotal
  <1>2. t[0] = 0 /\ \A i \in 1..n : t[i] = t[i - 1] + list[i]
    <2>1. \A i \in 0..n : t[i] = IF i = 0 THEN 0 ELSE t[i - 1] + list[i]
      BY <1>1, Zenon DEF TotalRounds
    <2>2. QED
      BY <2>1
  <1> DEFINE T == {i \in Nat : i <= n => t[i] \in Int}
  <1>3. 0 \in T
    BY <1>2
  <1>4. ASSUME NEW i \in Nat, i \in T PROVE i + 1 \in T
    <2>1. SUFFICES ASSUME i + 1 <= n PROVE t[i + 1] \in Int
      OBVIOUS
    <2>2. i + 1 \in 1..n /\ (i + 1) - 1 = i /\ t[i] \in Int
      BY <1>4, <2>1
    <2>3. t[i + 1] = t[i] + list[i + 1]
      BY <1>2, <2>2
    <2>4. QED
      BY <2>2, <2>3
  <1> HIDE DEF T
  <1>5. \A i \in Nat : i \in T
    BY <1>3, <1>4, Induction, Zenon
  <1>6. \A i \in 0..n : t[i] \in Int
    BY <1>5 DEF T
  <1>7. PartialSums(list, n, t)
    BY <1>2, <1>6, Zenon DEF PartialSums
  <1>8. QED
    BY <1>1, <1>7, Zenon

LEMMA TotalZero ==
  ASSUME NEW n \in Nat, NEW list, Len(list) = n, \A i \in 1..n : list[i] = 0
  PROVE  ExactTotal(list) = 0
  <1>1. \A i \in 1..n : list[i] \in Int
    OBVIOUS
  <1>2. PICK t : PartialSums(list, n, t) /\ ExactTotal(list) = t[n]
    BY <1>1, TotalIs, Zenon
  <1> DEFINE T == {i \in Nat : i <= n => t[i] = 0}
  <1>3. 0 \in T
    BY <1>2 DEF PartialSums
  <1>4. ASSUME NEW i \in Nat, i \in T PROVE i + 1 \in T
    <2>1. SUFFICES ASSUME i + 1 <= n PROVE t[i + 1] = 0
      OBVIOUS
    <2>2. i + 1 \in 1..n /\ (i + 1) - 1 = i /\ t[i] = 0
      BY <1>4, <2>1
    <2>3. t[i + 1] = t[i] + list[i + 1]
      BY <1>2, <2>2 DEF PartialSums
    <2>4. QED
      BY <2>2, <2>3
  <1> HIDE DEF T
  <1>5. \A i \in Nat : i \in T
    BY <1>3, <1>4, Induction, Zenon
  <1>6. t[n] = 0
    BY <1>5 DEF T
  <1>7. QED
    BY <1>2, <1>6

\* Lists of n integers that differ in their j-th elements only, and by d.
DifferAt(a, b, n, j, d) ==
    /\ n \in Nat /\ Len(a) = n /\ Len(b) = n /\ j \in 1..n /\ d \in Int /\ a[j] = d + b[j]
    /\ \A i \in 1..n : a[i] \in Int /\ b[i] \in Int
    /\ \A i \in 1..n : i # j => a[i] = b[i]

LEMMA TotalChanges ==
  ASSUME NEW a, NEW b, NEW n, NEW j, NEW d, DifferAt(a, b, n, j, d)
  PROVE  ExactTotal(a) = d + ExactTotal(b)
  <1> USE DEF DifferAt
  <1>1. PICK t : PartialSums(a, n, t) /\ ExactTotal(a) = t[n]
    BY TotalIs, Zenon
  <1>2. PICK u : PartialSums(b, n, u) /\ ExactTotal(b) = u[n]
    BY TotalIs, Zenon
  <1>3. /\ t[0] = 0 /\ u[0] = 0 /\ \A i \in 0..n : t[i] \in Int /\ u[i] \in Int
        /\ \A i \in 1..n : t[i] = t[i - 1] + a[i] /\ u[i] = u[i - 1] + b[i]
    BY <1>1, <1>2 DEF PartialSums
  <1> DEFINE T == {i \in Nat : i <= n => t[i] = IF j <= i THEN d + u[i] ELSE u[i]}
  <1>4. 0 \in T
    BY <1>3
  <1>5. ASSUME NEW i \in Nat, i \in T PROVE i + 1 \in T
    <2>1. SUFFICES ASSUME i + 1 <= n PROVE t[i + 1] = IF j <= i + 1 THEN d + u[i + 1] ELSE u[i + 1]
      OBVIOUS
    <2>2. /\ i + 1 \in 1..n /\ (i + 1) - 1 = i /\ i \in 0..n
          /\ t[i] = IF j <= i THEN d + u[i] ELSE u[i]
      BY <1>5, <2>1
    <2>3. /\ t[i + 1] = t[i] + a[i + 1] /\ u[i + 1] = u[i] + b[i + 1]
          /\ t[i] \in Int /\ u[i] \in Int /\ a[i + 1] \in Int /\ b[i + 1] \in Int
      BY <1>3, <2>2
    <2>4. CASE i + 1 = j
      <3>1. a[i + 1] = d + b[i + 1] /\ ~ (j <= i) /\ j <= i + 1
        BY <2>4
      <3>2. t[i] = u[i]
        BY <2>2, <3>1
      <3>3. QED
        BY <2>3, <3>1, <3>2
    <2>5. CASE i + 1 # j
      <3>1. a[i + 1] = b[i + 1] /\ (j <= i <=> j <= i + 1)
        BY <2>2, <2>5
      <3>2. QED
        BY <2>2, <2>3, <3>1
    <2>6. QED
      BY <2>4, <2>5
  <1> HIDE DEF T
  <1>6. \A i \in Nat : i \in T
    BY <1>4, <1>5, Induction, Zenon
  <1>7. t[n] = d + u[n]
    BY <1>6 DEF T
  <1>8. QED
    BY <1>1, <1>2, <1>7

\* g adds up f over the subsets of S, one element after another.
SumsOver(f, S, g) ==
    g = [s \in SUBSET S |-> IF s = {} THEN 0
                            ELSE LET x == CHOOSE x \in s : TRUE IN f[x] + g[s \ {x}]]

\* There is one such g.
LEMMA SumsUnique ==
  ASSUME NEW S, IsFiniteSet(S), NEW f, NEW g, NEW h, SumsOver(f, S, g), SumsOver(f, S, h)
  PROVE  g[S] = h[S]
  <1>1. \A s \in SUBSET S : s # {} => /\ g[s] = f[CHOOSE x \in s : TRUE] + g[s \ {CHOOSE x \in s : TRUE}]
                                     /\ h[s] = f[CHOOSE x \in s : TRUE] + h[s \ {CHOOSE x \in s : TRUE}]
    <2>1. \A s \in SUBSET S : s # {} => g[s] = f[CHOOSE x \in s : TRUE] + g[s \ {CHOOSE x \in s : TRUE}]
      BY Zenon DEF SumsOver
    <2>2. \A s \in SUBSET S : s # {} => h[s] = f[CHOOSE x \in s : TRUE] + h[s \ {CHOOSE x \in s : TRUE}]
      BY Zenon DEF SumsOver
    <2>3. QED
      BY <2>1, <2>2, Zenon
  <1>2. g[{}] = 0 /\ h[{}] = 0
    BY Zenon DEF SumsOver
  <1> DEFINE D == {Cardinality(s) : s \in {r \in SUBSET S : g[r] # h[r]}}
  <1>3. SUFFICES ASSUME g[S] # h[S] PROVE FALSE
    OBVIOUS
  <1>4. D \in SUBSET Nat /\ D # {}
    <2>1. \A s \in SUBSET S : Cardinality(s) \in Nat
      BY FS_Subset, FS_CardinalityType
    <2>2. QED
      BY <1>3, <2>1
  <1>5. PICK m \in D : \A k \in D : m <= k
    <2> HIDE DEF D
    <2>1. QED
      BY <1>4, LeastNatural, Zenon
  <1>6. PICK s \in SUBSET S : Cardinality(s) = m /\ g[s] # h[s]
    BY <1>5
  <1> DEFINE c == CHOOSE x \in s : TRUE
             r == s \ {c}
  <1>7. s # {} /\ c \in s
    BY <1>2, <1>6
  <1>8. IsFiniteSet(s) /\ m \in Nat
    BY <1>6, FS_Subset, FS_CardinalityType
  <1>9. r \in SUBSET S /\ Cardinality(r) = m - 1
    BY <1>6, <1>7, <1>8, FS_RemoveElement
  <1>10. g[r] = h[r]
    <2>1. g[r] # h[r] => Cardinality(r) \in D
      BY <1>9
    <2> HIDE DEF D, r
    <2>2. QED
      BY <1>5, <1>8, <1>9, <2>1
  <1>11. g[s] = f[c] + g[r] /\ h[s] = f[c] + h[r]
    BY <1>1, <1>7
  <1>12. QED
    BY <1>6, <1>10, <1>11

\* The total of a function over an enumeration of S is its sum over S.
LEMMA TotalIsSum ==
  ASSUME NEW S, NEW o, Enumerates(o, S), NEW f, \A x \in S : f[x] \in Int
  PROVE  Summed(f, S) = ExactTotal([i \in 1..Len(o) |-> f[o[i]]])
  <1> DEFINE n == Len(o)
             part(s) == [i \in 1..n |-> IF o[i] \in s THEN f[o[i]] ELSE 0]
             g == [s \in SUBSET S |-> ExactTotal(part(s))]
  <1>1. /\ n \in Nat /\ \A i \in 1..n : o[i] \in S
    BY DEF Enumerates
  <1>2. \A s : Len(part(s)) = n /\ \A i \in 1..n : part(s)[i] = IF o[i] \in s THEN f[o[i]] ELSE 0
    BY <1>1
  <1>3. \A s : \A i \in 1..n : part(s)[i] \in Int
    BY <1>1, <1>2
  <1> HIDE DEF part
  <1>4. ExactTotal(part({})) = 0
    BY <1>1, <1>2, TotalZero
  <1>5. ASSUME NEW s \in SUBSET S, NEW x \in s PROVE ExactTotal(part(s)) = f[x] + ExactTotal(part(s \ {x}))
    <2>1. PICK j \in 1..n : o[j] = x
      BY DEF Enumerates
    <2>2. \A i \in 1..n : o[i] = o[j] => i = j
      BY DEF Enumerates
    <2>3. part(s)[j] = f[x] /\ part(s \ {x})[j] = 0
      BY <1>2, <2>1
    <2>4. \A i \in 1..n : i # j => part(s)[i] = part(s \ {x})[i]
      BY <1>2, <2>1, <2>2
    <2>5. f[x] \in Int /\ part(s)[j] = f[x] + part(s \ {x})[j]
      BY <2>3
    <2> DEFINE a == part(s)
               b == part(s \ {x})
               d == f[x]
    <2>6. DifferAt(a, b, n, j, d)
      BY <1>1, <1>2, <1>3, <2>4, <2>5 DEF DifferAt
    <2> HIDE DEF a, b, d, n
    <2>7. ExactTotal(a) = d + ExactTotal(b)
      BY <2>6, TotalChanges, Zenon
    <2>8. QED
      BY <2>7 DEF a, b, d
  <1>6. SumsOver(f, S, g)
    <2>1. \A s \in SUBSET S : g[s] = ExactTotal(part(s))
      OBVIOUS
    <2>2. g = [s \in SUBSET S |-> g[s]]
      OBVIOUS
    <2> HIDE DEF g
    <2>3. ASSUME NEW s \in SUBSET S
          PROVE  g[s] = IF s = {} THEN 0 ELSE LET x == CHOOSE x \in s : TRUE IN f[x] + g[s \ {x}]
      <3>1. CASE s = {}
        BY <1>4, <2>1, <3>1
      <3>2. CASE s # {}
        <4> DEFINE c == CHOOSE x \in s : TRUE
        <4>1. c \in s
          BY <3>2
        <4> HIDE DEF c
        <4>2. s \ {c} \in SUBSET S
          OBVIOUS
        <4>3. g[s] = f[c] + g[s \ {c}]
          BY <1>5, <2>1, <4>1, <4>2
        <4>4. QED
          BY <3>2, <4>3 DEF c
      <3>3. QED
        BY <3>1, <3>2
    <2>4. QED
      BY <2>2, <2>3, Zenon DEF SumsOver
  <1>7. g[S] = ExactTotal([i \in 1..n |-> f[o[i]]])
    <2>1. part(S) = [i \in 1..n |-> f[o[i]]]
      BY <1>1 DEF part
    <2>2. QED
      BY <2>1
  <1> HIDE DEF g
  <1>8. \E h : SumsOver(f, S, h) /\ Summed(f, S) = h[S]
    <2>1. \E h : SumsOver(f, S, h)
      BY <1>6
    <2>2. QED
      BY <2>1, Zenon DEF SumsOver, Summed, MapThenSumSet, MapThenFoldSet
  <1>9. IsFiniteSet(S)
    BY EnumerationCardinality, Zenon
  <1>10. QED
    BY <1>6, <1>7, <1>8, <1>9, SumsUnique


-----------------------------------------------------------------------------
(* Images of lists                                                         *)

Image(f, q) == [i \in DOMAIN q |-> f[q[i]]]

LEMMA ImageIs ==
  ASSUME NEW S, NEW q \in Seq(S), NEW f
  PROVE  /\ DOMAIN Image(f, q) = 1..Len(q) /\ Len(Image(f, q)) = Len(q)
         /\ \A i \in 1..Len(q) : Image(f, q)[i] = f[q[i]]
         /\ \A V : (\A x \in S : f[x] \in V) => Image(f, q) \in Seq(V)
  <1> DEFINE n == Len(q)
             p == Image(f, q)
  <1>1. n \in Nat /\ DOMAIN q = 1..n /\ \A i \in 1..n : q[i] \in S
    OBVIOUS
  <1>2. p = [i \in 1..n |-> f[q[i]]]
    BY <1>1 DEF Image
  <1> HIDE DEF n, p
  <1>3. DOMAIN p = 1..n /\ \A i \in 1..n : p[i] = f[q[i]]
    BY <1>2
  <1>4. Len(p) = n
    BY <1>1, <1>2
  <1>5. ASSUME NEW V, \A x \in S : f[x] \in V PROVE p \in Seq(V)
    <2>1. p \in [1..n -> V]
      BY <1>1, <1>2, <1>5
    <2>2. QED
      BY <1>1, <2>1
  <1>6. QED
    BY <1>3, <1>4, <1>5 DEF n, p

LEMMA ImageAppend ==
  ASSUME NEW S, NEW q \in Seq(S), NEW x \in S, NEW f
  PROVE  Append(Image(f, q), f[x]) = Image(f, Append(q, x))
  <1> DEFINE n == Len(q)
             V == {f[y] : y \in S}
             a == Append(Image(f, q), f[x])
             b == Image(f, Append(q, x))
             p == Append(q, x)
  <1>1. /\ n \in Nat /\ p \in Seq(S) /\ Len(p) = n + 1 /\ p[n + 1] = x
        /\ \A i \in 1..n : p[i] = q[i]
    OBVIOUS
  <1>2. Image(f, q) \in Seq(V) /\ f[x] \in V /\ Len(Image(f, q)) = n /\ \A i \in 1..n : Image(f, q)[i] = f[q[i]]
    BY ImageIs
  <1> HIDE DEF V, n
  <1>3. a = [i \in 1..(n + 1) |-> a[i]] /\ a[n + 1] = f[x] /\ \A i \in 1..n : a[i] = f[q[i]]
    BY <1>1, <1>2
  <1> HIDE DEF a, p
  <1>4. /\ b = [i \in 1..(n + 1) |-> b[i]] /\ b[n + 1] = f[x] /\ \A i \in 1..n : b[i] = f[q[i]]
    <2>1. /\ Image(f, p) = [i \in 1..(n + 1) |-> f[p[i]]]
      BY <1>1 DEF Image
    <2>2. QED
      BY <1>1, <2>1 DEF p
  <1> HIDE DEF b
  <1>5. ASSUME NEW i \in 1..(n + 1) PROVE a[i] = b[i]
    <2>1. i = n + 1 \/ i \in 1..n
      BY <1>1
    <2>2. QED
      BY <1>3, <1>4, <2>1
  <1>6. a = b
    BY <1>3, <1>4, <1>5
  <1>7. QED
    BY <1>6 DEF a, b, p

\* The loop of Kept, round by round.
Keeps(list, S, n, f) ==
    /\ f[0] = <<>>
    /\ \A i \in 1..n : f[i] = IF list[i] \in S THEN Append(f[i - 1], list[i]) ELSE f[i - 1]

LEMMA KeptLoops ==
  ASSUME NEW list, Len(list) \in Nat, NEW S
  PROVE  \E f : Keeps(list, S, Len(list), f) /\ Kept(list, S) = f[Len(list)]
  <1> DEFINE n == Len(list)
  <1>1. PICK f : KeptRounds(list, S, n, f) /\ Kept(list, S) = f[n]
    <2>1. \E f : KeptRounds(list, S, n, f)
      BY KeptDefined, Zenon
    <2>2. QED
      BY <2>1, Zenon DEF KeptRounds, Kept
  <1>2. \A i \in 0..n : f[i] = IF i = 0 THEN <<>>
            ELSE IF list[i] \in S THEN Append(f[i - 1], list[i]) ELSE f[i - 1]
    BY <1>1, Zenon DEF KeptRounds
  <1>3. Keeps(list, S, n, f)
    BY <1>2 DEF Keeps
  <1>4. QED
    BY <1>1, <1>3, Zenon

\* The loop over an image is the image of the loop.
LEMMA KeptImage ==
  ASSUME NEW S, NEW o \in Seq(S), NEW f, NEW V, NEW W, \A x \in S : x \in W <=> f[x] \in V
  PROVE  Kept(Image(f, o), V) = Image(f, Kept(o, W))
  <1> DEFINE n == Len(o)
             v == Image(f, o)
  <1>1. n \in Nat /\ \A i \in 1..n : o[i] \in S
    OBVIOUS
  <1>2. Len(v) = n /\ \A i \in 1..n : v[i] = f[o[i]]
    BY ImageIs
  <1> HIDE DEF v, n
  <1>3. PICK a : Keeps(v, V, n, a) /\ Kept(v, V) = a[n]
    <2>1. Len(v) \in Nat
      BY <1>1, <1>2
    <2>2. \E a : Keeps(v, V, Len(v), a) /\ Kept(v, V) = a[Len(v)]
      BY <2>1, KeptLoops, Zenon
    <2>3. QED
      BY <1>2, <2>2
  <1>4. PICK b : Keeps(o, W, n, b) /\ Kept(o, W) = b[n]
    BY <1>1, KeptLoops, Zenon DEF n
  <1> DEFINE T == {k \in Nat : k <= n => b[k] \in Seq(S) /\ a[k] = Image(f, b[k])}
  <1>5. 0 \in T
    <2>1. a[0] = <<>> /\ b[0] = <<>>
      BY <1>3, <1>4 DEF Keeps
    <2>2. Image(f, <<>>) = <<>>
      BY DEF Image
    <2>3. <<>> \in Seq(S)
      OBVIOUS
    <2>4. QED
      BY <2>1, <2>2, <2>3, Zenon
  <1>6. ASSUME NEW k \in Nat, k \in T PROVE k + 1 \in T
    <2>1. SUFFICES ASSUME k + 1 <= n PROVE b[k + 1] \in Seq(S) /\ a[k + 1] = Image(f, b[k + 1])
      OBVIOUS
    <2>2. k + 1 \in 1..n /\ (k + 1) - 1 = k /\ b[k] \in Seq(S) /\ a[k] = Image(f, b[k])
      BY <1>1, <1>6, <2>1
    <2> DEFINE x == o[k + 1]
    <2>3. /\ a[k + 1] = IF f[x] \in V THEN Append(a[k], f[x]) ELSE a[k]
          /\ b[k + 1] = IF x \in W THEN Append(b[k], x) ELSE b[k]
          /\ x \in S
      BY <1>1, <1>2, <1>3, <1>4, <2>2 DEF Keeps
    <2> HIDE DEF x
    <2>4. CASE x \in W
      <3>1. f[x] \in V
        BY <2>3, <2>4
      <3>2. Append(Image(f, b[k]), f[x]) = Image(f, Append(b[k], x))
        BY <2>2, <2>3, ImageAppend, Zenon
      <3>3. QED
        BY <2>2, <2>3, <2>4, <3>1, <3>2
    <2>5. CASE x \notin W
      BY <2>2, <2>3, <2>5
    <2>6. QED
      BY <2>4, <2>5
  <1> HIDE DEF T
  <1>7. n \in T
    BY <1>1, <1>5, <1>6, Induction, Zenon
  <1>8. a[n] = Image(f, b[n])
    BY <1>1, <1>7 DEF T
  <1>9. QED
    BY <1>3, <1>4, <1>8 DEF v


\* M is to the images what L is to the elements.
Mirrors(S, f, L, M) == \A a, b \in S : <<a, b>> \in L <=> <<f[a], f[b]>> \in M

\* Insertion into an image is the image of the insertion.
LEMMA InsertedImage ==
  ASSUME NEW E, NEW s \in Seq(E), NEW x \in E, NEW f, NEW L, NEW M, Mirrors(E, f, L, M)
  PROVE  /\ Inserted(s, x, L) \in Seq(E)
         /\ Inserted(Image(f, s), f[x], M) = Image(f, Inserted(s, x, L))
  <1> DEFINE n == Len(s)
             V == {f[y] : y \in E}
             v == Image(f, s)
             stops == {0} \cup {j \in 1..n : <<x, s[j]>> \notin L}
  <1>1. n \in Nat /\ DOMAIN s = 1..n /\ \A i \in 1..n : s[i] \in E
    OBVIOUS
  <1>2. f[x] \in V /\ \A y \in E : f[y] \in V
    OBVIOUS
  <1> HIDE DEF V, v
  <1>3. DOMAIN v = 1..n /\ Len(v) = n /\ v \in Seq(V) /\ \A i \in 1..n : v[i] = f[s[i]]
    BY <1>2, ImageIs, Zenon DEF v
  <1>4. stops = {0} \cup {j \in 1..n : <<f[x], v[j]>> \notin M}
    BY <1>1, <1>3 DEF Mirrors
  <1>5. Inserted(s, x, L) = InsertAt(s, Max(stops) + 1, x)
    BY <1>1, Zenon DEF Inserted
  <1>6. Inserted(v, f[x], M) = InsertAt(v, Max(stops) + 1, f[x])
    <2> DEFINE other == {0} \cup {j \in DOMAIN v : <<f[x], v[j]>> \notin M}
    <2>1. Inserted(v, f[x], M) = InsertAt(v, Max(other) + 1, f[x])
      BY Zenon DEF Inserted
    <2>2. other = stops
      BY <1>3, <1>4
    <2>3. QED
      BY <2>1, <2>2
  <1> DEFINE m == Max(stops)
  <1>7. m \in 0..n
    <2>1. stops \in SUBSET (0..n) /\ stops # {}
      BY <1>1
    <2> HIDE DEF stops
    <2>2. QED
      BY <1>1, <2>1, MaxIs
  <1> DEFINE r == InsertAt(s, m + 1, x)
             w == InsertAt(v, m + 1, f[x])
  <1> HIDE DEF m, n
  <1>8. HasBehind(E, s, x, m, r)
    BY <1>7, InsertAtIs, Zenon DEF n
  <1>9. HasBehind(V, v, f[x], m, w)
    <2>1. m \in 0..Len(v)
      BY <1>3, <1>7
    <2>2. QED
      BY <1>2, <1>3, <2>1, InsertAtIs, Zenon
  <1> HIDE DEF r, w
  <1>10. /\ r \in Seq(E) /\ Len(r) = n + 1 /\ r[m + 1] = x
         /\ \A k \in 1..m : r[k] = s[k]
         /\ \A k \in (m + 2)..(n + 1) : r[k] = s[k - 1]
    BY <1>8 DEF HasBehind, n
  <1>11. /\ w \in Seq(V) /\ Len(w) = n + 1 /\ w[m + 1] = f[x]
         /\ \A k \in 1..m : w[k] = v[k]
         /\ \A k \in (m + 2)..(n + 1) : w[k] = v[k - 1]
    BY <1>3, <1>9 DEF HasBehind
  <1>12. DOMAIN r = 1..(n + 1) /\ DOMAIN w = 1..(n + 1)
    BY <1>10, <1>11
  <1>13. ASSUME NEW k \in 1..(n + 1) PROVE w[k] = f[r[k]]
    <2>1. CASE k \in 1..m
      <3>1. k \in 1..n
        BY <1>1, <1>7, <2>1
      <3>2. QED
        BY <1>3, <1>10, <1>11, <2>1, <3>1
    <2>2. CASE k = m + 1
      BY <1>10, <1>11, <2>2
    <2>3. CASE k \in (m + 2)..(n + 1)
      <3>1. k - 1 \in 1..n
        BY <1>1, <1>7, <2>3
      <3>2. QED
        BY <1>3, <1>10, <1>11, <2>3, <3>1
    <2>4. QED
      BY <1>1, <1>7, <2>1, <2>2, <2>3
  <1>14. w = Image(f, r)
    <2>1. w = [k \in 1..(n + 1) |-> w[k]]
      BY <1>11, <1>12
    <2>2. QED
      BY <1>12, <1>13, <2>1 DEF Image
  <1>15. QED
    BY <1>5, <1>6, <1>10, <1>14 DEF r, w, m, v

\* The loop of SliceStable, round by round.
SortLoops(list, less, n, f) ==
    f[0] = <<>> /\ \A i \in 1..n : f[i] = Inserted(f[i - 1], list[i], less)

LEMMA SliceStableLoops ==
  ASSUME NEW list, Len(list) \in Nat, NEW less
  PROVE  \E f : SortLoops(list, less, Len(list), f) /\ SliceStable(list, less) = f[Len(list)]
  <1> DEFINE n == Len(list)
  <1>1. PICK f : SortRounds(list, less, n, f) /\ SliceStable(list, less) = f[n]
    <2>1. \E f : SortRounds(list, less, n, f)
      BY SortDefined, Zenon
    <2>2. QED
      BY <2>1, Zenon DEF SortRounds, SliceStable
  <1>2. \A i \in 0..n : f[i] = IF i = 0 THEN <<>> ELSE Inserted(f[i - 1], list[i], less)
    BY <1>1, Zenon DEF SortRounds
  <1>3. SortLoops(list, less, n, f)
    BY <1>2 DEF SortLoops
  <1>4. QED
    BY <1>1, <1>3, Zenon

\* Sorting an image is the image of the sorted list.
LEMMA SliceStableImage ==
  ASSUME NEW S, NEW o \in Seq(S), NEW f, NEW L, NEW M, Mirrors(S, f, L, M)
  PROVE  SliceStable(Image(f, o), M) = Image(f, SliceStable(o, L))
  <1> DEFINE n == Len(o)
             v == Image(f, o)
  <1>1. n \in Nat /\ \A i \in 1..n : o[i] \in S
    OBVIOUS
  <1>2. Len(v) = n /\ \A i \in 1..n : v[i] = f[o[i]]
    BY ImageIs
  <1> HIDE DEF v, n
  <1>3. PICK a : SortLoops(v, M, n, a) /\ SliceStable(v, M) = a[n]
    <2>1. Len(v) \in Nat
      BY <1>1, <1>2
    <2>2. \E a : SortLoops(v, M, Len(v), a) /\ SliceStable(v, M) = a[Len(v)]
      BY <2>1, SliceStableLoops, Zenon
    <2>3. QED
      BY <1>2, <2>2
  <1>4. PICK b : SortLoops(o, L, n, b) /\ SliceStable(o, L) = b[n]
    BY <1>1, SliceStableLoops, Zenon DEF n
  <1> DEFINE T == {k \in Nat : k <= n => b[k] \in Seq(S) /\ a[k] = Image(f, b[k])}
  <1>5. 0 \in T
    <2>1. a[0] = <<>> /\ b[0] = <<>>
      BY <1>3, <1>4 DEF SortLoops
    <2>2. Image(f, <<>>) = <<>>
      BY DEF Image
    <2>3. <<>> \in Seq(S)
      OBVIOUS
    <2>4. QED
      BY <2>1, <2>2, <2>3, Zenon
  <1>6. ASSUME NEW k \in Nat, k \in T PROVE k + 1 \in T
    <2>1. SUFFICES ASSUME k + 1 <= n PROVE b[k + 1] \in Seq(S) /\ a[k + 1] = Image(f, b[k + 1])
      OBVIOUS
    <2>2. k + 1 \in 1..n /\ (k + 1) - 1 = k /\ b[k] \in Seq(S) /\ a[k] = Image(f, b[k])
      BY <1>1, <1>6, <2>1
    <2> DEFINE x == o[k + 1]
    <2>3. /\ a[k + 1] = Inserted(a[k], f[x], M)
          /\ b[k + 1] = Inserted(b[k], x, L)
          /\ x \in S
      BY <1>1, <1>2, <1>3, <1>4, <2>2 DEF SortLoops
    <2> HIDE DEF x
    <2>4. /\ Inserted(b[k], x, L) \in Seq(S)
          /\ Inserted(Image(f, b[k]), f[x], M) = Image(f, Inserted(b[k], x, L))
      <3>1. b[k] \in Seq(S) /\ x \in S
        BY <2>2, <2>3
      <3>2. QED
        BY <3>1, InsertedImage
    <2>5. QED
      BY <2>2, <2>3, <2>4
  <1> HIDE DEF T
  <1>7. n \in T
    BY <1>1, <1>5, <1>6, Induction, Zenon
  <1>8. a[n] = Image(f, b[n])
    BY <1>1, <1>7 DEF T
  <1>9. QED
    BY <1>3, <1>4, <1>8 DEF v

LEMMA TotalNatural ==
  ASSUME NEW n \in Nat, NEW list, Len(list) = n, \A i \in 1..n : list[i] \in Nat
  PROVE  ExactTotal(list) \in Nat
  <1>1. \A i \in 1..n : list[i] \in Int
    OBVIOUS
  <1>2. PICK t : PartialSums(list, n, t) /\ ExactTotal(list) = t[n]
    BY <1>1, TotalIs, Zenon
  <1> DEFINE T == {i \in Nat : i <= n => t[i] \in Nat}
  <1>3. 0 \in T
    BY <1>2 DEF PartialSums
  <1>4. ASSUME NEW i \in Nat, i \in T PROVE i + 1 \in T
    <2>1. SUFFICES ASSUME i + 1 <= n PROVE t[i + 1] \in Nat
      OBVIOUS
    <2>2. i + 1 \in 1..n /\ (i + 1) - 1 = i /\ t[i] \in Nat
      BY <1>4, <2>1
    <2>3. t[i + 1] = t[i] + list[i + 1]
      BY <1>2, <2>2 DEF PartialSums
    <2>4. QED
      BY <2>2, <2>3
  <1> HIDE DEF T
  <1>5. \A i \in Nat : i \in T
    BY <1>3, <1>4, Induction, Zenon
  <1>6. t[n] \in Nat
    BY <1>5 DEF T
  <1>7. QED
    BY <1>2, <1>6

\* The values of the loop of Total up to its n-th round.
RoundedRounds(list, round, n, f) ==
    f = [i \in 0..n |-> IF i = 0 THEN 0 ELSE round[f[i - 1] + list[i]]]

LEMMA RoundedDefined ==
  ASSUME NEW list, NEW round, NEW n \in Nat
  PROVE  \E f : RoundedRounds(list, round, n, f)
  <1> DEFINE T == {k \in Nat : \E f : RoundedRounds(list, round, k, f)}
  <1>1. 0 \in T
    <2>1. RoundedRounds(list, round, 0, [i \in 0..0 |-> 0])
      BY DEF RoundedRounds
    <2>2. QED
      BY <2>1
  <1>2. ASSUME NEW k \in Nat, k \in T PROVE k + 1 \in T
    <2>1. PICK f : RoundedRounds(list, round, k, f)
      BY <1>2
    <2> DEFINE last == round[f[k] + list[k + 1]]
               g == [i \in 0..(k + 1) |-> IF i = k + 1 THEN last ELSE f[i]]
    <2>2. \A i \in 0..k : f[i] = IF i = 0 THEN 0 ELSE round[f[i - 1] + list[i]]
      BY <2>1 DEF RoundedRounds
    <2>3. \A i \in 0..(k + 1) : g[i] = IF i = 0 THEN 0 ELSE round[g[i - 1] + list[i]]
      <3>1. \A i \in 0..(k + 1) : i # k + 1 => i \in 0..k /\ g[i] = f[i]
        OBVIOUS
      <3>2. \A i \in 0..(k + 1) : i # 0 => i - 1 \in 0..k /\ g[i - 1] = f[i - 1]
        OBVIOUS
      <3>3. g[k + 1] = last /\ (k + 1) - 1 = k /\ k + 1 # 0
        OBVIOUS
      <3> HIDE DEF g
      <3>4. QED
        BY <2>2, <3>1, <3>2, <3>3
    <2>4. RoundedRounds(list, round, k + 1, g)
      <3>1. g = [i \in 0..(k + 1) |-> g[i]]
        OBVIOUS
      <3> HIDE DEF g
      <3>2. QED
        BY <2>3, <3>1, Zenon DEF RoundedRounds
    <2>5. QED
      BY <2>4
  <1> HIDE DEF T
  <1>3. n \in T
    BY <1>1, <1>2, Induction, Zenon
  <1>4. QED
    BY <1>3 DEF T

\* The sums of a list of naturals never decrease.
LEMMA SumsGrow ==
  ASSUME NEW n \in Nat, NEW list, \A i \in 1..n : list[i] \in Nat, NEW t, PartialSums(list, n, t)
  PROVE  \A i \in 0..n : t[i] \in Nat /\ t[i] <= t[n]
  <1>1. /\ t[0] = 0 /\ \A i \in 0..n : t[i] \in Int
        /\ \A i \in 1..n : t[i] = t[i - 1] + list[i]
    BY DEF PartialSums
  <1> DEFINE U == {i \in Nat : i <= n => t[i] >= 0}
             T == {k \in Nat : k <= n => t[n - k] <= t[n]}
  <1>2. 0 \in U /\ 0 \in T
    BY <1>1
  <1>3. ASSUME NEW i \in Nat, i \in U PROVE i + 1 \in U
    <2>1. SUFFICES ASSUME i + 1 <= n PROVE t[i + 1] >= 0
      OBVIOUS
    <2>2. i + 1 \in 1..n /\ i \in 0..n /\ (i + 1) - 1 = i /\ t[i] >= 0
      BY <1>3, <2>1
    <2>3. t[i + 1] = t[i] + list[i + 1] /\ list[i + 1] \in Nat /\ t[i] \in Int
      BY <1>1, <2>2
    <2>4. QED
      BY <2>2, <2>3
  <1>4. ASSUME NEW k \in Nat, k \in T PROVE k + 1 \in T
    <2>1. SUFFICES ASSUME k + 1 <= n PROVE t[n - (k + 1)] <= t[n]
      OBVIOUS
    <2>2. n - k \in 1..n /\ n \in 0..n /\ n - k \in 0..n /\ (n - k) - 1 = n - (k + 1)
          /\ n - (k + 1) \in 0..n /\ t[n - k] <= t[n]
      BY <1>4, <2>1
    <2>3. t[n - k] = t[(n - k) - 1] + list[n - k] /\ list[n - k] \in Nat
      BY <1>1, <2>2
    <2>4. t[n - k] = t[n - (k + 1)] + list[n - k]
          /\ t[n - k] \in Int /\ t[n] \in Int /\ t[n - (k + 1)] \in Int
      BY <1>1, <2>2, <2>3
    <2>5. QED
      BY <2>2, <2>3, <2>4
  <1> HIDE DEF U, T
  <1>5. \A i \in Nat : i \in U
    BY <1>2, <1>3, Induction, Zenon
  <1>6. \A k \in Nat : k \in T
    BY <1>2, <1>4, Induction, Zenon
  <1>7. ASSUME NEW i \in 0..n PROVE t[i] \in Nat /\ t[i] <= t[n]
    <2>1. t[i] >= 0 /\ t[i] \in Int
      BY <1>1, <1>5 DEF U
    <2>2. n - i \in Nat /\ n - i <= n /\ n - (n - i) = i
      OBVIOUS
    <2>3. t[n - (n - i)] <= t[n]
      BY <1>6, <2>2 DEF T
    <2>4. QED
      BY <2>1, <2>2, <2>3
  <1>8. QED
    BY <1>7

\* Where nothing up to the sum is rounded, the total is the sum.
LEMMA TotalExact ==
  ASSUME NEW n \in Nat, NEW list, Len(list) = n, \A i \in 1..n : list[i] \in Nat,
         NEW round, NEW bound \in Nat, \A k \in 0..bound : round[k] = k,
         ExactTotal(list) <= bound
  PROVE  Total(list, round) = ExactTotal(list)
  <1>1. \A i \in 1..n : list[i] \in Int
    OBVIOUS
  <1>2. PICK t : PartialSums(list, n, t) /\ ExactTotal(list) = t[n]
    BY <1>1, TotalIs, Zenon
  <1>3. PICK u : RoundedRounds(list, round, n, u) /\ Total(list, round) = u[n]
    <2>1. \E u : RoundedRounds(list, round, n, u)
      BY RoundedDefined, Zenon
    <2>2. QED
      BY <2>1, Zenon DEF RoundedRounds, Total
  <1>4. u[0] = 0 /\ \A i \in 1..n : u[i] = round[u[i - 1] + list[i]]
    <2>1. \A i \in 0..n : u[i] = IF i = 0 THEN 0 ELSE round[u[i - 1] + list[i]]
      BY <1>3, Zenon DEF RoundedRounds
    <2>2. QED
      BY <2>1
  <1>5. /\ t[0] = 0 /\ \A i \in 1..n : t[i] = t[i - 1] + list[i]
        /\ \A i \in 0..n : t[i] \in Int
    BY <1>2 DEF PartialSums
  <1>6. \A i \in 0..n : t[i] \in 0..bound
    <2>1. \A i \in 0..n : t[i] \in Nat /\ t[i] <= t[n]
      BY <1>2, SumsGrow, Zenon
    <2>2. QED
      BY <1>2, <2>1
  <1> DEFINE T == {i \in Nat : i <= n => u[i] = t[i]}
  <1>7. 0 \in T
    BY <1>4, <1>5
  <1>8. ASSUME NEW i \in Nat, i \in T PROVE i + 1 \in T
    <2>1. SUFFICES ASSUME i + 1 <= n PROVE u[i + 1] = t[i + 1]
      OBVIOUS
    <2>2. i + 1 \in 1..n /\ i + 1 \in 0..n /\ (i + 1) - 1 = i /\ u[i] = t[i]
      BY <1>8, <2>1
    <2>3. u[i + 1] = round[u[i] + list[i + 1]] /\ t[i + 1] = t[i] + list[i + 1]
      BY <1>4, <1>5, <2>2
    <2>4. round[t[i + 1]] = t[i + 1]
      BY <1>6, <2>2
    <2>5. QED
      BY <2>2, <2>3, <2>4
  <1> HIDE DEF T
  <1>9. \A i \in Nat : i \in T
    BY <1>7, <1>8, Induction, Zenon
  <1>10. u[n] = t[n]
    BY <1>9 DEF T
  <1>11. QED
    BY <1>2, <1>3, <1>10

-----------------------------------------------------------------------------
(* Lists of lists                                                          *)

\* The values of the loop of FlattenSeq.
FlatRounds(lists, n, f) ==
    f = [i \in 1..n |-> IF i = 1 THEN lists[i] ELSE f[i - 1] \o lists[i]]

\* The first i elements of list.
First(list, i) == [j \in 1..i |-> list[j]]

LEMMA FirstIs ==
  ASSUME NEW i \in Nat, NEW list, NEW S, \A j \in 1..i : list[j] \in S
  PROVE  /\ First(list, i) \in Seq(S) /\ Len(First(list, i)) = i
         /\ \A j \in 1..i : First(list, i)[j] = list[j]
  <1>1. First(list, i) \in [1..i -> S] /\ \A j \in 1..i : First(list, i)[j] = list[j]
    BY Zenon DEF First
  <1> DEFINE f == First(list, i)
  <1> HIDE DEF f
  <1>2. f \in Seq(S) /\ Len(f) = i
    <2>1. f \in [1..i -> S]
      BY <1>1 DEF f
    <2>2. QED
      BY <2>1
  <1>3. QED
    BY <1>1, <1>2 DEF f

\* Lists of one element each, one after another.
LEMMA FlattenSingles ==
  ASSUME NEW n \in Nat, NEW list, NEW lists, DOMAIN lists = 1..n, Len(lists) = n,
         \A i \in 1..n : lists[i] = <<list[i]>>, lists = [i \in 1..n |-> lists[i]]
  PROVE  FlattenSeq(lists) = First(list, n)
  <1> DEFINE g == [i \in 1..n |-> First(list, i)]
  <1>1. ASSUME NEW i \in 1..n, i # 1 PROVE First(list, i) = First(list, i - 1) \o lists[i]
    <2> DEFINE S == {list[j] : j \in 1..n}
    <2>0. i - 1 \in Nat /\ i \in Nat /\ list[i] \in S /\ \A j \in 1..(i - 1) : list[j] \in S
      OBVIOUS
    <2> HIDE DEF S
    <2>1. First(list, i - 1) \in Seq(S) /\ Len(First(list, i - 1)) = i - 1 /\ i - 1 \in Nat
      BY <2>0, FirstIs
    <2>2. lists[i] = <<list[i]>> /\ <<list[i]>> \in Seq(S)
      BY <2>0
    <2> DEFINE both == First(list, i - 1) \o <<list[i]>>
    <2>3. Len(both) = i /\ both \in Seq(S)
      BY <2>1, <2>2
    <2>4. \A j \in 1..i : both[j] = list[j]
      <3>1. ASSUME NEW j \in 1..i PROVE both[j] = list[j]
        <4>1. CASE j = i
          BY <2>1, <2>2, <4>1
        <4>2. CASE j # i
          <5>1. j \in 1..(i - 1)
            BY <4>2
          <5>2. both[j] = First(list, i - 1)[j]
            BY <2>1, <2>2, <5>1
          <5>3. QED
            BY <2>0, <5>1, <5>2, FirstIs
        <4>3. QED
          BY <4>1, <4>2
      <3>2. QED
        BY <3>1
    <2> HIDE DEF both
    <2>5. both = First(list, i)
      BY <2>3, <2>4 DEF First
    <2>6. QED
      BY <2>2, <2>5 DEF both
  <1>2. n >= 1 => First(list, 1) = lists[1]
    <2> SUFFICES ASSUME n >= 1 PROVE First(list, 1) = lists[1]
      OBVIOUS
    <2>1. lists[1] = <<list[1]>>
      OBVIOUS
    <2>2. First(list, 1) = <<list[1]>>
      <3> DEFINE x == list[1]
                 f == First(list, 1)
                 g1 == <<x>>
      <3>1. f \in Seq({x}) /\ Len(f) = 1 /\ f[1] = x
        <4>1. 1 \in Nat /\ 1 \in 1..1 /\ \A j \in 1..1 : list[j] \in {x}
          OBVIOUS
        <4> HIDE DEF x
        <4>2. /\ First(list, 1) \in Seq({x}) /\ Len(First(list, 1)) = 1
              /\ \A j \in 1..1 : First(list, 1)[j] = list[j]
          BY <4>1, FirstIs, Zenon
        <4>3. QED
          BY <4>1, <4>2, Zenon DEF x
      <3>2. g1 \in Seq({x}) /\ Len(g1) = 1 /\ g1[1] = x
        OBVIOUS
      <3> HIDE DEF x, f, g1
      <3>3. \A i \in 1..Len(f) : f[i] = g1[i]
        BY <3>1, <3>2
      <3>4. f = g1
        BY <3>1, <3>2, <3>3, SeqEqual
      <3>5. QED
        BY <3>4 DEF x, f, g1
    <2>3. QED
      BY <2>1, <2>2
  <1>3. FlatRounds(lists, n, g)
    <2>1. \A i \in 1..n : g[i] = First(list, i)
      OBVIOUS
    <2>2. g = [i \in 1..n |-> g[i]]
      OBVIOUS
    <2> HIDE DEF g
    <2>3. \A i \in 1..n : g[i] = IF i = 1 THEN lists[i] ELSE g[i - 1] \o lists[i]
      <3>1. \A i \in 1..n : i # 1 => i - 1 \in 1..n
        OBVIOUS
      <3>2. ASSUME NEW i \in 1..n
            PROVE  g[i] = IF i = 1 THEN lists[i] ELSE g[i - 1] \o lists[i]
        <4>1. CASE i = 1
          <5>1. n >= 1 /\ g[1] = First(list, 1)
            BY <2>1, <4>1
          <5>2. QED
            BY <1>2, <4>1, <5>1
        <4>2. CASE i # 1
          <5>1. g[i] = First(list, i) /\ g[i - 1] = First(list, i - 1)
            BY <2>1, <3>1, <4>2
          <5>2. QED
            BY <1>1, <4>2, <5>1
        <4>3. QED
          BY <4>1, <4>2
      <3>3. QED
        BY <3>2
    <2>4. QED
      BY <2>2, <2>3, Zenon DEF FlatRounds
  <1> HIDE DEF g
  <1>4. CASE n = 0
    <2>1. FlattenSeq(lists) = lists
      BY <1>4 DEF FlattenSeq
    <2>2. QED
      BY <1>4, <2>1 DEF First
  <1>5. CASE n >= 1
    <2>1. PICK f : FlatRounds(lists, n, f) /\ FlattenSeq(lists) = f[n]
      <3>1. \E f : FlatRounds(lists, n, f)
        BY <1>3
      <3>2. Len(lists) # 0
        BY <1>5
      <3>3. QED
        BY <3>1, <3>2, Zenon DEF FlatRounds, FlattenSeq
    <2>2. \A i \in 1..n : f[i] = IF i = 1 THEN lists[i] ELSE f[i - 1] \o lists[i]
      BY <2>1, Zenon DEF FlatRounds
    <2> DEFINE T == {i \in Nat : i + 1 <= n => f[i + 1] = First(list, i + 1)}
    <2>3. 0 \in T
      <3>1. f[1] = lists[1] /\ 0 + 1 = 1
        BY <1>5, <2>2
      <3>2. QED
        BY <1>2, <1>5, <3>1
    <2>4. ASSUME NEW i \in Nat, i \in T PROVE i + 1 \in T
      <3>1. SUFFICES ASSUME (i + 1) + 1 <= n PROVE f[(i + 1) + 1] = First(list, (i + 1) + 1)
        OBVIOUS
      <3> DEFINE m == (i + 1) + 1
      <3>2. m \in 1..n /\ m # 1 /\ m - 1 = i + 1 /\ f[m - 1] = First(list, m - 1)
        BY <2>4, <3>1
      <3> HIDE DEF m
      <3>3. f[m] = First(list, m)
        BY <1>1, <2>2, <3>2
      <3>4. QED
        BY <3>3 DEF m
    <2> HIDE DEF T
    <2>5. \A i \in Nat : i \in T
      BY <2>3, <2>4, Induction, Zenon
    <2>6. f[n] = First(list, n)
      <3>1. n - 1 \in Nat /\ (n - 1) + 1 = n
        BY <1>5
      <3>2. QED
        BY <2>5, <3>1 DEF T
    <2>7. QED
      BY <2>1, <2>6
  <1>6. QED
    BY <1>4, <1>5
=============================================================================
