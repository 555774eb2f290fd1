---------------------------- MODULE QueryProofs ----------------------------
(***************************************************************************)
(* Proofs about Query, for tables of any size, conditions of any depth and *)
(* any declared order.                                                     *)
(***************************************************************************)
EXTENDS Query, ListsProofs

-----------------------------------------------------------------------------
(* Comparison of values                                                    *)

\* What a column of an answer holds: nil, a number or another text.
IsCell(v) ==
    \/ v = Nil
    \/ IsNumber(v) /\ v.num \in Int /\ v.text \in Int /\ v.text < 110
    \/ ~IsNumber(v) /\ v.text \in Int

\* Two values that one column may hold.
Alike(v, w) == v = Nil \/ w = Nil \/ (IsNumber(v) <=> IsNumber(w))

LEMMA NumberIsCell ==
  ASSUME NEW t \in {"int", "float64"}, NEW n \in Nat
  PROVE  /\ IsCell(Number(t, n)) /\ IsNumber(Number(t, n)) /\ Number(t, n) # Nil
         /\ Number(t, n).num = n
  <1>1. NumberText(n) \in Int /\ NumberText(n) < 110
    BY DEF NumberText
  <1>2. QED
    BY <1>1 DEF IsCell, IsNumber, Number, Nil

LEMMA ValueIsCell ==
  ASSUME NEW v, IsValue(v)
  PROVE  IsCell(v)
  <1>1. CASE v = Nil
    BY <1>1 DEF IsCell
  <1>2. CASE v.num \in 0..99 /\ \E t \in {"int", "float64"} : v = Number(t, v.num)
    <2>1. PICK t \in {"int", "float64"} : v = Number(t, v.num)
      BY <1>2
    <2>2. v.num \in Nat
      BY <1>2
    <2>3. QED
      BY <2>1, <2>2, NumberIsCell
  <1>3. CASE v.type \in STRING \ {"nil", "int", "float64"} /\ v.text \in Int
    BY <1>3 DEF IsCell, IsNumber
  <1>4. QED
    BY <1>1, <1>2, <1>3 DEF IsValue

\* The three ways in which two cells of a column compare, and the other way round.
LEMMA CompareTurns ==
  ASSUME NEW a, NEW b, IsCell(a), IsCell(b)
  PROVE  CompareValues(a, b) \in {-1, 0, 1} /\ CompareValues(b, a) = 0 - CompareValues(a, b)
  BY DEF IsCell, CompareValues, Sign, IsNumber, Nil

LEMMA CompareTransitive ==
  ASSUME NEW a, NEW b, NEW c, IsCell(a), IsCell(b), IsCell(c),
         Alike(a, b), Alike(b, c), Alike(a, c)
  PROVE  /\ CompareValues(a, b) = 0 => CompareValues(a, c) = CompareValues(b, c)
         /\ CompareValues(b, c) = 0 => CompareValues(a, b) = CompareValues(a, c)
         /\ CompareValues(a, b) < 0 /\ CompareValues(b, c) < 0 => CompareValues(a, c) < 0
         /\ CompareValues(a, b) > 0 /\ CompareValues(b, c) > 0 => CompareValues(a, c) > 0
  BY DEF IsCell, Alike, CompareValues, Sign, IsNumber, Nil

-----------------------------------------------------------------------------
(* The declared order                                                      *)

\* u and v are values that the same n orderings may look at.
AlikeVectors(n, u, v) == \A i \in 1..n : IsCell(u[i]) /\ IsCell(v[i]) /\ Alike(u[i], v[i])

\* The i-th ordering puts u before v.
Precedes(ordering, a, b) ==
    IF ordering.desc THEN CompareValues(a, b) > 0 ELSE CompareValues(a, b) < 0

LEMMA LessByIs ==
  ASSUME NEW n \in Nat, NEW orderBy, DOMAIN orderBy = 1..n, NEW u, NEW v
  PROVE  LessBy(orderBy, u, v) <=>
            \E i \in 1..n : /\ \A j \in 1..(i - 1) : CompareValues(u[j], v[j]) = 0
                            /\ Precedes(orderBy[i], u[i], v[i])
  BY Zenon DEF LessBy, Precedes

LEMMA PrecedesIs ==
  ASSUME NEW ordering, NEW a, NEW b, IsCell(a), IsCell(b)
  PROVE  /\ Precedes(ordering, a, b) => /\ CompareValues(a, b) # 0 /\ CompareValues(b, a) # 0
                                        /\ ~Precedes(ordering, b, a)
         /\ CompareValues(a, b) = 0 \/ Precedes(ordering, a, b) \/ Precedes(ordering, b, a)
         /\ CompareValues(a, b) = 0 <=> CompareValues(b, a) = 0
  <1>1. CompareValues(a, b) \in {-1, 0, 1} /\ CompareValues(b, a) = 0 - CompareValues(a, b)
    BY CompareTurns
  <1>2. QED
    BY <1>1 DEF Precedes

\* A value between two that are not the other way round differs from one of them
\* in the right direction.
LEMMA PrecedesBetween ==
  ASSUME NEW ordering, NEW a, NEW b, NEW c, IsCell(a), IsCell(b), IsCell(c),
         Alike(a, b), Alike(a, c), Alike(c, b),
         CompareValues(a, b) = 0 \/ Precedes(ordering, a, b),
         ~ (CompareValues(a, c) = 0 /\ CompareValues(c, b) = 0)
  PROVE  Precedes(ordering, a, c) \/ Precedes(ordering, c, b)
  <1>1. /\ CompareValues(a, b) \in {-1, 0, 1} /\ CompareValues(a, c) \in {-1, 0, 1}
        /\ CompareValues(b, c) \in {-1, 0, 1} /\ CompareValues(c, b) = 0 - CompareValues(b, c)
    BY CompareTurns
  <1>2. Alike(b, c)
    BY DEF Alike
  <1>3. /\ CompareValues(a, b) = 0 => CompareValues(a, c) = CompareValues(b, c)
        /\ CompareValues(b, c) = 0 => CompareValues(a, b) = CompareValues(a, c)
        /\ CompareValues(a, b) < 0 /\ CompareValues(b, c) < 0 => CompareValues(a, c) < 0
        /\ CompareValues(a, b) > 0 /\ CompareValues(b, c) > 0 => CompareValues(a, c) > 0
    BY <1>2, CompareTransitive
  <1>4. CASE ordering.desc
    BY <1>1, <1>3, <1>4 DEF Precedes
  <1>5. CASE ~ordering.desc
    BY <1>1, <1>3, <1>5 DEF Precedes
  <1>6. QED
    BY <1>4, <1>5

LEMMA LessByAsymmetric ==
  ASSUME NEW n \in Nat, NEW orderBy, DOMAIN orderBy = 1..n, NEW u, NEW v, AlikeVectors(n, u, v)
  PROVE  ~ (LessBy(orderBy, u, v) /\ LessBy(orderBy, v, u))
  <1>1. SUFFICES ASSUME LessBy(orderBy, u, v), LessBy(orderBy, v, u) PROVE FALSE
    OBVIOUS
  <1>2. PICK i \in 1..n : /\ \A j \in 1..(i - 1) : CompareValues(u[j], v[j]) = 0
                          /\ Precedes(orderBy[i], u[i], v[i])
    BY <1>1, LessByIs, Zenon
  <1>3. PICK k \in 1..n : /\ \A j \in 1..(k - 1) : CompareValues(v[j], u[j]) = 0
                          /\ Precedes(orderBy[k], v[k], u[k])
    BY <1>1, LessByIs, Zenon
  <1>4. /\ IsCell(u[i]) /\ IsCell(v[i]) /\ IsCell(u[k]) /\ IsCell(v[k])
    BY DEF AlikeVectors
  <1>5. CASE i = k
    BY <1>2, <1>3, <1>4, <1>5, PrecedesIs
  <1>6. CASE i < k
    <2>1. i \in 1..(k - 1)
      BY <1>6
    <2>2. QED
      BY <1>2, <1>3, <1>4, <2>1, PrecedesIs
  <1>7. CASE k < i
    <2>1. k \in 1..(i - 1)
      BY <1>7
    <2>2. QED
      BY <1>2, <1>3, <1>4, <2>1, PrecedesIs
  <1>8. QED
    BY <1>5, <1>6, <1>7

\* The first ordering that tells u and w apart decides.
LEMMA FirstDifference ==
  ASSUME NEW n \in Nat, NEW D \in SUBSET 1..n, D # {}
  PROVE  \E j \in D : \A l \in 1..(j - 1) : l \notin D
  <1>1. D \in SUBSET Nat
    OBVIOUS
  <1>2. PICK j \in D : \A k \in D : j <= k
    BY <1>1, LeastNatural, Zenon
  <1>3. \A l \in 1..(j - 1) : l \notin D
    BY <1>2
  <1>4. QED
    BY <1>3

LEMMA LessByBetween ==
  ASSUME NEW n \in Nat, NEW orderBy, DOMAIN orderBy = 1..n, NEW u, NEW v, NEW w,
         AlikeVectors(n, u, v), AlikeVectors(n, u, w), AlikeVectors(n, w, v),
         LessBy(orderBy, u, v)
  PROVE  LessBy(orderBy, u, w) \/ LessBy(orderBy, w, v)
  <1> DEFINE D == {j \in 1..n : ~ (CompareValues(u[j], w[j]) = 0 /\ CompareValues(w[j], v[j]) = 0)}
  <1>1. PICK i \in 1..n : /\ \A j \in 1..(i - 1) : CompareValues(u[j], v[j]) = 0
                          /\ Precedes(orderBy[i], u[i], v[i])
    BY LessByIs, Zenon
  <1>2. \A j \in 1..n : /\ IsCell(u[j]) /\ IsCell(v[j]) /\ IsCell(w[j])
                        /\ Alike(u[j], v[j]) /\ Alike(u[j], w[j]) /\ Alike(w[j], v[j])
    BY DEF AlikeVectors
  <1>3. i \in D
    <2>1. SUFFICES ASSUME CompareValues(u[i], w[i]) = 0, CompareValues(w[i], v[i]) = 0 PROVE FALSE
      OBVIOUS
    <2>2. CompareValues(u[i], v[i]) = CompareValues(w[i], v[i])
      BY <1>2, <2>1, CompareTransitive
    <2>3. QED
      BY <1>1, <1>2, <2>1, <2>2, PrecedesIs
  <1>4. PICK j \in D : \A l \in 1..(j - 1) : l \notin D
    <2>1. D \in SUBSET 1..n /\ D # {}
      BY <1>3
    <2> HIDE DEF D
    <2>2. QED
      BY <2>1, FirstDifference, Zenon
  <1>5. j \in 1..n /\ \A l \in 1..(j - 1) : CompareValues(u[l], w[l]) = 0 /\ CompareValues(w[l], v[l]) = 0
    BY <1>4
  <1>6. j = i \/ j \in 1..(i - 1)
    BY <1>3, <1>4, <1>5
  <1>7. CompareValues(u[j], v[j]) = 0 \/ Precedes(orderBy[j], u[j], v[j])
    BY <1>1, <1>6
  <1>8. ~ (CompareValues(u[j], w[j]) = 0 /\ CompareValues(w[j], v[j]) = 0)
    BY <1>4
  <1>9. Precedes(orderBy[j], u[j], w[j]) \/ Precedes(orderBy[j], w[j], v[j])
    BY <1>2, <1>5, <1>7, <1>8, PrecedesBetween, Zenon
  <1> HIDE DEF D
  <1>10. QED
    BY <1>5, <1>9, LessByIs, Zenon

\* Vectors that the order does not tell apart are equal to it everywhere.
LEMMA LessByTies ==
  ASSUME NEW n \in Nat, NEW orderBy, DOMAIN orderBy = 1..n, NEW u, NEW v, AlikeVectors(n, u, v),
         ~LessBy(orderBy, u, v), ~LessBy(orderBy, v, u)
  PROVE  \A i \in 1..n : CompareValues(u[i], v[i]) = 0
  <1> DEFINE D == {j \in 1..n : CompareValues(u[j], v[j]) # 0}
  <1>1. SUFFICES ASSUME D # {} PROVE FALSE
    OBVIOUS
  <1>2. PICK j \in D : \A l \in 1..(j - 1) : l \notin D
    <2>1. D \in SUBSET 1..n
      OBVIOUS
    <2> HIDE DEF D
    <2>2. QED
      BY <1>1, <2>1, FirstDifference, Zenon
  <1>3. j \in 1..n /\ \A l \in 1..(j - 1) : CompareValues(u[l], v[l]) = 0
    BY <1>2
  <1>4. \A l \in 1..n : IsCell(u[l]) /\ IsCell(v[l])
    BY DEF AlikeVectors
  <1>5. \A l \in 1..(j - 1) : CompareValues(v[l], u[l]) = 0
    <2>1. \A l \in 1..(j - 1) : l \in 1..n
      BY <1>3
    <2>2. QED
      BY <1>3, <1>4, <2>1, PrecedesIs
  <1>6. Precedes(orderBy[j], u[j], v[j]) \/ Precedes(orderBy[j], v[j], u[j])
    BY <1>2, <1>4, PrecedesIs
  <1> HIDE DEF D
  <1>7. QED
    BY <1>3, <1>5, <1>6, LessByIs, Zenon


-----------------------------------------------------------------------------
(* Conditions                                                              *)

\* The verdicts of the parts of c at the positions in D.
Verdicts(c, simple, D, f) ==
    f = [i \in D |-> IF c[i].op \in Groups
                        THEN Combine(c[i].op, [k \in DOMAIN c[i].conds |-> f[c[i].conds[k]]])
                        ELSE simple[i]]

LEMMA ConditionIs ==
  ASSUME NEW c, IsCondition(c)
  PROVE  /\ Len(c) \in Nat /\ DOMAIN c = 1..Len(c)
         /\ Len(c) \in 1..Len(c)
         /\ \A i \in 1..Len(c) : c[i].op \in Groups => c[i].conds \in Seq(1..(i - 1))
         /\ \A i \in 1..Len(c) : c[i].op = "is null" => c[i].negated \in BOOLEAN
  <1>1. c \in Seq(ToSet(c)) /\ c # <<>>
    BY Zenon DEF IsCondition
  <1>2. Len(c) \in Nat /\ DOMAIN c = 1..Len(c)
    BY <1>1
  <1>3. Len(c) \in 1..Len(c)
    BY <1>1
  <1>4. QED
    BY <1>2, <1>3, Zenon DEF IsCondition

LEMMA VerdictsDefined ==
  ASSUME NEW c, IsCondition(c), NEW simple
  PROVE  \E f : Verdicts(c, simple, 1..Len(c), f)
  <1> DEFINE T == {n \in Nat : n <= Len(c) => \E f : Verdicts(c, simple, 1..n, f)}
  <1>1. /\ Len(c) \in Nat /\ DOMAIN c = 1..Len(c)
        /\ \A i \in 1..Len(c) : c[i].op \in Groups => c[i].conds \in Seq(1..(i - 1))
    BY ConditionIs, Zenon
  <1>2. 0 \in T
    <2>1. Verdicts(c, simple, 1..0, <<>>)
      BY DEF Verdicts
    <2>2. QED
      BY <2>1
  <1>3. ASSUME NEW n \in Nat, n \in T PROVE n + 1 \in T
    <2>1. SUFFICES ASSUME n + 1 <= Len(c) PROVE \E f : Verdicts(c, simple, 1..(n + 1), f)
      OBVIOUS
    <2>2. PICK f : Verdicts(c, simple, 1..n, f)
      BY <1>1, <1>3, <2>1
    <2> DEFINE last == IF c[n + 1].op \in Groups
                       THEN Combine(c[n + 1].op, [k \in DOMAIN c[n + 1].conds |-> f[c[n + 1].conds[k]]])
                       ELSE simple[n + 1]
               g == [i \in 1..(n + 1) |-> IF i = n + 1 THEN last ELSE f[i]]
    <2>3. \A i \in 1..n : f[i] = IF c[i].op \in Groups
                    THEN Combine(c[i].op, [k \in DOMAIN c[i].conds |-> f[c[i].conds[k]]])
                    ELSE simple[i]
      BY <2>2, Zenon DEF Verdicts
    <2>4. \A i \in 1..n : g[i] = f[i]
      OBVIOUS
    <2>5. g[n + 1] = last
      OBVIOUS
    <2>6. g = [i \in 1..(n + 1) |-> g[i]]
      OBVIOUS
    <2> HIDE DEF g
    <2>7. ASSUME NEW i \in 1..(n + 1), c[i].op \in Groups
          PROVE  [k \in DOMAIN c[i].conds |-> g[c[i].conds[k]]]
                    = [k \in DOMAIN c[i].conds |-> f[c[i].conds[k]]]
      <3>1. \A k \in DOMAIN c[i].conds : c[i].conds[k] \in 1..(i - 1)
        BY <1>1, <2>1, <2>7
      <3>2. \A k \in DOMAIN c[i].conds : c[i].conds[k] \in 1..n
        BY <3>1
      <3>3. QED
        BY <2>4, <3>2
    <2>8. ASSUME NEW i \in 1..(n + 1)
          PROVE  g[i] = IF c[i].op \in Groups
                        THEN Combine(c[i].op, [k \in DOMAIN c[i].conds |-> g[c[i].conds[k]]])
                        ELSE simple[i]
      <3>1. CASE i = n + 1
        BY <2>5, <2>7, <3>1, Zenon
      <3>2. CASE i \in 1..n
        BY <2>3, <2>4, <2>7, <3>2, Zenon
      <3>3. QED
        BY <3>1, <3>2
    <2>9. Verdicts(c, simple, 1..(n + 1), g)
      BY <2>6, <2>8, Zenon DEF Verdicts
    <2>10. QED
      BY <2>9, Zenon
  <1> HIDE DEF T
  <1>4. Len(c) \in T
    BY <1>1, <1>2, <1>3, Induction, Zenon
  <1>5. QED
    BY <1>1, <1>4 DEF T

\* Combine is "and" and "or" where every verdict is "yes" or "no".
LEMMA CombineIs ==
  ASSUME NEW m \in Nat, NEW v, DOMAIN v = 1..m, \A k \in 1..m : v[k] \in {"yes", "no"}
  PROVE  /\ Combine("and", v) \in {"yes", "no"} /\ Combine("or", v) \in {"yes", "no"}
         /\ Combine("and", v) = "yes" <=> \A k \in 1..m : v[k] = "yes"
         /\ Combine("or", v) = "yes" <=> \E k \in 1..m : v[k] = "yes"
  <1>1. ASSUME NEW undecided \in {"yes", "no"}, NEW D, D = {k \in 1..m : v[k] # undecided}, D # {}
        PROVE  Min(D) \in 1..m /\ v[Min(D)] # undecided
    <2>1. D \in SUBSET Nat
      BY <1>1
    <2>2. Min(D) \in D
      BY <1>1, <2>1, MinIs, Zenon
    <2>3. QED
      BY <1>1, <2>2
  <1>2. Combine("and", v) = LET D == {k \in 1..m : v[k] # "yes"} IN IF D = {} THEN "yes" ELSE v[Min(D)]
    BY DEF Combine
  <1>3. Combine("or", v) = LET D == {k \in 1..m : v[k] # "no"} IN IF D = {} THEN "no" ELSE v[Min(D)]
    BY DEF Combine
  <1>4. /\ Combine("and", v) \in {"yes", "no"}
        /\ Combine("and", v) = "yes" <=> \A k \in 1..m : v[k] = "yes"
    <2> DEFINE D == {k \in 1..m : v[k] # "yes"}
    <2>1. D # {} => v[Min(D)] = "no"
      BY <1>1
    <2>2. D = {} <=> \A k \in 1..m : v[k] = "yes"
      OBVIOUS
    <2>3. Combine("and", v) = IF D = {} THEN "yes" ELSE v[Min(D)]
      BY <1>2
    <2> HIDE DEF D
    <2>4. QED
      BY <2>1, <2>2, <2>3
  <1>5. /\ Combine("or", v) \in {"yes", "no"}
        /\ Combine("or", v) = "yes" <=> \E k \in 1..m : v[k] = "yes"
    <2> DEFINE D == {k \in 1..m : v[k] # "no"}
    <2>1. D # {} => v[Min(D)] = "yes"
      BY <1>1
    <2>2. D = {} <=> ~ \E k \in 1..m : v[k] = "yes"
      OBVIOUS
    <2>3. Combine("or", v) = IF D = {} THEN "no" ELSE v[Min(D)]
      BY <1>3
    <2> HIDE DEF D
    <2>4. QED
      BY <2>1, <2>2, <2>3
  <1>6. QED
    BY <1>4, <1>5


\* The verdict of a part, from those of the parts before it.
IsVerdict(c, simple, f, i) ==
    /\ c[i].op \notin Groups => f[i] = simple[i]
    /\ (c[i].op \in Groups /\ \A j \in 1..(i - 1) : f[j] \in {"yes", "no"}) =>
            /\ f[i] \in {"yes", "no"}
            /\ c[i].op = "and" => (f[i] = "yes" <=> \A k \in DOMAIN c[i].conds : f[c[i].conds[k]] = "yes")
            /\ c[i].op = "or" => (f[i] = "yes" <=> \E k \in DOMAIN c[i].conds : f[c[i].conds[k]] = "yes")

LEMMA VerdictIs ==
  ASSUME NEW c, IsCondition(c), NEW simple, NEW f, Verdicts(c, simple, 1..Len(c), f),
         NEW i \in 1..Len(c)
  PROVE  IsVerdict(c, simple, f, i)
  <1>1. f[i] = IF c[i].op \in Groups
               THEN Combine(c[i].op, [k \in DOMAIN c[i].conds |-> f[c[i].conds[k]]])
               ELSE simple[i]
    BY Zenon DEF Verdicts
  <1>2. SUFFICES ASSUME c[i].op \in Groups, \A j \in 1..(i - 1) : f[j] \in {"yes", "no"}
                 PROVE  /\ f[i] \in {"yes", "no"}
                        /\ c[i].op = "and" => (f[i] = "yes" <=> \A k \in DOMAIN c[i].conds : f[c[i].conds[k]] = "yes")
                        /\ c[i].op = "or" => (f[i] = "yes" <=> \E k \in DOMAIN c[i].conds : f[c[i].conds[k]] = "yes")
    BY <1>1, Zenon DEF IsVerdict
  <1>3. c[i].conds \in Seq(1..(i - 1))
    BY <1>2, ConditionIs, Zenon
  <1> DEFINE m == Len(c[i].conds)
             v == [k \in DOMAIN c[i].conds |-> f[c[i].conds[k]]]
  <1>4. m \in Nat /\ DOMAIN c[i].conds = 1..m /\ \A k \in 1..m : c[i].conds[k] \in 1..(i - 1)
    BY <1>3
  <1>5. DOMAIN v = 1..m /\ \A k \in 1..m : v[k] = f[c[i].conds[k]]
    BY <1>4
  <1> HIDE DEF m, v
  <1>6. \A k \in 1..m : v[k] \in {"yes", "no"}
    BY <1>2, <1>4, <1>5
  <1>7. /\ Combine("and", v) \in {"yes", "no"} /\ Combine("or", v) \in {"yes", "no"}
        /\ Combine("and", v) = "yes" <=> \A k \in 1..m : v[k] = "yes"
        /\ Combine("or", v) = "yes" <=> \E k \in 1..m : v[k] = "yes"
    BY <1>4, <1>5, <1>6, CombineIs, Zenon
  <1>8. f[i] = Combine(c[i].op, v)
    BY <1>1, <1>2, Zenon DEF v
  <1>9. c[i].op = "and" \/ c[i].op = "or"
    BY <1>2 DEF Groups
  <1>10. "and" # "or"
    OBVIOUS
  <1>11. QED
    BY <1>4, <1>5, <1>7, <1>8, <1>9, <1>10, Zenon

\* The verdict of a condition whose simple parts have one is what "and" and "or"
\* make of them.
LEMMA EvaluateIs ==
  ASSUME NEW c, IsCondition(c), NEW simple, NEW S,
         \A i \in 1..Len(c) : c[i].op \notin Groups =>
            simple[i] \in {"yes", "no"} /\ (i \in S <=> simple[i] = "yes")
  PROVE  Evaluate(c, simple) \in {"yes", "no"} /\ (Evaluate(c, simple) = "yes" <=> IsTrue(c, S))
  <1> DEFINE n == Len(c)
  <1>1. /\ n \in Nat /\ DOMAIN c = 1..n /\ n \in 1..n
        /\ \A i \in 1..n : c[i].op \in Groups => c[i].conds \in Seq(1..(i - 1))
    BY ConditionIs, Zenon
  <1>2. PICK f : Verdicts(c, simple, 1..n, f) /\ Evaluate(c, simple) = f[n]
    <2>1. \E f : Verdicts(c, simple, 1..n, f)
      BY VerdictsDefined, Zenon
    <2>2. \E f : Verdicts(c, simple, DOMAIN c, f)
      BY <1>1, <2>1
    <2>3. \E f : Verdicts(c, simple, DOMAIN c, f) /\ Evaluate(c, simple) = f[n]
      BY <2>2, Zenon DEF Verdicts, Evaluate
    <2>4. QED
      BY <1>1, <2>3
  <1>3. \A i \in 1..n : IsVerdict(c, simple, f, i)
    BY <1>2, VerdictIs, Zenon
  <1>4. \A i \in 1..n : f[i] \in {"yes", "no"}
    <2> DEFINE D == {i \in 1..n : f[i] \notin {"yes", "no"}}
    <2>1. SUFFICES ASSUME D # {} PROVE FALSE
      OBVIOUS
    <2>2. PICK j \in D : \A l \in 1..(j - 1) : l \notin D
      <3>1. D \in SUBSET 1..n
        OBVIOUS
      <3> HIDE DEF D
      <3>2. QED
        BY <1>1, <2>1, <3>1, FirstDifference, Zenon
    <2>3. j \in 1..n /\ f[j] \notin {"yes", "no"} /\ \A l \in 1..(j - 1) : f[l] \in {"yes", "no"}
      BY <1>1, <2>2
    <2>4. QED
      BY <1>3, <2>3, Zenon DEF IsVerdict
  <1>5. ASSUME NEW i \in 1..n
        PROVE  /\ \A j \in 1..(i - 1) : j \in 1..n
               /\ c[i].op \in Groups => \A k \in DOMAIN c[i].conds : c[i].conds[k] \in 1..(i - 1)
               /\ c[i].op \notin Groups => (f[i] = "yes" <=> i \in S)
               /\ c[i].op = "and" => (f[i] = "yes" <=> \A k \in DOMAIN c[i].conds : f[c[i].conds[k]] = "yes")
               /\ c[i].op = "or" => (f[i] = "yes" <=> \E k \in DOMAIN c[i].conds : f[c[i].conds[k]] = "yes")
    <2>1. \A j \in 1..(i - 1) : j \in 1..n
      BY <1>1
    <2>2. c[i].op \in Groups => \A k \in DOMAIN c[i].conds : c[i].conds[k] \in 1..(i - 1)
      BY <1>1
    <2>3. c[i].op = "and" \/ c[i].op = "or" => c[i].op \in Groups
      BY DEF Groups
    <2>4. QED
      BY <1>3, <1>4, <2>1, <2>2, <2>3, Zenon DEF IsVerdict
  <1>6. \A T : IsTruth(c, T, S) <=>
            \A i \in 1..n : /\ c[i].op \notin Groups => (i \in T <=> i \in S)
                            /\ c[i].op = "and" => (i \in T <=> \A k \in DOMAIN c[i].conds : c[i].conds[k] \in T)
                            /\ c[i].op = "or" => (i \in T <=> \E k \in DOMAIN c[i].conds : c[i].conds[k] \in T)
    BY <1>1 DEF IsTruth, Groups
  <1> DEFINE Yes == {i \in 1..n : f[i] = "yes"}
  <1>7. IsTruth(c, Yes, S)
    <2>1. \A i \in 1..n : i \in Yes <=> f[i] = "yes"
      OBVIOUS
    <2> HIDE DEF Yes
    <2>2. ASSUME NEW i \in 1..n, c[i].op \in Groups
          PROVE  \A k \in DOMAIN c[i].conds : c[i].conds[k] \in Yes <=> f[c[i].conds[k]] = "yes"
      BY <1>5, <2>1, <2>2, Zenon
    <2>3. \A i \in 1..n : c[i].op = "and" \/ c[i].op = "or" => c[i].op \in Groups
      BY DEF Groups
    <2>4. ASSUME NEW i \in 1..n
          PROVE  /\ c[i].op \notin Groups => (i \in Yes <=> i \in S)
                 /\ c[i].op = "and" => (i \in Yes <=> \A k \in DOMAIN c[i].conds : c[i].conds[k] \in Yes)
                 /\ c[i].op = "or" => (i \in Yes <=> \E k \in DOMAIN c[i].conds : c[i].conds[k] \in Yes)
      <3>1. c[i].op \notin Groups => (i \in Yes <=> i \in S)
        BY <1>5, <2>1, Zenon
      <3>2. ASSUME c[i].op = "and"
            PROVE  i \in Yes <=> \A k \in DOMAIN c[i].conds : c[i].conds[k] \in Yes
        <4>1. f[i] = "yes" <=> \A k \in DOMAIN c[i].conds : f[c[i].conds[k]] = "yes"
          BY <1>5, <3>2, Zenon
        <4>2. \A k \in DOMAIN c[i].conds : c[i].conds[k] \in Yes <=> f[c[i].conds[k]] = "yes"
          BY <2>2, <2>3, <3>2, Zenon
        <4>3. QED
          BY <2>1, <4>1, <4>2, Zenon
      <3>3. ASSUME c[i].op = "or"
            PROVE  i \in Yes <=> \E k \in DOMAIN c[i].conds : c[i].conds[k] \in Yes
        <4>1. f[i] = "yes" <=> \E k \in DOMAIN c[i].conds : f[c[i].conds[k]] = "yes"
          BY <1>5, <3>3, Zenon
        <4>2. \A k \in DOMAIN c[i].conds : c[i].conds[k] \in Yes <=> f[c[i].conds[k]] = "yes"
          BY <2>2, <2>3, <3>3, Zenon
        <4>3. QED
          BY <2>1, <4>1, <4>2, Zenon
      <3>4. QED
        BY <3>1, <3>2, <3>3, Zenon
    <2>5. QED
      BY <1>6, <2>4, Zenon
  <1>8. ASSUME NEW T, IsTruth(c, T, S) PROVE \A i \in 1..n : i \in T <=> f[i] = "yes"
    <2> DEFINE D == {i \in 1..n : ~ (i \in T <=> f[i] = "yes")}
    <2>1. SUFFICES ASSUME D # {} PROVE FALSE
      OBVIOUS
    <2>2. PICK j \in D : \A l \in 1..(j - 1) : l \notin D
      <3>1. D \in SUBSET 1..n
        OBVIOUS
      <3> HIDE DEF D
      <3>2. QED
        BY <1>1, <2>1, <3>1, FirstDifference, Zenon
    <2>3. /\ j \in 1..n /\ ~ (j \in T <=> f[j] = "yes")
          /\ \A l \in 1..(j - 1) : l \in T <=> f[l] = "yes"
      BY <1>1, <2>2
    <2> HIDE DEF D
    <2>4. c[j].op \notin Groups \/ c[j].op = "and" \/ c[j].op = "or"
      BY DEF Groups
    <2>5. c[j].op = "and" \/ c[j].op = "or" => c[j].op \in Groups
      BY DEF Groups
    <2>6. CASE c[j].op \notin Groups
      BY <1>5, <1>6, <1>8, <2>3, <2>6, Zenon
    <2>7. CASE c[j].op = "and"
      <3>1. j \in T <=> \A k \in DOMAIN c[j].conds : c[j].conds[k] \in T
        BY <1>6, <1>8, <2>3, <2>7, Zenon
      <3>2. f[j] = "yes" <=> \A k \in DOMAIN c[j].conds : f[c[j].conds[k]] = "yes"
        BY <1>5, <2>3, <2>7, Zenon
      <3>3. \A k \in DOMAIN c[j].conds : c[j].conds[k] \in 1..(j - 1)
        BY <1>5, <2>3, <2>5, <2>7, Zenon
      <3>4. QED
        BY <2>3, <3>1, <3>2, <3>3, Zenon
    <2>8. CASE c[j].op = "or"
      <3>1. j \in T <=> \E k \in DOMAIN c[j].conds : c[j].conds[k] \in T
        BY <1>6, <1>8, <2>3, <2>8, Zenon
      <3>2. f[j] = "yes" <=> \E k \in DOMAIN c[j].conds : f[c[j].conds[k]] = "yes"
        BY <1>5, <2>3, <2>8, Zenon
      <3>3. \A k \in DOMAIN c[j].conds : c[j].conds[k] \in 1..(j - 1)
        BY <1>5, <2>3, <2>5, <2>8, Zenon
      <3>4. QED
        BY <2>3, <3>1, <3>2, <3>3, Zenon
    <2>9. QED
      BY <2>4, <2>6, <2>7, <2>8
  <1>9. f[n] = "yes" <=> IsTrue(c, S)
    <2>1. Yes \in SUBSET DOMAIN c /\ (f[n] = "yes" => n \in Yes)
      BY <1>1
    <2> HIDE DEF Yes
    <2>2. QED
      BY <1>1, <1>7, <1>8, <2>1, Zenon DEF IsTrue
  <1>10. QED
    BY <1>1, <1>2, <1>4, <1>9


\* What WHERE may be made of.
WhereKinds == Comparisons \cup {"in", "not in", "is null", "admits"}

LEMMA SimpleIs ==
  ASSUME NEW p, NEW row, p.op \in WhereKinds, p.op = "is null" => p.negated \in BOOLEAN
  PROVE  /\ EvaluateSimple(p, row) \in {"yes", "no"}
         /\ EvaluateSimple(p, row) = "yes" <=> Says(p, row)
  <1> DEFINE left == Resolve(p.left, row)
  <1>1. CASE p.op \in Comparisons
    <2>1. /\ p.op # "in" /\ p.op # "not in" /\ p.op # "is null" /\ p.op # "admits"
      BY <1>1 DEF Comparisons
    <2> DEFINE b == Related(p.op, CompareValues(left, Resolve(p.right, row)))
    <2>2. EvaluateSimple(p, row) = Verdict(b)
      BY <1>1, <2>1 DEF EvaluateSimple
    <2>3. Says(p, row) <=> b
      BY <1>1, <2>1 DEF Says
    <2> HIDE DEF b
    <2>4. QED
      BY <2>2, <2>3 DEF Verdict
  <1>2. CASE p.op = "in"
    <2>1. p.op \notin Comparisons
      BY <1>2 DEF Comparisons
    <2>2. EvaluateSimple(p, row) = EvaluateIn(p, left)
      BY <1>2, <2>1 DEF EvaluateSimple
    <2>3. Says(p, row) <=>
            left # Nil /\ \E i \in DOMAIN p.items : p.items[i] # Nil /\ CompareValues(left, p.items[i]) = 0
      BY <1>2, <2>1 DEF Says
    <2> HIDE DEF left
    <2>4. QED
      BY <1>2, <2>2, <2>3 DEF Verdict, EvaluateIn
  <1>3. CASE p.op = "not in"
    <2>1. p.op \notin Comparisons
      BY <1>3 DEF Comparisons
    <2>2. EvaluateSimple(p, row) = EvaluateIn(p, left)
      BY <1>3, <2>1 DEF EvaluateSimple
    <2>3. Says(p, row) <=>
            left # Nil /\ ~ \E i \in DOMAIN p.items : p.items[i] # Nil /\ CompareValues(left, p.items[i]) = 0
      BY <1>3, <2>1 DEF Says
    <2> HIDE DEF left
    <2>4. QED
      BY <1>3, <2>2, <2>3 DEF Verdict, EvaluateIn
  <1>4. CASE p.op = "is null"
    <2>1. p.op \notin Comparisons
      BY <1>4 DEF Comparisons
    <2>2. EvaluateSimple(p, row) = Verdict((left = Nil) # p.negated)
      BY <1>4, <2>1 DEF EvaluateSimple
    <2>3. Says(p, row) <=> ((left = Nil) <=> ~p.negated)
      BY <1>4, <2>1 DEF Says
    <2>4. p.negated \in BOOLEAN
      BY <1>4
    <2> HIDE DEF left
    <2>5. QED
      BY <2>2, <2>3, <2>4, Zenon DEF Verdict
  <1>5. CASE p.op = "admits"
    <2>1. p.op \notin Comparisons
      BY <1>5 DEF Comparisons
    <2>2. EvaluateSimple(p, row) = Verdict(row.key \in p.keys)
      BY <1>5, <2>1 DEF EvaluateSimple
    <2>3. Says(p, row) <=> row.key \in p.keys
      BY <1>5, <2>1 DEF Says
    <2>4. QED
      BY <2>2, <2>3 DEF Verdict
  <1>6. QED
    BY <1>1, <1>2, <1>3, <1>4, <1>5 DEF WhereKinds

\* A condition of these kinds never fails, and holds of a row when it is true of it.
LEMMA WhereIs ==
  ASSUME NEW c, IsCondition(c), Supported(c, WhereKinds), NEW row
  PROVE  /\ EvaluateCondition(c, row) \in {"yes", "no"}
         /\ EvaluateCondition(c, row) = "yes" <=> IsTrue(c, {i \in DOMAIN c : Says(c[i], row)})
  <1> DEFINE simple == [i \in DOMAIN c |-> EvaluateSimple(c[i], row)]
             S == {i \in DOMAIN c : Says(c[i], row)}
  <1>1. /\ DOMAIN c = 1..Len(c)
        /\ \A i \in 1..Len(c) : c[i].op = "is null" => c[i].negated \in BOOLEAN
    BY ConditionIs, Zenon
  <1>2. \A i \in 1..Len(c) : simple[i] = EvaluateSimple(c[i], row) /\ (i \in S <=> Says(c[i], row))
    BY <1>1
  <1>3. \A i \in 1..Len(c) : c[i].op \notin Groups => c[i].op \in WhereKinds
    BY <1>1 DEF Supported
  <1>4. EvaluateCondition(c, row) = Evaluate(c, simple)
    BY DEF EvaluateCondition
  <1> HIDE DEF simple, S
  <1>5. \A i \in 1..Len(c) : c[i].op \notin Groups =>
            simple[i] \in {"yes", "no"} /\ (i \in S <=> simple[i] = "yes")
    BY <1>1, <1>2, <1>3, SimpleIs, Zenon
  <1>6. Evaluate(c, simple) \in {"yes", "no"} /\ (Evaluate(c, simple) = "yes" <=> IsTrue(c, S))
    BY <1>5, EvaluateIs, Zenon
  <1>7. QED
    BY <1>4, <1>6 DEF S


-----------------------------------------------------------------------------
(* Reading                                                                 *)

LEMMA TableIs ==
  ASSUME NEW t \in Tables
  PROVE  /\ t.kind \in {"map", "single", "list", "none"}
         /\ t.rows \in Seq(ToSet(t.rows)) /\ Len(t.rows) \in Nat /\ DOMAIN t.rows = 1..Len(t.rows)
         /\ \A r \in ToSet(t.rows) : IsRow(r)
         /\ \A r \in ToSet(t.rows) : \E i \in 1..Len(t.rows) : t.rows[i] = r
         /\ \A i \in 1..Len(t.rows) : t.rows[i] \in ToSet(t.rows)
         /\ t.kind \in {"map", "single"} => HasUniqueKeys(t)
  <1>1. /\ t.kind \in {"map", "single", "list", "none"}
        /\ t.rows \in Seq(ToSet(t.rows)) /\ \A r \in ToSet(t.rows) : IsRow(r)
        /\ t.kind \in {"map", "single"} => HasUniqueKeys(t)
    BY TablesAssumption, Zenon
  <1>2. Len(t.rows) \in Nat /\ DOMAIN t.rows = 1..Len(t.rows)
    BY <1>1
  <1>3. /\ \A r \in ToSet(t.rows) : \E i \in 1..Len(t.rows) : t.rows[i] = r
        /\ \A i \in 1..Len(t.rows) : t.rows[i] \in ToSet(t.rows)
    BY <1>2 DEF ToSet
  <1>4. QED
    BY <1>1, <1>2, <1>3

\* No two records of a table that can be read have the same key.
LEMMA KeysDiffer ==
  ASSUME NEW t \in Tables, ~ReadFails(t), t.kind # "none"
  PROVE  \A i, j \in 1..Len(t.rows) : t.rows[i].key = t.rows[j].key => i = j
  <1>1. t.kind \in {"map", "single", "list", "none"} /\ DOMAIN t.rows = 1..Len(t.rows)
    BY TableIs, Zenon
  <1>2. CASE t.kind \in {"map", "single"}
    <2>1. HasUniqueKeys(t)
      BY <1>2, TableIs, Zenon
    <2>2. QED
      BY <1>1, <2>1 DEF HasUniqueKeys
  <1>3. CASE t.kind = "list"
    <2> DEFINE f == [i \in DOMAIN t.rows |-> t.rows[i].key]
    <2>1. IsInjective(f)
      BY <1>3 DEF ReadFails
    <2>2. DOMAIN f = 1..Len(t.rows) /\ \A i \in 1..Len(t.rows) : f[i] = t.rows[i].key
      BY <1>1
    <2> HIDE DEF f
    <2>3. QED
      BY <2>1, <2>2 DEF IsInjective
  <1>4. QED
    BY <1>1, <1>2, <1>3

LEMMA RowsWithOneKey ==
  ASSUME NEW t \in Tables, ~ReadFails(t), t.kind # "none",
         NEW r \in ToSet(t.rows), NEW s \in ToSet(t.rows), r.key = s.key
  PROVE  r = s
  <1>1. PICK i \in 1..Len(t.rows) : t.rows[i] = r
    BY TableIs, Zenon
  <1>2. PICK j \in 1..Len(t.rows) : t.rows[j] = s
    BY TableIs, Zenon
  <1>3. i = j
    BY <1>1, <1>2, KeysDiffer, Zenon
  <1>4. QED
    BY <1>1, <1>2, <1>3

\* Every read lists the records of the table, each once, and only the iteration of
\* a map leaves a choice.
LEMMA ReadOrdersIs ==
  ASSUME NEW t \in Tables, ~ReadFails(t), t.kind # "none"
  PROVE  /\ \A o \in ReadOrders(t) : Enumerates(o, ToSet(t.rows))
         /\ ReadOrders(t) # {}
         /\ t.kind # "map" => \A o, p \in ReadOrders(t) : o = p
  <1> DEFINE R == ToSet(t.rows)
             named == {p \in R \X R : CompareValues(p[1].key, p[2].key) < 0}
  <1>1. /\ t.kind \in {"map", "single", "list"} /\ t.rows \in Seq(R)
        /\ \A x \in R : \E k \in 1..Len(t.rows) : t.rows[k] = x
    BY TableIs
  <1>2. \A i, j \in 1..Len(t.rows) : t.rows[i] = t.rows[j] => i = j
    BY KeysDiffer, Zenon
  <1>3. Enumerates(t.rows, R)
    BY <1>1, <1>2, Zenon DEF Enumerates
  <1>4. CASE t.kind = "map"
    <2>1. ReadOrders(t) = SetToSeqs(R)
      BY <1>4 DEF ReadOrders
    <2> HIDE DEF R
    <2>2. t.rows \in SetToSeqs(R) /\ \A p \in SetToSeqs(R) : Enumerates(p, R)
      BY <1>3, SetToSeqsEnumerates, Zenon
    <2>3. QED
      BY <1>4, <2>1, <2>2 DEF R
  <1>5. CASE t.kind = "single"
    <2>1. ReadOrders(t) = {SliceStable(t.rows, named)}
      BY <1>5 DEF ReadOrders
    <2> HIDE DEF R, named
    <2>2. Enumerates(SliceStable(t.rows, named), R)
      BY <1>3, SliceStableEnumerates, Zenon
    <2>3. QED
      BY <2>1, <2>2 DEF R
  <1>6. CASE t.kind = "list"
    <2>1. ReadOrders(t) = {t.rows}
      BY <1>6 DEF ReadOrders
    <2> HIDE DEF R, named
    <2>2. QED
      BY <1>3, <2>1 DEF R
  <1>7. QED
    BY <1>1, <1>4, <1>5, <1>6

\* Where the records are read in one order only, Position is their place in it.
LEMMA PositionIs ==
  ASSUME table \in Tables, ~ReadFails(table), table.kind # "none"
  PROVE  /\ \A r \in ToSet(table.rows) : Position(r) \in Nat
         /\ \A r, s \in ToSet(table.rows) : Position(r) = Position(s) => r = s
         /\ table.kind # "map" =>
                \A o \in ReadOrders(table) : \A i \in 1..Len(o) : Position(o[i]) = i
  <1> DEFINE R == ToSet(table.rows)
             read == CHOOSE o \in ReadOrders(table) : TRUE
  <1>1. /\ \A o \in ReadOrders(table) : Enumerates(o, R)
        /\ ReadOrders(table) # {}
        /\ table.kind # "map" => \A o, p \in ReadOrders(table) : o = p
    BY ReadOrdersIs, Zenon
  <1>2. read \in ReadOrders(table)
    BY <1>1
  <1>3. \A r : Position(r) = CHOOSE i \in DOMAIN read : read[i] = r
    BY Zenon DEF Position
  <1> HIDE DEF R, read
  <1>4. /\ read \in Seq(R) /\ DOMAIN read = 1..Len(read) /\ Len(read) \in Nat
        /\ \A k, l \in 1..Len(read) : read[k] = read[l] => k = l
        /\ \A x \in R : \E k \in 1..Len(read) : read[k] = x
    <2>1. Enumerates(read, R)
      BY <1>1, <1>2, Zenon
    <2>2. read \in Seq(R)
      BY <2>1, Zenon DEF Enumerates
    <2>3. DOMAIN read = 1..Len(read) /\ Len(read) \in Nat
      BY <2>2
    <2>4. QED
      BY <2>1, <2>2, <2>3, Zenon DEF Enumerates
  <1>5. \A r \in R : Position(r) \in 1..Len(read) /\ read[Position(r)] = r
    BY <1>3, <1>4, Zenon
  <1>6. ASSUME NEW o \in ReadOrders(table), table.kind # "map", NEW i \in 1..Len(o)
        PROVE  Position(o[i]) = i
    <2>1. o = read /\ read[i] \in R
      BY <1>1, <1>2, <1>4, <1>6
    <2>2. Position(read[i]) \in 1..Len(read) /\ read[Position(read[i])] = read[i]
      BY <1>5, <2>1
    <2>3. QED
      BY <1>4, <2>1, <2>2, Zenon
  <1>7. \A r \in R : Position(r) \in Nat
    BY <1>4, <1>5
  <1>8. \A r, s \in R : Position(r) = Position(s) => r = s
    BY <1>5, Zenon
  <1>9. QED
    BY <1>6, <1>7, <1>8 DEF R


-----------------------------------------------------------------------------
(* The rows of the answer                                                  *)

LEMMA FieldValueIsCell ==
  ASSUME NEW r, IsRow(r), NEW name
  PROVE  IsCell(FieldValue(name, r))
  <1>1. FieldValue(name, r) = IF name = "$id" THEN r.key ELSE FieldOf(r.data, name)
    BY DEF FieldValue, Resolve
  <1>2. IsValue(r.key) /\ \A f \in DOMAIN r.data : IsValue(r.data[f])
    BY Zenon DEF IsRow
  <1>3. IsValue(Nil)
    BY DEF IsValue
  <1>4. IsValue(FieldValue(name, r))
    BY <1>1, <1>2, <1>3 DEF FieldOf
  <1>5. QED
    BY <1>4, ValueIsCell, Zenon

LEMMA FieldValuesAlike ==
  ASSUME NEW name, Comparable(ValuesOf(name)), NEW r \in ToSet(table.rows), NEW s \in ToSet(table.rows)
  PROVE  Alike(FieldValue(name, r), FieldValue(name, s))
  BY DEF Comparable, ValuesOf, Alike

LEMMA OrderByIs ==
  ASSUME query \in Queries
  PROVE  /\ Len(query.orderBy) \in Nat /\ DOMAIN query.orderBy = 1..Len(query.orderBy)
         /\ \A i \in 1..Len(query.orderBy) : query.orderBy[i].name \in OrderNames
         /\ IsCondition(query.where) /\ query.limit \in Int
  <1>1. /\ query.orderBy \in Seq([name : STRING, desc : BOOLEAN])
        /\ IsCondition(query.where) /\ query.limit \in Int
    BY QueriesAssumption, Zenon
  <1>2. Len(query.orderBy) \in Nat /\ DOMAIN query.orderBy = 1..Len(query.orderBy)
    BY <1>1
  <1>3. QED
    BY <1>1, <1>2 DEF OrderNames

LEMMA OrderValuesAlike ==
  ASSUME table \in Tables, query \in Queries, \A name \in OrderNames : Comparable(ValuesOf(name)),
         NEW r \in ToSet(table.rows), NEW s \in ToSet(table.rows)
  PROVE  AlikeVectors(Len(query.orderBy), OrderValues(query.orderBy, r), OrderValues(query.orderBy, s))
  <1>1. IsRow(r) /\ IsRow(s)
    BY TableIs, Zenon
  <1> DEFINE n == Len(query.orderBy)
             u == OrderValues(query.orderBy, r)
             v == OrderValues(query.orderBy, s)
  <1>2. /\ DOMAIN query.orderBy = 1..n
        /\ \A i \in 1..n : query.orderBy[i].name \in OrderNames
    BY OrderByIs, Zenon
  <1>3. \A i \in 1..n : /\ u[i] = FieldValue(query.orderBy[i].name, r)
                        /\ v[i] = FieldValue(query.orderBy[i].name, s)
    BY <1>2 DEF OrderValues
  <1> HIDE DEF n, u, v
  <1>4. ASSUME NEW i \in 1..n PROVE IsCell(u[i]) /\ IsCell(v[i]) /\ Alike(u[i], v[i])
    <2>1. Comparable(ValuesOf(query.orderBy[i].name))
      BY <1>2
    <2>2. QED
      BY <1>1, <1>3, <2>1, FieldValueIsCell, FieldValuesAlike
  <1>5. AlikeVectors(n, u, v)
    BY <1>4, Zenon DEF AlikeVectors
  <1>6. QED
    BY <1>5 DEF n, u, v

\* The declared order is an order of the rows, whose ties the reading breaks.
LEMMA RowsWeaklyOrdered ==
  ASSUME table \in Tables, query \in Queries, \A name \in OrderNames : Comparable(ValuesOf(name)),
         NEW S \in SUBSET ToSet(table.rows)
  PROVE  IsWeakOrder(S, {p \in S \X S : RowLess(query.orderBy, p[1], p[2])})
  <1> DEFINE L == {p \in S \X S : RowLess(query.orderBy, p[1], p[2])}
             n == Len(query.orderBy)
             val(r) == OrderValues(query.orderBy, r)
  <1>1. \A a, b \in S : <<a, b>> \in L <=> LessBy(query.orderBy, val(a), val(b))
    BY DEF RowLess
  <1>2. n \in Nat /\ DOMAIN query.orderBy = 1..n
    BY OrderByIs, Zenon
  <1>3. \A a, b \in S : AlikeVectors(n, val(a), val(b))
    BY OrderValuesAlike
  <1> HIDE DEF L, n, val
  <1>4. \A a, b \in S : <<a, b>> \in L => <<b, a>> \notin L
    BY <1>1, <1>2, <1>3, LessByAsymmetric, Zenon
  <1>5. \A a, b, c \in S : <<a, b>> \in L => <<a, c>> \in L \/ <<c, b>> \in L
    <2>1. ASSUME NEW a \in S, NEW b \in S, NEW c \in S, <<a, b>> \in L
          PROVE  <<a, c>> \in L \/ <<c, b>> \in L
      <3>1. LessBy(query.orderBy, val(a), val(b))
        BY <1>1, <2>1, Zenon
      <3>2. AlikeVectors(n, val(a), val(b)) /\ AlikeVectors(n, val(a), val(c)) /\ AlikeVectors(n, val(c), val(b))
        BY <1>3, Zenon
      <3>3. LessBy(query.orderBy, val(a), val(c)) \/ LessBy(query.orderBy, val(c), val(b))
        BY <1>2, <3>1, <3>2, LessByBetween, Zenon
      <3>4. QED
        BY <1>1, <3>3, Zenon
    <2>2. QED
      BY <2>1, Zenon
  <1>6. IsWeakOrder(S, L)
    BY <1>4, <1>5, Zenon DEF IsWeakOrder
  <1>7. QED
    BY <1>6 DEF L

\* Rows that are ordered by the key, too, do not tie.
LEMMA KeysOrder ==
  ASSUME table \in Tables, query \in Queries, \A name \in OrderNames : Comparable(ValuesOf(name)),
         ~ReadFails(table), table.kind # "none", "$id" \in OrderNames,
         NEW r \in ToSet(table.rows), NEW s \in ToSet(table.rows), r # s
  PROVE  RowLess(query.orderBy, r, s) \/ RowLess(query.orderBy, s, r)
  <1> DEFINE n == Len(query.orderBy)
             u == OrderValues(query.orderBy, r)
             v == OrderValues(query.orderBy, s)
  <1>1. SUFFICES ASSUME ~LessBy(query.orderBy, u, v), ~LessBy(query.orderBy, v, u) PROVE FALSE
    BY DEF RowLess
  <1>2. n \in Nat /\ DOMAIN query.orderBy = 1..n
    BY OrderByIs, Zenon
  <1>3. AlikeVectors(n, u, v)
    BY OrderValuesAlike
  <1>4. PICK i \in 1..n : query.orderBy[i].name = "$id"
    BY <1>2 DEF OrderNames
  <1>5. u[i] = r.key /\ v[i] = s.key
    BY <1>2, <1>4 DEF OrderValues, FieldValue, Resolve
  <1> HIDE DEF n, u, v
  <1>6. CompareValues(u[i], v[i]) = 0
    BY <1>1, <1>2, <1>3, LessByTies, Zenon
  <1>7. IsRow(r) /\ IsRow(s)
    BY TableIs, Zenon
  <1>8. ASSUME NEW x, IsRow(x)
        PROVE  x.key.text \in Int /\ x.key = [type |-> "string", num |-> 0, text |-> x.key.text]
    <2>1. IsValue(x.key) /\ x.key.type = "string"
      BY <1>8, Zenon DEF IsRow
    <2>2. x.key # Nil /\ \A t \in {"int", "float64"} : x.key # Number(t, x.key.num)
      BY <2>1 DEF Nil, Number
    <2>3. IsScalar(x.key)
      BY <2>1 DEF IsScalar
    <2>4. QED
      BY <2>1, <2>2, <2>3 DEF IsValue
  <1>9. /\ r.key.text \in Int /\ r.key = [type |-> "string", num |-> 0, text |-> r.key.text]
        /\ s.key.text \in Int /\ s.key = [type |-> "string", num |-> 0, text |-> s.key.text]
    BY <1>7, <1>8
  <1>10. CompareValues(r.key, s.key) = Sign(r.key.text - s.key.text)
    <2>1. ~IsNumber(r.key)
      BY <1>9 DEF IsNumber
    <2>2. QED
      BY <2>1, Zenon DEF CompareValues
  <1>11. r.key.text = s.key.text
    BY <1>5, <1>6, <1>9, <1>10 DEF Sign
  <1>12. r.key = s.key
    BY <1>9, <1>11, Zenon
  <1>13. QED
    BY <1>12, RowsWithOneKey, Zenon


\* No row fails, and those that WHERE keeps are the rows owed.
LEMMA WhereKeepsTheRows ==
  ASSUME query \in Queries, Supported(query.where, WhereKinds),
         NEW o, NEW R, R = ToSet(table.rows), Enumerates(o, R)
  PROVE  /\ \A r \in ToSet(o) : EvaluateCondition(query.where, r) # "error"
         /\ ApplyWhere(query, o) = Kept(o, TheRows)
         /\ TheRows \in SUBSET R
  <1>1. IsCondition(query.where)
    BY OrderByIs, Zenon
  <1>2. \A r : /\ EvaluateCondition(query.where, r) # "error"
               /\ EvaluateCondition(query.where, r) = "yes" <=>
                    IsTrue(query.where, {i \in DOMAIN query.where : Says(query.where[i], r)})
    <2>1. \A r : /\ EvaluateCondition(query.where, r) \in {"yes", "no"}
                 /\ EvaluateCondition(query.where, r) = "yes" <=>
                      IsTrue(query.where, {i \in DOMAIN query.where : Says(query.where[i], r)})
      BY <1>1, WhereIs, Zenon
    <2>2. QED
      BY <2>1
  <1>3. ToSet(o) = R
    <2>1. o \in Seq(R) /\ \A x \in R : \E k \in 1..Len(o) : o[k] = x
      BY Zenon DEF Enumerates
    <2>2. DOMAIN o = 1..Len(o) /\ \A k \in 1..Len(o) : o[k] \in R
      BY <2>1
    <2>3. QED
      BY <2>1, <2>2 DEF ToSet
  <1>4. {r \in R : EvaluateCondition(query.where, r) = "yes"} = TheRows
    BY <1>2 DEF TheRows
  <1>5. QED
    BY <1>2, <1>3, <1>4 DEF ApplyWhere

\* An executable query over a table at hand.
Executes ==
    /\ table \in Tables /\ query \in Queries
    /\ ~ReadFails(table) /\ table.kind # "none"
    /\ Supported(query.where, WhereKinds)

TheRanking == Ranked(TheRows, {p \in TheRows \X TheRows : RowBefore(p[1], p[2])})

\* Whatever order the records are read in, the sorted rows are the ranking.
LEMMA SortedIsTheRanking ==
  ASSUME Executes, RowsSettled, NEW o \in ReadOrders(table)
  PROVE  /\ TheRanking \in Seq(TheRows)
         /\ ApplyOrderBy(query.orderBy, ApplyWhere(query, o)) = TheRanking
  <1> DEFINE R == ToSet(table.rows)
             S == TheRows
             list == Kept(o, S)
             L == {p \in S \X S : RowLess(query.orderBy, p[1], p[2])}
             place == [r \in S |-> Position(r)]
  <1>1. /\ table \in Tables /\ query \in Queries /\ ~ReadFails(table) /\ table.kind # "none"
        /\ Supported(query.where, WhereKinds)
    BY Zenon DEF Executes
  <1>2. /\ \A name \in OrderNames : Comparable(ValuesOf(name))
        /\ table.kind = "map" => "$id" \in OrderNames
    BY Zenon DEF RowsSettled
  <1>3. Enumerates(o, R)
    BY <1>1, ReadOrdersIs, Zenon
  <1>4. ApplyWhere(query, o) = list /\ S \in SUBSET R
    BY <1>1, <1>3, WhereKeepsTheRows, Zenon
  <1>5. IsWeakOrder(S, L)
    BY <1>1, <1>2, <1>4, RowsWeaklyOrdered, Zenon
  <1>6. /\ Enumerates(list, S)
        /\ \A i, j \in 1..Len(o), k, l \in 1..Len(list) :
                k < l /\ list[k] = o[i] /\ list[l] = o[j] => i < j
    BY <1>3, <1>4, KeptEnumerates, Zenon
  <1>7. place \in [S -> Int]
    <2>1. \A r \in R : Position(r) \in Nat
      BY <1>1, PositionIs, Zenon
    <2>2. QED
      BY <1>4, <2>1
  <1>8. \A r \in S : place[r] = Position(r)
    OBVIOUS
  <1>9. \A p \in S \X S : p \in L <=> RowLess(query.orderBy, p[1], p[2])
    OBVIOUS
  <1>10. {p \in S \X S : RowBefore(p[1], p[2])} = TiesBy(S, L, place)
    <2> HIDE DEF S, L, place
    <2>1. \A r, s \in S : RowBefore(r, s) <=>
            <<r, s>> \in L \/ (<<s, r>> \notin L /\ place[r] < place[s])
      BY <1>8, <1>9 DEF RowBefore
    <2>2. QED
      BY <2>1 DEF TiesBy
  <1> HIDE DEF list, place, L, S, R
  <1>11. list \in Seq(S) /\ \A x \in S : \E k \in 1..Len(list) : list[k] = x
    BY <1>6, Zenon DEF Enumerates
  <1>12. ToSet(list) = S
    <2>1. DOMAIN list = 1..Len(list) /\ \A k \in 1..Len(list) : list[k] \in S
      BY <1>11
    <2>2. QED
      BY <1>11, <2>1 DEF ToSet
  <1>13. ASSUME NEW i \in 1..Len(list), NEW j \in 1..Len(list), i < j
         PROVE  \/ <<list[i], list[j]>> \in L
                \/ <<list[j], list[i]>> \in L
                \/ place[list[i]] < place[list[j]]
    <2>1. /\ list[i] \in S /\ list[j] \in S /\ list[i] \in R /\ list[j] \in R
      BY <1>4, <1>11
    <2>2. list[i] # list[j]
      BY <1>6, <1>13 DEF Enumerates
    <2>3. CASE table.kind = "map"
      <3>1. RowLess(query.orderBy, list[i], list[j]) \/ RowLess(query.orderBy, list[j], list[i])
        BY <1>1, <1>2, <2>1, <2>2, <2>3, KeysOrder DEF R
      <3>2. QED
        BY <1>9, <2>1, <3>1
    <2>4. CASE table.kind # "map"
      <3>1. PICK k \in 1..Len(o) : o[k] = list[i]
        BY <1>3, <2>1, Zenon DEF Enumerates
      <3>2. PICK l \in 1..Len(o) : o[l] = list[j]
        BY <1>3, <2>1, Zenon DEF Enumerates
      <3>3. k < l
        BY <1>6, <1>13, <3>1, <3>2
      <3>4. Position(o[k]) = k /\ Position(o[l]) = l
        BY <1>1, <2>4, PositionIs, Zenon
      <3>5. QED
        BY <1>8, <2>1, <3>1, <3>2, <3>3, <3>4
    <2>5. QED
      BY <2>3, <2>4
  <1>14. SliceStable(list, L) \in Seq(S) /\ SliceStable(list, L) = Ranked(S, TiesBy(S, L, place))
    BY <1>5, <1>7, <1>11, <1>13, StableRanks, Zenon
  <1>15. ApplyOrderBy(query.orderBy, list) = SliceStable(list, L)
    BY <1>12, Zenon DEF ApplyOrderBy, L
  <1>16. QED
    BY <1>4, <1>10, <1>14, <1>15 DEF TheRanking, S


-----------------------------------------------------------------------------
(* Paging                                                                  *)

\* The first k elements of s, as the function F shows them.
Shown(F, s, k) == [i \in 1..k |-> F[s[i]]]

LEMMA PageIs ==
  ASSUME NEW E, NEW s \in Seq(E), NEW k \in 0..Len(s), NEW limit \in Int
  PROVE  \E m \in k..Len(s) :
            /\ Page(s, k, limit) \in Seq(E) /\ Len(Page(s, k, limit)) = m - k
            /\ \A i \in 1..(m - k) : Page(s, k, limit)[i] = s[k + i]
            /\ m = k => k = Len(s)
  <1> DEFINE n == Len(s)
             rest == SubSeq(s, k + 1, n)
  <1>1. n \in Nat /\ k \in Nat /\ k <= n
    OBVIOUS
  <1>2. rest \in Seq(E) /\ Len(rest) = n - k /\ \A i \in 1..(n - k) : rest[i] = s[k + i]
    BY <1>1
  <1> HIDE DEF rest, n
  <1>3. Page(s, k, limit) = IF limit > 0 /\ Len(rest) > limit THEN SubSeq(rest, 1, limit) ELSE rest
    BY DEF Page, rest, n
  <1>4. CASE limit > 0 /\ Len(rest) > limit
    <2>1. k + limit \in k..n /\ (k + limit) - k = limit /\ k + limit # k /\ limit \in Nat
      BY <1>1, <1>2, <1>4
    <2> DEFINE page == SubSeq(rest, 1, limit)
    <2>2. page \in Seq(E) /\ Len(page) = limit /\ \A i \in 1..limit : page[i] = rest[i]
      BY <1>2, <1>4
    <2>3. \A i \in 1..limit : i \in 1..(n - k)
      BY <1>1, <1>2, <1>4
    <2>4. Page(s, k, limit) = page
      BY <1>3, <1>4
    <2> HIDE DEF page
    <2>5. QED
      BY <1>2, <2>1, <2>2, <2>3, <2>4 DEF n
  <1>5. CASE ~ (limit > 0 /\ Len(rest) > limit)
    <2>1. Page(s, k, limit) = rest
      BY <1>3, <1>5
    <2>2. n \in k..n /\ (n = k => k = n)
      BY <1>1
    <2>3. QED
      BY <1>2, <2>1, <2>2 DEF n
  <1>6. QED
    BY <1>4, <1>5

\* A page moves the answer on, and an empty one comes at its end only.
MovesOn(F, s, k, rows) ==
    /\ \E m \in k..Len(s) : Shown(F, s, k) \o rows = Shown(F, s, m)
    /\ rows = <<>> => k = Len(s)
    /\ Len(Shown(F, s, k)) = k

LEMMA NextPage ==
  ASSUME NEW E, NEW s \in Seq(E), NEW F, NEW k \in 0..Len(s), NEW limit \in Int
  PROVE  MovesOn(F, s, k, Image(F, Page(s, k, limit)))
  <1> DEFINE page == Page(s, k, limit)
             rows == Image(F, page)
  <1>1. PICK m \in k..Len(s) : /\ page \in Seq(E) /\ Len(page) = m - k
                               /\ \A i \in 1..(m - k) : page[i] = s[k + i]
                               /\ m = k => k = Len(s)
    BY PageIs
  <1> HIDE DEF page, rows
  <1>2. m \in Nat /\ k \in Nat /\ k <= m /\ m - k \in Nat /\ DOMAIN page = 1..(m - k)
    BY <1>1
  <1>3. rows = [i \in 1..(m - k) |-> F[s[k + i]]]
    BY <1>1, <1>2 DEF rows, Image
  <1> DEFINE V == {F[s[i]] : i \in 1..m}
  <1>4. rows \in Seq(V) /\ Len(rows) = m - k /\ \A i \in 1..(m - k) : rows[i] = F[s[k + i]]
    <2>1. \A i \in 1..(m - k) : k + i \in 1..m
      BY <1>2
    <2>2. \A i \in 1..(m - k) : F[s[k + i]] \in V
      BY <2>1
    <2> HIDE DEF V
    <2>3. rows \in [1..(m - k) -> V]
      BY <1>3, <2>2
    <2>4. \A i \in 1..(m - k) : rows[i] = F[s[k + i]]
      BY <1>3
    <2> DEFINE l == m - k
    <2>5. l \in Nat /\ rows \in [1..l -> V]
      BY <1>2, <2>3
    <2> HIDE DEF l
    <2>6. rows \in Seq(V) /\ Len(rows) = l
      BY <2>5
    <2>7. QED
      BY <2>4, <2>6 DEF l
  <1>5. /\ Shown(F, s, k) \in Seq(V) /\ Len(Shown(F, s, k)) = k
        /\ \A i \in 1..k : Shown(F, s, k)[i] = F[s[i]]
    <2>1. \A i \in 1..k : F[s[i]] \in V
      BY <1>2
    <2> HIDE DEF V
    <2>2. Shown(F, s, k) \in [1..k -> V] /\ \A i \in 1..k : Shown(F, s, k)[i] = F[s[i]]
      BY <2>1 DEF Shown
    <2>3. QED
      BY <1>2, <2>2
  <1> HIDE DEF V
  <1> DEFINE a == Shown(F, s, k)
             c == a \o rows
  <1> HIDE DEF a
  <1>6. /\ c \in Seq(V) /\ Len(c) = Len(a) + Len(rows)
        /\ \A i \in 1..(Len(a) + Len(rows)) : c[i] = IF i <= Len(a) THEN a[i] ELSE rows[i - Len(a)]
    <2>1. a \in Seq(V) /\ rows \in Seq(V)
      BY <1>4, <1>5 DEF a
    <2>2. QED
      BY <2>1, ConcatProperties, Zenon
  <1> HIDE DEF c
  <1>7. Len(c) = m /\ DOMAIN c = 1..m
    BY <1>2, <1>4, <1>5, <1>6 DEF a
  <1>8. ASSUME NEW i \in 1..m PROVE c[i] = F[s[i]]
    <2>1. CASE i <= k
      BY <1>2, <1>4, <1>5, <1>6, <2>1 DEF a
    <2>2. CASE ~ (i <= k)
      <3>1. i - k \in 1..(m - k) /\ k + (i - k) = i
        BY <1>2, <2>2
      <3>2. c[i] = rows[i - k]
        BY <1>2, <1>4, <1>5, <1>6, <2>2 DEF a
      <3>3. QED
        BY <1>4, <3>1, <3>2
    <2>3. QED
      BY <2>1, <2>2
  <1>9. c = Shown(F, s, m)
    <2>1. c = [i \in 1..m |-> c[i]]
      BY <1>6, <1>7
    <2>2. QED
      BY <1>8, <2>1, Zenon DEF Shown
  <1>10. rows = <<>> => k = Len(s)
    BY <1>1, <1>2, <1>4
  <1>11. MovesOn(F, s, k, rows)
    BY <1>5, <1>9, <1>10 DEF c, a, MovesOn
  <1>12. QED
    BY <1>11 DEF rows, page

\* What is shown of the first elements is a prefix of what is shown of all.
LEMMA ShownIsPrefix ==
  ASSUME NEW E, NEW s \in Seq(E), NEW F, NEW k \in 0..Len(s)
  PROVE  /\ IsPrefix(Shown(F, s, k), Shown(F, s, Len(s)))
         /\ Shown(F, s, Len(s)) = [i \in DOMAIN s |-> F[s[i]]]
  <1> DEFINE n == Len(s)
             V == {F[s[i]] : i \in 1..n}
             a == Shown(F, s, k)
             w == Shown(F, s, n)
  <1>1. n \in Nat /\ k \in Nat /\ k <= n /\ DOMAIN s = 1..n
    OBVIOUS
  <1>2. /\ a \in [1..k -> V] /\ \A i \in 1..k : a[i] = F[s[i]]
    <2>1. \A i \in 1..k : F[s[i]] \in V
      BY <1>1
    <2> HIDE DEF V
    <2>2. QED
      BY <2>1 DEF Shown
  <1>3. w \in [1..n -> V] /\ \A i \in 1..n : w[i] = F[s[i]]
    <2>1. \A i \in 1..n : F[s[i]] \in V
      OBVIOUS
    <2> HIDE DEF V
    <2>2. QED
      BY <2>1 DEF Shown
  <1> HIDE DEF V, a, w, n
  <1>4. a \in Seq(V) /\ Len(a) = k /\ w \in Seq(V) /\ Len(w) = n
    BY <1>1, <1>2, <1>3
  <1>5. SubSeq(a, 1, k) = a
    BY <1>1, <1>2, <1>4
  <1>6. SubSeq(w, 1, k) = a
    BY <1>1, <1>2, <1>3, <1>4
  <1>7. IsPrefix(a, w)
    BY <1>1, <1>4, <1>5, <1>6 DEF IsPrefix
  <1>8. QED
    BY <1>1, <1>7 DEF a, w, n, Shown


-----------------------------------------------------------------------------
(* The pages of an ungrouped query                                         *)

\* The property speaks of the query and the table at hand.
PagesApply == query.groupBy = <<>> /\ Executable /\ RowsSettled

ShownRow == [r \in TheRows |-> Project(query.columns, r)]

\* The answer shows the first rows of the ranking, and all of them at the end.
PagesSoFar ==
    \E k \in 0..Len(TheRanking) :
        /\ answer = Shown(ShownRow, TheRanking, k)
        /\ status = "done" => k = Len(TheRanking)

PagesInv ==
    /\ table \in Tables /\ query \in Queries
    /\ PagesApply => PagesSoFar

LEMMA ExecutableExecutes ==
  ASSUME table \in Tables, query \in Queries, Executable
  PROVE  /\ Executes
         /\ Outcomes = {Execute(query, o, Len(answer)) : o \in ReadOrders(table)}
         /\ ReadOrders(table) # {}
  <1>1. /\ ~ReadFails(table) /\ table.kind # "none"
        /\ ~Refused(query) /\ ~WholeCollection(query) /\ ~Wildcard(query)
        /\ query.reader = "records" \/ query.groupBy = <<>>
        /\ Supported(query.where, WhereKinds)
    BY DEF Executable, WhereKinds
  <1>2. Executes
    BY <1>1, Zenon DEF Executes
  <1>3. ~ (query.reader = "recordset" /\ query.groupBy # <<>>)
    BY <1>1
  <1>4. Outcomes = {Execute(query, o, Len(answer)) : o \in ReadOrders(table)}
    BY <1>1, <1>3 DEF Outcomes
  <1>5. ReadOrders(table) # {}
    BY <1>1, ReadOrdersIs, Zenon
  <1>6. QED
    BY <1>2, <1>4, <1>5

\* What a page of an ungrouped query holds.
LEMMA RowsPage ==
  ASSUME table \in Tables, query \in Queries, PagesApply, NEW o \in ReadOrders(table), NEW k
  PROVE  Execute(query, o, k) = Returned([i \in DOMAIN Page(TheRanking, k, query.limit) |->
                                            Project(query.columns, Page(TheRanking, k, query.limit)[i])])
  <1>1. Executes /\ query.groupBy = <<>> /\ RowsSettled /\ ~Wildcard(query)
    BY ExecutableExecutes, Zenon DEF PagesApply, Executable
  <1>2. ApplyOrderBy(query.orderBy, ApplyWhere(query, o)) = TheRanking
    BY <1>1, SortedIsTheRanking, Zenon
  <1>3. \A r \in ToSet(o) : EvaluateCondition(query.where, r) # "error"
    <2>1. /\ ~ReadFails(table) /\ table.kind # "none" /\ Supported(query.where, WhereKinds)
      BY <1>1, Zenon DEF Executes
    <2>2. Enumerates(o, ToSet(table.rows))
      BY <2>1, ReadOrdersIs, Zenon
    <2>3. QED
      BY <2>1, <2>2, WhereKeepsTheRows, Zenon
  <1>4. QED
    BY <1>1, <1>2, <1>3, Zenon DEF Execute

LEMMA RankingIsSeq ==
  ASSUME table \in Tables, query \in Queries, PagesApply
  PROVE  TheRanking \in Seq(TheRows)
  <1>1. Executes /\ RowsSettled /\ ReadOrders(table) # {}
    BY ExecutableExecutes, Zenon DEF PagesApply
  <1>2. QED
    BY <1>1, SortedIsTheRanking, Zenon

\* A page keeps the answer a part of the ranking.
LEMMA PageKeepsPages ==
  ASSUME table \in Tables, query \in Queries, PagesApply, NEW out \in Outcomes,
         NEW k \in 0..Len(TheRanking), answer = Shown(ShownRow, TheRanking, k)
  PROVE  /\ ~out.failed
         /\ \E m \in k..Len(TheRanking) : answer \o out.rows = Shown(ShownRow, TheRanking, m)
         /\ out.rows = <<>> => k = Len(TheRanking)
  <1> DEFINE s == TheRanking
             page == Page(s, k, query.limit)
             rows == Image(ShownRow, page)
  <1>1. s \in Seq(TheRows) /\ query.limit \in Int
    BY RankingIsSeq, OrderByIs, Zenon
  <1>2. /\ \E m \in k..Len(s) : Shown(ShownRow, s, k) \o rows = Shown(ShownRow, s, m)
        /\ rows = <<>> => k = Len(s)
        /\ Len(Shown(ShownRow, s, k)) = k
    <2>1. MovesOn(ShownRow, s, k, rows)
      BY <1>1, NextPage, Zenon
    <2> HIDE DEF rows
    <2>2. QED
      BY <2>1, Zenon DEF MovesOn
  <1>3. PICK o \in ReadOrders(table) : out = Execute(query, o, Len(answer))
    BY ExecutableExecutes DEF PagesApply
  <1>4. Len(answer) = k
    BY <1>2
  <1>5. out = Returned([i \in DOMAIN page |-> Project(query.columns, page[i])])
    BY <1>3, <1>4, RowsPage, Zenon
  <1>6. page \in Seq(TheRows)
    BY <1>1, PageIs
  <1>7. [i \in DOMAIN page |-> Project(query.columns, page[i])] = rows
    <2> HIDE DEF page
    <2>1. \A i \in DOMAIN page : page[i] \in TheRows
      BY <1>6
    <2>2. QED
      BY <2>1 DEF ShownRow, Image
  <1> HIDE DEF page, rows
  <1>8. ~out.failed /\ out.rows = rows
    BY <1>5, <1>7 DEF Returned
  <1>9. QED
    BY <1>2, <1>8

\* Nothing the property speaks of changes but the answer and the status.
LEMMA PagesUnchanged ==
  ASSUME UNCHANGED <<table, query>>
  PROVE  (PagesApply' <=> PagesApply) /\ TheRanking' = TheRanking /\ ShownRow' = ShownRow
  <1>1. OrderNames' = OrderNames
    BY DEF OrderNames
  <1>2. TheRows' = TheRows
    BY DEF TheRows
  <1>3. \A n : ValuesOf(n)' = ValuesOf(n)
    BY DEF ValuesOf
  <1>4. Executable' <=> Executable
    BY DEF Executable
  <1>5. RowsSettled' <=> RowsSettled
    BY <1>1, <1>3 DEF RowsSettled
  <1>6. \A r : Position(r)' = Position(r)
    BY DEF Position
  <1>7. \A r, s : RowBefore(r, s)' <=> RowBefore(r, s)
    BY <1>6 DEF RowBefore
  <1>8. TheRanking' = TheRanking
    BY <1>2, <1>7 DEF TheRanking
  <1>9. QED
    BY <1>2, <1>4, <1>5, <1>8 DEF PagesApply, ShownRow

LEMMA PagesInvIsInductive == PagesInv /\ [Next]_vars => PagesInv'
  <1>1. SUFFICES ASSUME PagesInv, [Next]_vars PROVE PagesInv'
    OBVIOUS
  <1>2. table \in Tables /\ query \in Queries
    BY <1>1, Zenon DEF PagesInv
  <1>3. UNCHANGED <<table, query>>
    BY <1>1 DEF Next, FetchPage, FetchLast, FetchFails, FetchCancelled, vars
  <1>4. table' \in Tables /\ query' \in Queries
    BY <1>2, <1>3
  <1>5. (PagesApply' <=> PagesApply) /\ TheRanking' = TheRanking /\ ShownRow' = ShownRow
    BY <1>3, PagesUnchanged, Zenon
  <1>6. SUFFICES ASSUME PagesApply PROVE PagesSoFar'
    BY <1>4, <1>5, Zenon DEF PagesInv
  <1>7. PICK k \in 0..Len(TheRanking) : /\ answer = Shown(ShownRow, TheRanking, k)
                                        /\ status = "done" => k = Len(TheRanking)
    BY <1>1, <1>6, Zenon DEF PagesInv, PagesSoFar
  <1>8. SUFFICES \E m \in 0..Len(TheRanking) : /\ answer' = Shown(ShownRow, TheRanking, m)
                                               /\ status' = "done" => m = Len(TheRanking)
    BY <1>5 DEF PagesSoFar
  <1>9. TheRanking \in Seq(TheRows)
    BY <1>2, <1>6, RankingIsSeq, Zenon
  <1>10. CASE FetchPage
    <2>1. PICK out \in Outcomes : answer' = answer \o out.rows
      BY <1>10 DEF FetchPage
    <2>2. \E m \in k..Len(TheRanking) : answer \o out.rows = Shown(ShownRow, TheRanking, m)
      BY <1>2, <1>6, <1>7, PageKeepsPages, Zenon
    <2>3. status' # "done"
      BY <1>10 DEF FetchPage
    <2>4. \A m \in k..Len(TheRanking) : m \in 0..Len(TheRanking)
      BY <1>9
    <2>5. QED
      BY <2>1, <2>2, <2>3, <2>4, Zenon
  <1>11. CASE FetchLast
    <2>1. answer' = answer /\ Returned(<<>>) \in Outcomes
      BY <1>11 DEF FetchLast
    <2>2. Returned(<<>>).rows = <<>>
      BY DEF Returned
    <2>3. k = Len(TheRanking)
      BY <1>2, <1>6, <1>7, <2>1, <2>2, PageKeepsPages, Zenon
    <2>4. QED
      BY <1>7, <2>1, <2>3, Zenon
  <1>12. CASE FetchFails \/ FetchCancelled
    BY <1>7, <1>12 DEF FetchFails, FetchCancelled
  <1>13. CASE UNCHANGED vars
    BY <1>7, <1>13 DEF vars
  <1>14. QED
    BY <1>1, <1>10, <1>11, <1>12, <1>13 DEF Next

LEMMA InitPagesInv == Init => PagesInv
  <1>1. SUFFICES ASSUME Init PROVE PagesInv
    OBVIOUS
  <1>2. table \in Tables /\ query \in Queries /\ answer = <<>> /\ status = "paging"
    BY <1>1 DEF Init
  <1>3. SUFFICES ASSUME PagesApply PROVE PagesSoFar
    BY <1>2 DEF PagesInv
  <1>4. 0 \in 0..Len(TheRanking)
    <2>1. TheRanking \in Seq(TheRows)
      BY <1>2, <1>3, RankingIsSeq, Zenon
    <2>2. QED
      BY <2>1
  <1>5. Shown(ShownRow, TheRanking, 0) = <<>>
    BY DEF Shown
  <1>6. QED
    BY <1>2, <1>4, <1>5 DEF PagesSoFar

LEMMA PagesInvSuffices == PagesInv => PagesAreTheAnswer
  <1>1. SUFFICES ASSUME PagesInv, PagesApply PROVE PagesAreTheAnswer
    BY DEF PagesAreTheAnswer, PagesApply
  <1>2. table \in Tables /\ query \in Queries
    BY <1>1, Zenon DEF PagesInv
  <1> DEFINE owed == [i \in DOMAIN TheRanking |-> Project(query.columns, TheRanking[i])]
  <1>3. PICK k \in 0..Len(TheRanking) : /\ answer = Shown(ShownRow, TheRanking, k)
                                        /\ status = "done" => k = Len(TheRanking)
    BY <1>1, Zenon DEF PagesInv, PagesSoFar
  <1>4. TheRanking \in Seq(TheRows)
    BY <1>1, <1>2, RankingIsSeq, Zenon
  <1>5. /\ IsPrefix(Shown(ShownRow, TheRanking, k), Shown(ShownRow, TheRanking, Len(TheRanking)))
        /\ Shown(ShownRow, TheRanking, Len(TheRanking)) = [i \in DOMAIN TheRanking |-> ShownRow[TheRanking[i]]]
    BY <1>4, ShownIsPrefix, Zenon
  <1>6. [i \in DOMAIN TheRanking |-> ShownRow[TheRanking[i]]] = owed
    <2>1. \A i \in DOMAIN TheRanking : TheRanking[i] \in TheRows
      BY <1>4
    <2>2. QED
      BY <2>1 DEF ShownRow
  <1> HIDE DEF owed
  <1>7. IsPrefix(answer, owed) /\ (status = "done" => answer = owed)
    BY <1>3, <1>5, <1>6, Zenon
  <1>8. QED
    BY <1>7, Zenon DEF PagesAreTheAnswer, TheRanking, owed

\* Paging through an ungrouped query, over any table, with any condition and any
\* declared order, returns the rows the condition selects, each once and in the
\* declared order (executeQueryToRecordsReader).  The answer is at every step a
\* part of one ranking of the selected rows, which no order of reading changes.
THEOREM PagesAreTheAnswerHolds == Spec => []PagesAreTheAnswer
  <1>1. Init => PagesInv
    BY InitPagesInv
  <1>2. PagesInv /\ [Next]_vars => PagesInv'
    BY PagesInvIsInductive
  <1>3. PagesInv => PagesAreTheAnswer
    BY PagesInvSuffices
  <1>4. QED
    BY <1>1, <1>2, <1>3, PTL DEF Spec


-----------------------------------------------------------------------------
(* MIN and MAX                                                             *)

Beats(op, a, b) ==
    (op = "min" /\ CompareValues(a, b) < 0) \/ (op = "max" /\ CompareValues(a, b) > 0)

\* The values of the loop of Best in the rounds of D.
BestRounds(op, values, D, f) ==
    f = [i \in D |-> IF i = 1 THEN values[1]
                        ELSE LET c == CompareValues(values[i], f[i - 1]) IN
                             IF (op = "min" /\ c < 0) \/ (op = "max" /\ c > 0) THEN values[i] ELSE f[i - 1]]

LEMMA BestDefined ==
  ASSUME NEW op, NEW values, NEW n \in Nat
  PROVE  \E f : BestRounds(op, values, 1..n, f)
  <1> DEFINE T == {k \in Nat : \E f : BestRounds(op, values, 1..k, f)}
             body(f, i) == IF i = 1 THEN values[1]
                           ELSE IF Beats(op, values[i], f[i - 1]) THEN values[i] ELSE f[i - 1]
  <1>1. \A f, k : BestRounds(op, values, 1..k, f) <=> f = [i \in 1..k |-> body(f, i)]
    BY Zenon DEF BestRounds, Beats
  <1>2. 0 \in T
    <2>1. BestRounds(op, values, 1..0, <<>>)
      BY DEF BestRounds
    <2>2. QED
      BY <2>1
  <1>3. ASSUME NEW k \in Nat, k \in T PROVE k + 1 \in T
    <2>1. PICK f : BestRounds(op, values, 1..k, f)
      BY <1>3
    <2> DEFINE last == body(f, k + 1)
               g == [i \in 1..(k + 1) |-> IF i = k + 1 THEN last ELSE f[i]]
    <2> HIDE DEF body
    <2>2. f = [i \in 1..k |-> body(f, i)]
      BY <1>1, <2>1, Zenon
    <2>3. /\ \A i \in 1..k : g[i] = f[i] /\ f[i] = body(f, i)
          /\ g[k + 1] = body(f, k + 1)
          /\ g = [i \in 1..(k + 1) |-> g[i]]
      <3>1. \A i \in 1..k : f[i] = body(f, i)
        BY <2>2, Zenon
      <3>2. QED
        BY <3>1
    <2> HIDE DEF g
    <2>4. ASSUME NEW i \in 1..(k + 1) PROVE g[i] = body(g, i)
      <3>1. body(g, i) = body(f, i)
        <4>1. CASE i = 1
          BY <4>1 DEF body
        <4>2. CASE i # 1
          <5>1. i - 1 \in 1..k
            BY <4>2
          <5>2. g[i - 1] = f[i - 1]
            BY <2>3, <5>1
          <5>3. QED
            BY <5>2 DEF body
        <4>3. QED
          BY <4>1, <4>2
      <3>2. i \in 1..k \/ i = k + 1
        OBVIOUS
      <3>3. QED
        BY <2>3, <3>1, <3>2
    <2>5. BestRounds(op, values, 1..(k + 1), g)
      <3>1. g = [i \in 1..(k + 1) |-> body(g, i)]
        BY <2>3, <2>4, Zenon
      <3>2. QED
        BY <1>1, <3>1, Zenon
    <2>6. QED
      BY <2>5
  <1> HIDE DEF T
  <1>4. n \in T
    BY <1>2, <1>3, Induction, Zenon
  <1>5. QED
    BY <1>4 DEF T

\* The b-th of the first n values is the first of those that none beats.
FirstBest(op, v, n, b) ==
    /\ b \in 1..n
    /\ \A j \in 1..n : ~Beats(op, v[j], v[b])
    /\ \A j \in 1..(b - 1) : Beats(op, v[b], v[j])

\* Beats is the order of a column.
LEMMA BeatsIs ==
  ASSUME NEW op \in {"min", "max"}, NEW a, NEW b, IsCell(a), IsCell(b)
  PROVE  /\ Beats(op, a, b) => ~Beats(op, b, a)
         /\ ~Beats(op, a, b) /\ ~Beats(op, b, a) <=> CompareValues(a, b) = 0
         /\ ~Beats(op, a, a)
  <1>1. CompareValues(a, b) \in {-1, 0, 1} /\ CompareValues(b, a) = 0 - CompareValues(a, b)
    BY CompareTurns
  <1>2. CompareValues(a, a) \in {-1, 0, 1} /\ CompareValues(a, a) = 0 - CompareValues(a, a)
    BY CompareTurns
  <1>3. QED
    BY <1>1, <1>2 DEF Beats

LEMMA BeatsBetween ==
  ASSUME NEW op \in {"min", "max"}, NEW a, NEW b, NEW c, IsCell(a), IsCell(b), IsCell(c),
         Alike(a, b), Alike(a, c), Alike(c, b), Beats(op, a, b)
  PROVE  Beats(op, a, c) \/ Beats(op, c, b)
  <1> DEFINE ordering == [desc |-> op = "max"]
  <1>1. \A x, y : Precedes(ordering, x, y) <=> Beats(op, x, y)
    BY DEF Precedes, Beats
  <1> HIDE DEF ordering
  <1>2. ~ (CompareValues(a, c) = 0 /\ CompareValues(c, b) = 0)
    <2>1. CompareValues(a, b) # 0
      BY BeatsIs
    <2>2. CompareValues(a, c) = 0 => CompareValues(a, b) = CompareValues(c, b)
      BY CompareTransitive
    <2>3. QED
      BY <2>1, <2>2
  <1>3. Precedes(ordering, a, c) \/ Precedes(ordering, c, b)
    BY <1>1, <1>2, PrecedesBetween
  <1>4. QED
    BY <1>1, <1>3

\* The values of one column.
IsColumn(v, n) ==
    /\ \A i \in 1..n : IsCell(v[i])
    /\ \A i, j \in 1..n : Alike(v[i], v[j])

LEMMA BestIs ==
  ASSUME NEW op \in {"min", "max"}, NEW n \in Nat, n # 0, NEW v, DOMAIN v = 1..n, Len(v) = n,
         IsColumn(v, n)
  PROVE  \E b : FirstBest(op, v, n, b) /\ Best(op, v) = v[b]
  <1>1. PICK f : BestRounds(op, v, 1..n, f) /\ Best(op, v) = f[n]
    <2>1. \E f : BestRounds(op, v, DOMAIN v, f)
      BY BestDefined, Zenon
    <2>2. \E f : BestRounds(op, v, DOMAIN v, f) /\ Best(op, v) = f[Len(v)]
      BY <2>1, Zenon DEF Best, BestRounds
    <2>3. QED
      BY <2>2
  <1>2. \A i \in 1..n : f[i] = IF i = 1 THEN v[1]
                               ELSE IF Beats(op, v[i], f[i - 1]) THEN v[i] ELSE f[i - 1]
    BY <1>1, Zenon DEF BestRounds, Beats
  <1>3. \A i, j \in 1..n : IsCell(v[i]) /\ IsCell(v[j]) /\ Alike(v[i], v[j])
    BY Zenon DEF IsColumn
  <1> DEFINE T == {k \in Nat : k + 1 <= n => \E b : FirstBest(op, v, k + 1, b) /\ f[k + 1] = v[b]}
  <1>4. 0 \in T
    <2>1. 1 \in 1..n /\ f[1] = v[1]
      BY <1>2
    <2>2. ~Beats(op, v[1], v[1])
      BY <1>3, <2>1, BeatsIs
    <2>3. FirstBest(op, v, 1, 1)
      BY <2>2 DEF FirstBest
    <2>4. 0 + 1 = 1
      OBVIOUS
    <2>5. QED
      BY <2>1, <2>3, <2>4
  <1>5. ASSUME NEW k \in Nat, k \in T PROVE k + 1 \in T
    <2> DEFINE m == k + 1
               l == m + 1
    <2>1. SUFFICES ASSUME l <= n PROVE \E b : FirstBest(op, v, l, b) /\ f[l] = v[b]
      OBVIOUS
    <2>2. PICK b : FirstBest(op, v, m, b) /\ f[m] = v[b]
      BY <1>5, <2>1
    <2>3. /\ m \in Nat /\ l \in 1..n /\ l # 1 /\ l - 1 = m /\ b \in 1..m /\ b \in 1..n /\ b \in 1..l
          /\ \A j \in 1..m : j \in 1..n
      BY <2>1, <2>2 DEF FirstBest
    <2>4. /\ \A j \in 1..m : ~Beats(op, v[j], v[b])
          /\ \A j \in 1..(b - 1) : Beats(op, v[b], v[j])
      BY <2>2 DEF FirstBest
    <2>5. \A j \in 1..l : j \in 1..m \/ j = l
      BY <2>3
    <2>6. f[l] = IF Beats(op, v[l], v[b]) THEN v[l] ELSE v[b]
      BY <1>2, <2>2, <2>3
    <2> HIDE DEF l, m
    <2>7. CASE Beats(op, v[l], v[b])
      <3>1. ASSUME NEW j \in 1..m PROVE Beats(op, v[l], v[j]) /\ ~Beats(op, v[j], v[l])
        <4>1. Beats(op, v[l], v[j]) \/ Beats(op, v[j], v[b])
          BY <1>3, <2>3, <2>7, BeatsBetween
        <4>2. QED
          BY <1>3, <2>3, <2>4, <4>1, BeatsIs
      <3>2. ~Beats(op, v[l], v[l])
        BY <1>3, <2>3, BeatsIs
      <3>3. FirstBest(op, v, l, l)
        <4>1. l \in 1..l
          BY <2>3
        <4>2. \A j \in 1..(l - 1) : j \in 1..m
          BY <2>3
        <4>3. QED
          BY <2>5, <3>1, <3>2, <4>1, <4>2 DEF FirstBest
      <3>4. QED
        BY <2>6, <2>7, <3>3
    <2>8. CASE ~Beats(op, v[l], v[b])
      <3>1. FirstBest(op, v, l, b)
        BY <2>3, <2>4, <2>5, <2>8 DEF FirstBest
      <3>2. QED
        BY <2>6, <2>8, <3>1
    <2>9. QED
      BY <2>7, <2>8
  <1> HIDE DEF T
  <1>6. n - 1 \in T
    <2>1. n - 1 \in Nat
      OBVIOUS
    <2>2. QED
      BY <1>4, <1>5, <2>1, Induction, Zenon
  <1>7. \E b : FirstBest(op, v, n, b) /\ f[n] = v[b]
    <2>1. (n - 1) + 1 = n
      OBVIOUS
    <2>2. QED
      BY <1>6, <2>1 DEF T
  <1>8. QED
    BY <1>1, <1>7


-----------------------------------------------------------------------------
(* Values, equal and told apart                                            *)

LEMMA NilIsValue == IsValue(Nil) /\ ~IsNumber(Nil) /\ Nil.text = 110
  BY DEF IsValue, Nil, IsNumber

\* What a row holds is a value.
LEMMA RowValues ==
  ASSUME NEW r, IsRow(r), NEW name
  PROVE  IsValue(FieldOf(r.data, name)) /\ IsValue(FieldValue(name, r))
  <1>1. IsValue(r.key) /\ \A f \in DOMAIN r.data : IsValue(r.data[f])
    BY Zenon DEF IsRow
  <1>2. IsValue(FieldOf(r.data, name))
    BY <1>1, NilIsValue, Zenon DEF FieldOf
  <1>3. FieldValue(name, r) = IF name = "$id" THEN r.key ELSE FieldOf(r.data, name)
    BY DEF FieldValue, Resolve
  <1>4. QED
    BY <1>1, <1>2, <1>3

\* The three shapes of a value.
LEMMA ValueShapes ==
  ASSUME NEW v, IsValue(v)
  PROVE  \/ v = Nil
         \/ IsNumber(v) /\ v.num \in 0..99 /\ v = Number(v.type, v.num) /\ v.text = NumberText(v.num)
         \/ /\ ~IsNumber(v) /\ v.type # "nil" /\ v.text \in Int
            /\ v = [type |-> v.type, num |-> v.num, text |-> v.text]
            /\ IsScalar(v) => v.num = 0
  <1>1. CASE v.num \in 0..99 /\ \E t \in {"int", "float64"} : v = Number(t, v.num)
    <2>1. PICK t \in {"int", "float64"} : v = Number(t, v.num)
      BY <1>1
    <2>2. v.type = t /\ v.text = NumberText(v.num)
      BY <2>1 DEF Number
    <2>3. QED
      BY <1>1, <2>1, <2>2 DEF IsNumber
  <1>2. CASE /\ v.type \in STRING \ {"nil", "int", "float64"} /\ v.text \in Int
             /\ v = [type |-> v.type, num |-> v.num, text |-> v.text]
             /\ IsScalar(v) => v.num = 0
    BY <1>2 DEF IsNumber
  <1>3. QED
    BY <1>1, <1>2, Zenon DEF IsValue

LEMMA NumberTextInjective ==
  ASSUME NEW m \in 0..99, NEW n \in 0..99, NumberText(m) = NumberText(n)
  PROVE  m = n
  BY DEF NumberText

\* The type and the text tell scalars apart, as groupKeyStr relies on.
LEMMA ValueByTypeAndText ==
  ASSUME NEW v, NEW w, IsValue(v), IsValue(w), IsScalar(v), v.type = w.type, v.text = w.text
  PROVE  v = w
  <1>1. Nil.type = "nil" /\ Nil.text = 110
    BY DEF Nil
  <1>2. CASE IsNumber(v)
    <2>1. IsNumber(w) /\ v # Nil /\ w # Nil
      BY <1>1, <1>2 DEF IsNumber
    <2>2. /\ v.num \in 0..99 /\ v = Number(v.type, v.num) /\ v.text = NumberText(v.num)
          /\ w.num \in 0..99 /\ w = Number(w.type, w.num) /\ w.text = NumberText(w.num)
      BY <1>2, <2>1, ValueShapes, Zenon
    <2>3. v.num = w.num
      BY <2>2, NumberTextInjective
    <2>4. QED
      BY <2>2, <2>3
  <1>3. CASE ~IsNumber(v)
    <2>1. ~IsNumber(w)
      BY <1>3 DEF IsNumber
    <2>2. /\ v = Nil \/ (v.type # "nil" /\ v = [type |-> v.type, num |-> v.num, text |-> v.text]
                         /\ (IsScalar(v) => v.num = 0))
          /\ w = Nil \/ (w.type # "nil" /\ w = [type |-> w.type, num |-> w.num, text |-> w.text]
                         /\ (IsScalar(w) => w.num = 0))
      <3>1. ASSUME NEW x, IsValue(x), ~IsNumber(x)
            PROVE  x = Nil \/ (x.type # "nil" /\ x = [type |-> x.type, num |-> x.num, text |-> x.text]
                               /\ (IsScalar(x) => x.num = 0))
        BY <3>1, ValueShapes, Zenon
      <3>2. QED
        BY <1>3, <2>1, <3>1
    <2>3. IsScalar(w)
      BY DEF IsScalar
    <2>4. QED
      BY <1>1, <2>2, <2>3
  <1>4. QED
    BY <1>2, <1>3

\* Scalars of one type that compare equal are equal.
LEMMA ValueByComparison ==
  ASSUME NEW v, NEW w, IsValue(v), IsValue(w), IsScalar(v), v.type = w.type, CompareValues(v, w) = 0
  PROVE  v = w
  <1>1. IsCell(v) /\ IsCell(w)
    BY ValueIsCell
  <1>2. CASE IsNumber(v)
    <2>1. IsNumber(w) /\ v # Nil /\ w # Nil
      BY <1>2 DEF IsNumber, Nil
    <2>2. /\ v.num \in 0..99 /\ v = Number(v.type, v.num)
          /\ w.num \in 0..99 /\ w = Number(w.type, w.num)
      BY <1>2, <2>1, ValueShapes, Zenon
    <2>3. Sign(v.num - w.num) = 0
      BY <1>2, <2>1 DEF CompareValues
    <2>4. v.num = w.num
      BY <2>2, <2>3 DEF Sign
    <2>5. QED
      BY <2>2, <2>4
  <1>3. CASE ~IsNumber(v)
    <2>1. Sign(v.text - w.text) = 0
      BY <1>3 DEF CompareValues
    <2>2. v.text \in Int /\ w.text \in Int
      BY <1>1 DEF IsCell, Nil
    <2>3. v.text = w.text
      BY <2>1, <2>2 DEF Sign
    <2>4. QED
      BY <2>3, ValueByTypeAndText
  <1>4. QED
    BY <1>2, <1>3

\* Stored values of a column whose values are told apart, nils among them.
LEMMA ToldApartIs ==
  ASSUME NEW V, ToldApart(V), NEW v, NEW w, IsValue(v), IsValue(w),
         v = Nil \/ v \in V, w = Nil \/ w \in V, CompareValues(v, w) = 0
  PROVE  v = w
  <1>1. IsCell(v) /\ IsCell(w)
    BY ValueIsCell
  <1>2. ASSUME NEW x, x \in V PROVE x.text # 110
    BY <1>2 DEF ToldApart, Nil
  <1>3. /\ v.text \in Int /\ w.text \in Int
    BY <1>1 DEF IsCell, Nil
  <1>4. CASE v = Nil \/ w = Nil
    <2>1. ~ (IsNumber(v) /\ IsNumber(w))
      BY <1>4, NilIsValue
    <2>2. v.text = w.text
      BY <1>3, <2>1 DEF CompareValues, Sign
    <2>3. QED
      BY <1>2, <1>4, <2>2, NilIsValue
  <1>5. CASE v \in V /\ w \in V
    <2>1. v.type = w.type /\ IsScalar(v)
      BY <1>5 DEF ToldApart
    <2>2. QED
      BY <2>1, ValueByComparison
  <1>6. QED
    BY <1>4, <1>5

-----------------------------------------------------------------------------
(* The rows in the order in which they are read                            *)

\* o lists S, in the order of the positions unless the table is a map.
InOrder(o, S) ==
    /\ Enumerates(o, S)
    /\ table.kind # "map" => \A k, l \in 1..Len(o) : k < l => Position(o[k]) < Position(o[l])

LEMMA ReadInOrder ==
  ASSUME Executes, NEW o \in ReadOrders(table)
  PROVE  InOrder(o, ToSet(table.rows))
  <1>1. table \in Tables /\ ~ReadFails(table) /\ table.kind # "none"
    BY Zenon DEF Executes
  <1>2. Enumerates(o, ToSet(table.rows))
    BY <1>1, ReadOrdersIs, Zenon
  <1>3. table.kind # "map" => \A k \in 1..Len(o) : Position(o[k]) = k
    BY <1>1, PositionIs, Zenon
  <1>4. table.kind # "map" => \A k, l \in 1..Len(o) : k < l => Position(o[k]) < Position(o[l])
    BY <1>3
  <1>5. QED
    BY <1>2, <1>4, Zenon DEF InOrder

LEMMA KeptInOrder ==
  ASSUME NEW S, NEW o, InOrder(o, S), NEW R \in SUBSET S
  PROVE  InOrder(Kept(o, R), R)
  <1> DEFINE q == Kept(o, R)
  <1>1. Enumerates(o, S)
    BY Zenon DEF InOrder
  <1>2. /\ Enumerates(q, R)
        /\ \A i, j \in 1..Len(o), k, l \in 1..Len(q) : k < l /\ q[k] = o[i] /\ q[l] = o[j] => i < j
    BY <1>1, KeptEnumerates, Zenon
  <1> HIDE DEF q
  <1>3. ASSUME table.kind # "map", NEW k \in 1..Len(q), NEW l \in 1..Len(q), k < l
        PROVE  Position(q[k]) < Position(q[l])
    <2>1. q[k] \in R /\ q[l] \in R
      BY <1>2 DEF Enumerates
    <2>2. q[k] \in S /\ q[l] \in S
      BY <2>1
    <2>3. PICK i \in 1..Len(o) : o[i] = q[k]
      BY <1>1, <2>2, Zenon DEF Enumerates
    <2>4. PICK j \in 1..Len(o) : o[j] = q[l]
      BY <1>1, <2>2, Zenon DEF Enumerates
    <2>5. i < j
      BY <1>2, <1>3, <2>3, <2>4
    <2>6. Position(o[i]) < Position(o[j])
      BY <1>3, <2>5 DEF InOrder
    <2>7. QED
      BY <2>3, <2>4, <2>6
  <1>4. InOrder(q, R)
    BY <1>2, <1>3 DEF InOrder
  <1>5. QED
    BY <1>4 DEF q

\* The first of some rows.
LEMMA FirstOfIs ==
  ASSUME Executes, NEW P \in SUBSET ToSet(table.rows), P # {}
  PROVE  /\ FirstOf(P) \in P /\ Position(FirstOf(P)) \in Nat
         /\ \A s \in P : Position(FirstOf(P)) <= Position(s)
         /\ \A r \in P : (\A s \in P : Position(r) <= Position(s)) => r = FirstOf(P)
  <1>1. table \in Tables /\ ~ReadFails(table) /\ table.kind # "none"
    BY Zenon DEF Executes
  <1>2. /\ \A r \in P : Position(r) \in Nat
        /\ \A r, s \in P : Position(r) = Position(s) => r = s
    <2>1. /\ \A r \in ToSet(table.rows) : Position(r) \in Nat
          /\ \A r, s \in ToSet(table.rows) : Position(r) = Position(s) => r = s
      BY <1>1, PositionIs, Zenon
    <2>2. QED
      BY <2>1
  <1> DEFINE T == {Position(r) : r \in P}
  <1>3. T \in SUBSET Nat /\ T # {}
    BY <1>2
  <1>4. PICK m \in T : \A k \in T : m <= k
    BY <1>3, LeastNatural
  <1>5. \E r \in P : \A s \in P : Position(r) <= Position(s)
    BY <1>4
  <1>6. FirstOf(P) \in P /\ \A s \in P : Position(FirstOf(P)) <= Position(s)
    BY <1>5, Zenon DEF FirstOf
  <1>7. ASSUME NEW r \in P, \A s \in P : Position(r) <= Position(s) PROVE r = FirstOf(P)
    <2>1. Position(r) <= Position(FirstOf(P)) /\ Position(FirstOf(P)) <= Position(r)
      BY <1>6, <1>7
    <2>2. Position(r) = Position(FirstOf(P))
      BY <1>2, <1>6, <2>1
    <2>3. QED
      BY <1>2, <1>6, <2>2
  <1>8. QED
    BY <1>2, <1>6, <1>7


-----------------------------------------------------------------------------
(* Aggregates                                                              *)

\* What the rows of S hold under a name, and the rows an aggregate looks at.
Held(name, S) == [r \in S |-> FieldOf(r.data, name)]
Present(name, S) == {r \in S : FieldOf(r.data, name) # Nil}
Numeric(name, S) == {r \in S : IsNumber(FieldOf(r.data, name))}

Values(name, p) == [i \in DOMAIN p |-> FieldOf(p[i].data, name)]

\* What is kept of the values are the values of what is kept of the rows.
KeptValues(name, T, p) ==
    /\ Values(name, p) = Image(Held(name, T), p)
    /\ Kept(Values(name, p), ToSet(Values(name, p)) \ {Nil})
            = Image(Held(name, T), Kept(p, Present(name, T)))
    /\ Kept(Values(name, p), {v \in ToSet(Values(name, p)) : IsNumber(v)})
            = Image(Held(name, T), Kept(p, Numeric(name, T)))

LEMMA ValuesAre ==
  ASSUME NEW T, NEW p, Enumerates(p, T), NEW name
  PROVE  KeptValues(name, T, p)
  <1> DEFINE f == Held(name, T)
             v == Values(name, p)
  <1>1. /\ p \in Seq(T) /\ \A x \in T : \E k \in 1..Len(p) : p[k] = x
    BY Zenon DEF Enumerates
  <1>2. DOMAIN p = 1..Len(p) /\ \A i \in 1..Len(p) : p[i] \in T
    BY <1>1
  <1>3. \A r \in T : f[r] = FieldOf(r.data, name)
    BY DEF Held
  <1>4. v = Image(f, p)
    <2> HIDE DEF f
    <2>1. \A i \in DOMAIN p : FieldOf(p[i].data, name) = f[p[i]]
      BY <1>2, <1>3
    <2>2. QED
      BY <2>1 DEF Values, Image
  <1>5. DOMAIN v = 1..Len(p) /\ \A i \in 1..Len(p) : v[i] = f[p[i]]
    BY <1>1, <1>4, ImageIs
  <1> HIDE DEF f, v
  <1>6. \A r \in T : f[r] \in ToSet(v)
    BY <1>1, <1>5 DEF ToSet
  <1> DEFINE V == ToSet(v) \ {Nil}
             W == Present(name, T)
             N == {x \in ToSet(v) : IsNumber(x)}
             M == Numeric(name, T)
  <1>7. \A r \in T : r \in W <=> f[r] \in V
    BY <1>3, <1>6 DEF Present
  <1>8. \A r \in T : r \in M <=> f[r] \in N
    BY <1>3, <1>6 DEF Numeric
  <1> HIDE DEF V, W, N, M
  <1>9. Kept(Image(f, p), V) = Image(f, Kept(p, W))
    BY <1>1, <1>7, KeptImage
  <1>10. Kept(Image(f, p), N) = Image(f, Kept(p, M))
    BY <1>1, <1>8, KeptImage
  <1>11. QED
    BY <1>4, <1>9, <1>10 DEF f, v, V, W, N, M, KeptValues

\* A field or an aggregate, and its reference, on rows read in order.
LEMMA CountIs ==
  ASSUME NEW T, NEW p, Enumerates(p, T), NEW e, e.op = "count"
  PROVE  EvalAggregate(e, p) = TheValue(e, T) /\ \E n \in Nat : TheValue(e, T) = Number("int", n)
  <1> DEFINE W == Present(e.name, T)
             q == Kept(p, W)
             v == Values(e.name, p)
  <1>1. EvalAggregate(e, p) =
            Number("int", IF e.name = "*" THEN Len(p) ELSE Len(Kept(v, ToSet(v) \ {Nil})))
    BY DEF EvalAggregate, Values
  <1>2. TheValue(e, T) = Number("int", Cardinality(IF e.name = "*" THEN T ELSE W))
    BY DEF TheValue, Present
  <1>3. W \in SUBSET T
    BY DEF Present
  <1>4. Enumerates(q, W)
    BY <1>3, KeptEnumerates, Zenon
  <1>5. Cardinality(T) = Len(p) /\ Cardinality(W) = Len(q)
    BY <1>4, EnumerationCardinality, Zenon
  <1>6. Kept(v, ToSet(v) \ {Nil}) = Image(Held(e.name, T), q)
    <2>1. KeptValues(e.name, T, p)
      BY ValuesAre, Zenon
    <2>2. QED
      BY <2>1, Zenon DEF KeptValues
  <1>7. q \in Seq(W) /\ p \in Seq(T)
    BY <1>4, Zenon DEF Enumerates
  <1> HIDE DEF q, W, v
  <1>8. Len(Image(Held(e.name, T), q)) = Len(q)
    BY <1>7, ImageIs, Zenon
  <1>9. Len(p) \in Nat /\ Len(q) \in Nat
    BY <1>7
  <1>10. QED
    BY <1>1, <1>2, <1>5, <1>6, <1>8, <1>9

LEMMA SumIs ==
  ASSUME NEW T, NEW p, Enumerates(p, T), \A r \in T : IsRow(r), NEW e, e.op = "sum"
  PROVE  /\ TheValue(e, T).num <= Exact => EvalAggregate(e, p) = TheValue(e, T)
         /\ TheValue(e, T) = Nil \/ \E n \in Nat : TheValue(e, T) = Number("float64", n)
  <1> DEFINE M == Numeric(e.name, T)
             f == Held(e.name, T)
             q == Kept(p, M)
             v == Values(e.name, p)
             numbers == Kept(v, {x \in ToSet(v) : IsNumber(x)})
             number == [r \in M |-> FieldOf(r.data, e.name).num]
  <1>1. EvalAggregate(e, p) = IF numbers = <<>> THEN Nil
            ELSE Number("float64", Total([i \in DOMAIN numbers |-> numbers[i].num], Float64))
    BY DEF EvalAggregate, Values
  <1>2. TheValue(e, T) = IF M = {} THEN Nil ELSE Number("float64", Summed(number, M))
    BY DEF TheValue, Numeric
  <1>3. M \in SUBSET T
    BY DEF Numeric
  <1>4. Enumerates(q, M)
    BY <1>3, KeptEnumerates, Zenon
  <1>5. numbers = Image(f, q)
    <2>1. KeptValues(e.name, T, p)
      BY ValuesAre, Zenon
    <2>2. QED
      BY <2>1, Zenon DEF KeptValues
  <1>6. q \in Seq(M) /\ \A x \in M : \E k \in 1..Len(q) : q[k] = x
    BY <1>4, Zenon DEF Enumerates
  <1>7. \A r \in M : number[r] = f[r].num
    BY <1>3 DEF Held
  <1>8. ASSUME NEW r \in M PROVE number[r] \in Nat
    <2>1. IsRow(r) /\ r \in T
      BY <1>3
    <2>2. IsValue(FieldOf(r.data, e.name))
      BY <2>1, RowValues, Zenon
    <2>3. IsNumber(FieldOf(r.data, e.name))
      BY DEF Numeric
    <2>4. FieldOf(r.data, e.name).num \in 0..99
      BY <2>2, <2>3, ValueShapes, NilIsValue
    <2>5. QED
      BY <2>4
  <1> HIDE DEF q, M, v, f, numbers, number
  <1>9. DOMAIN numbers = 1..Len(q) /\ Len(numbers) = Len(q) /\ \A i \in 1..Len(q) : numbers[i] = f[q[i]]
    BY <1>5, <1>6, ImageIs
  <1>10. Len(q) \in Nat /\ \A i \in 1..Len(q) : q[i] \in M
    BY <1>6
  <1> DEFINE list == [i \in 1..Len(q) |-> number[q[i]]]
  <1>11. [i \in DOMAIN numbers |-> numbers[i].num] = list
    BY <1>7, <1>9, <1>10
  <1>12. \A x \in M : number[x] \in Int
    BY <1>8
  <1>13. Summed(number, M) = ExactTotal(list)
    BY <1>4, <1>12, TotalIsSum
  <1>14. /\ ExactTotal(list) \in Nat
         /\ ExactTotal(list) <= Exact => Total(list, Float64) = ExactTotal(list)
    <2>1. Len(list) = Len(q) /\ \A i \in 1..Len(q) : list[i] \in Nat
      BY <1>8, <1>10
    <2> HIDE DEF list
    <2>2. ExactTotal(list) \in Nat
      BY <1>10, <2>1, TotalNatural, Zenon
    <2>3. Exact \in Nat /\ \A k \in 0..Exact : Float64[k] = k
      BY ValuesAssumption DEF Float64
    <2>4. QED
      BY <1>10, <2>1, <2>2, <2>3, TotalExact
  <1> HIDE DEF list
  <1>15. numbers = <<>> <=> M = {}
    <2>1. CASE M = {}
      <3>1. Len(q) = 0
        BY <1>10, <2>1
      <3>2. numbers = <<>>
        <4>1. DOMAIN numbers = {}
          BY <1>9, <3>1
        <4>2. numbers = [i \in DOMAIN numbers |-> f[q[i]]]
          BY <1>5, <1>6, <1>9, <1>10 DEF Image
        <4>3. QED
          BY <4>1, <4>2
      <3>3. QED
        BY <2>1, <3>2
    <2>2. CASE M # {}
      <3>1. Len(q) # 0
        BY <1>6, <2>2
      <3>2. Len(numbers) # Len(<<>>)
        BY <1>9, <3>1
      <3>3. QED
        BY <2>2, <3>2
    <2>3. QED
      BY <2>1, <2>2
  <1>16. M # {} => TheValue(e, T).num = ExactTotal(list)
    BY <1>2, <1>13 DEF Number
  <1>17. QED
    BY <1>1, <1>2, <1>11, <1>13, <1>14, <1>15, <1>16


\* The rows of S whose value under a name none beats.
Leading(op, name, S) ==
    {r \in Present(name, S) : \A s \in Present(name, S) :
        ~Beats(op, FieldOf(s.data, name), FieldOf(r.data, name))}

\* A column of the table holds cells.
LEMMA StoredCells ==
  ASSUME table \in Tables, NEW name, Comparable(StoredAs(name)),
         NEW r \in ToSet(table.rows), NEW s \in ToSet(table.rows)
  PROVE  /\ IsCell(FieldOf(r.data, name)) /\ IsValue(FieldOf(r.data, name))
         /\ Alike(FieldOf(r.data, name), FieldOf(s.data, name))
         /\ FieldOf(r.data, name) = Nil \/ FieldOf(r.data, name) \in StoredAs(name)
  <1>1. IsRow(r)
    BY TableIs, Zenon
  <1>2. IsValue(FieldOf(r.data, name))
    BY <1>1, RowValues, Zenon
  <1>3. IsCell(FieldOf(r.data, name))
    BY <1>2, ValueIsCell
  <1>4. \A x \in ToSet(table.rows) : FieldOf(x.data, name) = Nil \/ FieldOf(x.data, name) \in StoredAs(name)
    BY DEF StoredAs
  <1>5. Alike(FieldOf(r.data, name), FieldOf(s.data, name))
    BY <1>4 DEF Comparable, Alike
  <1>6. QED
    BY <1>2, <1>3, <1>4, <1>5

LEMMA ExtremeReference ==
  ASSUME table \in Tables, NEW T \in SUBSET ToSet(table.rows), NEW e, e.op \in {"min", "max"},
         Comparable(StoredAs(e.name))
  PROVE  TheValue(e, T) = IF Present(e.name, T) = {} THEN Nil
                          ELSE FieldOf(FirstOf(Leading(e.op, e.name, T)).data, e.name)
  <1> DEFINE W == Present(e.name, T)
             value(r) == FieldOf(r.data, e.name)
             best(op) == {r \in W : \A s \in W : Related(op, CompareValues(value(r), value(s)))}
  <1>1. /\ e.op = "min" => TheValue(e, T) = IF W = {} THEN Nil ELSE value(FirstOf(best("<=")))
        /\ e.op = "max" => TheValue(e, T) = IF W = {} THEN Nil ELSE value(FirstOf(best(">=")))
    BY DEF TheValue, Present
  <1>2. W \in SUBSET ToSet(table.rows)
    BY DEF Present
  <1>3. \A r \in W : IsCell(value(r))
    BY <1>2, StoredCells
  <1> HIDE DEF W, value
  <1>4. ASSUME NEW r \in W, NEW s \in W
        PROVE  /\ Related("<=", CompareValues(value(r), value(s))) <=> ~Beats("min", value(s), value(r))
               /\ Related(">=", CompareValues(value(r), value(s))) <=> ~Beats("max", value(s), value(r))
    <2>1. /\ CompareValues(value(r), value(s)) \in {-1, 0, 1}
          /\ CompareValues(value(s), value(r)) = 0 - CompareValues(value(r), value(s))
      BY <1>3, CompareTurns
    <2>2. QED
      BY <2>1 DEF Related, Beats
  <1>5. /\ best("<=") = {r \in W : \A s \in W : ~Beats("min", value(s), value(r))}
        /\ best(">=") = {r \in W : \A s \in W : ~Beats("max", value(s), value(r))}
    BY <1>4
  <1>6. /\ e.op = "min" => best("<=") = Leading(e.op, e.name, T)
        /\ e.op = "max" => best(">=") = Leading(e.op, e.name, T)
    BY <1>5 DEF Leading, W, value
  <1> HIDE DEF best
  <1>7. QED
    BY <1>1, <1>6 DEF W, value

LEMMA ExtremeIs ==
  ASSUME Executes, NEW T \in SUBSET ToSet(table.rows), NEW p, InOrder(p, T),
         NEW e, e.op \in {"min", "max"}, Comparable(StoredAs(e.name)),
         table.kind = "map" => ToldApart(StoredAs(e.name))
  PROVE  /\ EvalAggregate(e, p) = TheValue(e, T)
         /\ TheValue(e, T) = Nil \/ (IsValue(TheValue(e, T)) /\ TheValue(e, T) \in StoredAs(e.name))
  <1> DEFINE W == Present(e.name, T)
             f == Held(e.name, T)
             q == Kept(p, W)
             v == Image(f, q)
             n == Len(q)
             lead == Leading(e.op, e.name, T)
             val(r) == FieldOf(r.data, e.name)
  <1>1. table \in Tables
    BY Zenon DEF Executes
  <1>2. Enumerates(p, T)
    BY Zenon DEF InOrder
  <1>3. EvalAggregate(e, p) = IF v = <<>> THEN Nil ELSE Best(e.op, v)
    <2> DEFINE u == Values(e.name, p)
    <2>1. EvalAggregate(e, p) = IF Kept(u, ToSet(u) \ {Nil}) = <<>> THEN Nil
                                ELSE Best(e.op, Kept(u, ToSet(u) \ {Nil}))
      BY DEF EvalAggregate, Values
    <2>2. KeptValues(e.name, T, p)
      BY <1>2, ValuesAre, Zenon
    <2>3. Kept(u, ToSet(u) \ {Nil}) = v
      BY <2>2, Zenon DEF KeptValues
    <2>4. QED
      BY <2>1, <2>3
  <1>4. TheValue(e, T) = IF W = {} THEN Nil ELSE val(FirstOf(lead))
    BY <1>1, ExtremeReference
  <1>5. W \in SUBSET T /\ W \in SUBSET ToSet(table.rows) /\ lead \in SUBSET W
    BY DEF Present, Leading
  <1>6. InOrder(q, W)
    BY <1>5, KeptInOrder, Zenon
  <1>7. q \in Seq(W) /\ \A x \in W : \E k \in 1..n : q[k] = x
    BY <1>6, Zenon DEF InOrder, Enumerates
  <1>8. n \in Nat /\ \A i \in 1..n : q[i] \in W /\ f[q[i]] = val(q[i])
    BY <1>5, <1>7 DEF Held
  <1>9. \A r \in W : val(r) \in StoredAs(e.name) /\ IsValue(val(r)) /\ IsCell(val(r)) /\ val(r) # Nil
    <2>1. \A r \in W : val(r) # Nil
      BY DEF Present
    <2>2. \A r \in W : /\ IsCell(val(r)) /\ IsValue(val(r))
                       /\ val(r) = Nil \/ val(r) \in StoredAs(e.name)
      BY <1>1, <1>5, StoredCells
    <2>3. QED
      BY <2>1, <2>2
  <1>10. \A r, s \in W : Alike(val(r), val(s))
    BY <1>1, <1>5, StoredCells
  <1>11. \A r \in W : r \in lead <=> \A s \in W : ~Beats(e.op, val(s), val(r))
    BY DEF Leading
  <1> HIDE DEF W, f, q, lead, val
  <1>12. DOMAIN v = 1..n /\ Len(v) = n /\ \A i \in 1..n : v[i] = val(q[i])
    BY <1>7, <1>8, ImageIs
  <1> HIDE DEF v, n
  <1>13. CASE W = {}
    <2>1. n = 0
      BY <1>8, <1>13
    <2>2. v = <<>>
      <3>1. DOMAIN v = {} /\ v = [i \in DOMAIN v |-> v[i]]
        BY <1>12, <2>1 DEF v, Image
      <3>2. QED
        BY <3>1
    <2>3. QED
      BY <1>3, <1>4, <1>13, <2>2
  <1>14. CASE W # {}
    <2>1. n # 0
      BY <1>7, <1>14
    <2>2. v # <<>>
      <3>1. Len(v) # Len(<<>>)
        BY <1>8, <1>12, <2>1
      <3>2. QED
        BY <3>1
    <2>3. IsColumn(v, n)
      BY <1>8, <1>9, <1>10, <1>12 DEF IsColumn
    <2>4. PICK b : FirstBest(e.op, v, n, b) /\ Best(e.op, v) = v[b]
      BY <1>8, <1>12, <2>1, <2>3, BestIs
    <2>5. /\ b \in 1..n /\ \A j \in 1..n : ~Beats(e.op, v[j], v[b])
          /\ \A j \in 1..(b - 1) : Beats(e.op, v[b], v[j])
      BY <2>4, Zenon DEF FirstBest
    <2> DEFINE w == q[b]
    <2>6. w \in W /\ v[b] = val(w)
      BY <1>8, <1>12, <2>5
    <2>7. w \in lead
      <3>1. ASSUME NEW s \in W PROVE ~Beats(e.op, val(s), val(w))
        <4>1. PICK j \in 1..n : q[j] = s
          BY <1>7
        <4>2. QED
          BY <1>12, <2>5, <2>6, <4>1
      <3>2. QED
        BY <1>11, <2>6, <3>1
    <2>8. lead \in SUBSET ToSet(table.rows) /\ lead # {}
      BY <1>5, <2>7
    <2>9. /\ FirstOf(lead) \in lead
          /\ \A r \in lead : (\A s \in lead : Position(r) <= Position(s)) => r = FirstOf(lead)
      BY <2>8, FirstOfIs, Zenon
    <2> HIDE DEF w
    <2>10. val(w) = val(FirstOf(lead))
      <3>1. CASE table.kind = "map"
        <4> DEFINE r == FirstOf(lead)
        <4>1. r \in W /\ ~Beats(e.op, val(w), val(r)) /\ ~Beats(e.op, val(r), val(w))
          BY <1>5, <1>11, <2>6, <2>7, <2>9
        <4> HIDE DEF r
        <4>2. CompareValues(val(w), val(r)) = 0
          BY <1>9, <2>6, <4>1, BeatsIs
        <4>3. val(w) = val(r)
          BY <1>9, <2>6, <3>1, <4>1, <4>2, ToldApartIs
        <4>4. QED
          BY <4>3 DEF r
      <3>2. CASE table.kind # "map"
        <4>1. ASSUME NEW s \in lead PROVE Position(w) <= Position(s)
          <5>1. s \in W
            BY <1>5
          <5>2. PICK j \in 1..n : q[j] = s
            BY <1>7, <5>1
          <5>3. ~ (j \in 1..(b - 1))
            <6>1. ASSUME j \in 1..(b - 1) PROVE FALSE
              <7>1. Beats(e.op, val(w), val(s))
                BY <1>12, <2>5, <2>6, <5>2, <6>1
              <7>2. QED
                BY <1>11, <2>6, <5>1, <7>1
            <6>2. QED
              BY <6>1
          <5>4. b = j \/ b < j
            BY <1>8, <2>5, <5>3
          <5>5. \A x \in ToSet(table.rows) : Position(x) \in Nat
            <6>1. ~ReadFails(table) /\ table.kind # "none"
              BY Zenon DEF Executes
            <6>2. QED
              BY <1>1, <6>1, PositionIs, Zenon
          <5>6. Position(w) \in Nat /\ Position(s) \in Nat
            BY <1>5, <2>6, <5>1, <5>5
          <5>7. CASE b = j
            BY <5>2, <5>6, <5>7 DEF w
          <5>8. CASE b < j
            <6>1. \A k, l \in 1..Len(q) : k < l => Position(q[k]) < Position(q[l])
              BY <1>6, <3>2, Zenon DEF InOrder
            <6>2. Position(q[b]) < Position(q[j])
              BY <2>5, <5>8, <6>1 DEF n
            <6>3. QED
              BY <5>2, <5>6, <6>2 DEF w
          <5>9. QED
            BY <5>4, <5>7, <5>8
        <4>2. w = FirstOf(lead)
          BY <2>7, <2>9, <4>1
        <4>3. QED
          BY <4>2
      <3>3. QED
        BY <3>1, <3>2
    <2>11. EvalAggregate(e, p) = val(w) /\ TheValue(e, T) = val(w)
      BY <1>3, <1>4, <1>14, <2>2, <2>4, <2>6, <2>10
    <2>12. QED
      BY <1>9, <2>6, <2>11
  <1>15. QED
    BY <1>13, <1>14


\* An expression whose value the order of reading does not choose.
SettledExpression(e) ==
    /\ IsExpression(e)
    /\ e.op # "const" => /\ Comparable(StoredAs(e.name))
                         /\ table.kind = "map" => ToldApart(StoredAs(e.name))

\* The rows of T hold the same under a name.
Agree(T, name) == \A r, s \in T : FieldOf(r.data, name) = FieldOf(s.data, name)

LEMMA FieldIs ==
  ASSUME Executes, NEW T \in SUBSET ToSet(table.rows), T # {}, NEW p, InOrder(p, T),
         NEW e, e.op = "field", table.kind = "map" => Agree(T, e.name)
  PROVE  ResolveGroup(e, p) = TheValue(e, T)
  <1>1. ResolveGroup(e, p) = FieldOf(p[1].data, e.name) /\ TheValue(e, T) = FieldOf(FirstOf(T).data, e.name)
    BY DEF ResolveGroup, TheValue
  <1>2. /\ FirstOf(T) \in T
        /\ \A r \in T : (\A s \in T : Position(r) <= Position(s)) => r = FirstOf(T)
    BY FirstOfIs, Zenon
  <1>3. p \in Seq(T) /\ \A x \in T : \E k \in 1..Len(p) : p[k] = x
    BY Zenon DEF InOrder, Enumerates
  <1>4. 1 \in 1..Len(p) /\ p[1] \in T
    BY <1>3
  <1>5. CASE table.kind = "map"
    BY <1>1, <1>2, <1>4, <1>5 DEF Agree
  <1>6. CASE table.kind # "map"
    <2>1. \A x \in T : Position(x) \in Nat
      <3>1. table \in Tables /\ ~ReadFails(table) /\ table.kind # "none"
        BY Zenon DEF Executes
      <3>2. \A x \in ToSet(table.rows) : Position(x) \in Nat
        BY <3>1, PositionIs, Zenon
      <3>3. QED
        BY <3>2
    <2>2. ASSUME NEW s \in T PROVE Position(p[1]) <= Position(s)
      <3>1. PICK k \in 1..Len(p) : p[k] = s
        BY <1>3
      <3>2. \A i, j \in 1..Len(p) : i < j => Position(p[i]) < Position(p[j])
        BY <1>6, Zenon DEF InOrder
      <3>3. k = 1 \/ 1 < k
        BY <1>3, <3>1
      <3>4. QED
        BY <1>4, <2>1, <3>1, <3>2, <3>3
    <2>3. p[1] = FirstOf(T)
      BY <1>2, <1>4, <2>2
    <2>4. QED
      BY <1>1, <2>3
  <1>7. QED
    BY <1>5, <1>6

\* What the code computes of the rows of a group, and what is owed.
LEMMA ResolveGroupIs ==
  ASSUME Executes, NEW T \in SUBSET ToSet(table.rows), T # {}, NEW p, InOrder(p, T),
         NEW e, SettledExpression(e), e.op = "field" /\ table.kind = "map" => Agree(T, e.name),
         e.op = "sum" => TheValue(e, T).num <= Exact
  PROVE  ResolveGroup(e, p) = TheValue(e, T)
  <1>1. /\ e.op \in {"field", "count", "sum", "min", "max", "const"}
        /\ e.op # "const" => /\ Comparable(StoredAs(e.name))
                             /\ table.kind = "map" => ToldApart(StoredAs(e.name))
    BY DEF SettledExpression, IsExpression
  <1>2. Enumerates(p, T)
    BY Zenon DEF InOrder
  <1>3. CASE e.op = "field"
    BY <1>3, FieldIs
  <1>4. CASE e.op = "const"
    BY <1>4 DEF ResolveGroup, TheValue
  <1>5. e.op \in {"count", "sum", "min", "max"} => ResolveGroup(e, p) = EvalAggregate(e, p)
    BY DEF ResolveGroup
  <1>6. CASE e.op = "count"
    <2>1. EvalAggregate(e, p) = TheValue(e, T)
      BY <1>2, <1>6, CountIs, Zenon
    <2>2. QED
      BY <1>5, <1>6, <2>1
  <1>7. CASE e.op = "sum"
    <2>1. \A r \in T : IsRow(r)
      <3>1. table \in Tables
        BY Zenon DEF Executes
      <3>2. \A r \in ToSet(table.rows) : IsRow(r)
        BY <3>1, TableIs, Zenon
      <3>3. QED
        BY <3>2
    <2>2. EvalAggregate(e, p) = TheValue(e, T)
      BY <1>2, <1>7, <2>1, SumIs, Zenon
    <2>3. QED
      BY <1>5, <1>7, <2>2
  <1>8. CASE e.op \in {"min", "max"}
    <2>1. EvalAggregate(e, p) = TheValue(e, T)
      BY <1>1, <1>8, ExtremeIs
    <2>2. QED
      BY <1>5, <1>8, <2>1
  <1>9. QED
    BY <1>1, <1>3, <1>4, <1>6, <1>7, <1>8

LEMMA RowsCanBeRead ==
  ASSUME Executes, NEW T \in SUBSET ToSet(table.rows)
  PROVE  \E p : InOrder(p, T)
  <1>1. ReadOrders(table) # {}
    BY ReadOrdersIs, Zenon DEF Executes
  <1>2. PICK o \in ReadOrders(table) : TRUE
    BY <1>1
  <1>3. InOrder(o, ToSet(table.rows))
    BY ReadInOrder, Zenon
  <1>4. InOrder(Kept(o, T), T)
    BY <1>3, KeptInOrder, Zenon
  <1>5. QED
    BY <1>4

\* The values an expression takes.
Takes(e, v) ==
    \/ e.op = "const" /\ v = e.value /\ IsValue(v)
    \/ e.op = "count" /\ \E n \in Nat : v = Number("int", n)
    \/ e.op = "sum" /\ (v = Nil \/ \E n \in Nat : v = Number("float64", n))
    \/ e.op \in {"field", "min", "max"} /\ (v = Nil \/ (IsValue(v) /\ v \in StoredAs(e.name)))

LEMMA TheValueTakes ==
  ASSUME Executes, NEW T \in SUBSET ToSet(table.rows), T # {}, NEW e, SettledExpression(e)
  PROVE  Takes(e, TheValue(e, T))
  <1>1. /\ e.op \in {"field", "count", "sum", "min", "max"} \/ (e.op = "const" /\ IsValue(e.value))
        /\ e.op # "const" => /\ Comparable(StoredAs(e.name))
                             /\ table.kind = "map" => ToldApart(StoredAs(e.name))
    BY DEF SettledExpression, IsExpression
  <1>2. PICK p : InOrder(p, T)
    BY RowsCanBeRead, Zenon
  <1>3. Enumerates(p, T)
    BY <1>2, Zenon DEF InOrder
  <1>4. table \in Tables
    BY Zenon DEF Executes
  <1>5. CASE e.op = "field"
    <2>1. TheValue(e, T) = FieldOf(FirstOf(T).data, e.name)
      BY <1>5 DEF TheValue
    <2>2. FirstOf(T) \in ToSet(table.rows)
      <3>1. FirstOf(T) \in T
        BY FirstOfIs, Zenon
      <3>2. QED
        BY <3>1
    <2>3. /\ IsValue(FieldOf(FirstOf(T).data, e.name))
          /\ FieldOf(FirstOf(T).data, e.name) = Nil \/ FieldOf(FirstOf(T).data, e.name) \in StoredAs(e.name)
      BY <1>1, <1>4, <1>5, <2>2, StoredCells
    <2>4. QED
      BY <1>5, <2>1, <2>3 DEF Takes
  <1>6. CASE e.op = "const" /\ IsValue(e.value)
    <2>1. TheValue(e, T) = e.value
      BY <1>6 DEF TheValue
    <2>2. QED
      BY <1>6, <2>1 DEF Takes
  <1>7. CASE e.op = "count"
    <2>1. \E n \in Nat : TheValue(e, T) = Number("int", n)
      BY <1>3, <1>7, CountIs, Zenon
    <2>2. QED
      BY <1>7, <2>1, Zenon DEF Takes
  <1>8. CASE e.op = "sum"
    <2>1. \A r \in T : IsRow(r)
      <3>1. \A r \in ToSet(table.rows) : IsRow(r)
        BY <1>4, TableIs, Zenon
      <3>2. QED
        BY <3>1
    <2>2. TheValue(e, T) = Nil \/ \E n \in Nat : TheValue(e, T) = Number("float64", n)
      BY <1>3, <1>8, <2>1, SumIs, Zenon
    <2>3. QED
      BY <1>8, <2>2, Zenon DEF Takes
  <1>9. CASE e.op \in {"min", "max"}
    <2>1. TheValue(e, T) = Nil \/ (IsValue(TheValue(e, T)) /\ TheValue(e, T) \in StoredAs(e.name))
      BY <1>1, <1>2, <1>9, ExtremeIs
    <2>2. QED
      BY <1>9, <2>1 DEF Takes
  <1>10. QED
    BY <1>1, <1>5, <1>6, <1>7, <1>8, <1>9

LEMMA TakesAlike ==
  ASSUME NEW e, SettledExpression(e), NEW v, NEW w, Takes(e, v), Takes(e, w)
  PROVE  IsCell(v) /\ Alike(v, w)
  <1>1. e.op # "const" => Comparable(StoredAs(e.name))
    BY DEF SettledExpression
  <1>2. ASSUME NEW x, Takes(e, x)
        PROVE  /\ IsCell(x)
               /\ e.op = "const" => x = e.value
               /\ e.op \in {"count", "sum"} => x = Nil \/ IsNumber(x)
               /\ e.op \in {"field", "min", "max"} => x = Nil \/ x \in StoredAs(e.name)
    <2>1. \A n \in Nat : \A t \in {"int", "float64"} : IsCell(Number(t, n)) /\ IsNumber(Number(t, n))
      BY NumberIsCell
    <2>2. IsCell(Nil) /\ \A y : IsValue(y) => IsCell(y)
      BY NilIsValue, ValueIsCell
    <2>3. CASE e.op \in {"const", "field", "min", "max"}
      BY <1>2, <2>2, <2>3 DEF Takes
    <2>4. CASE e.op \in {"count", "sum"}
      BY <1>2, <2>1, <2>2, <2>4 DEF Takes
    <2>5. QED
      BY <1>2, <2>3, <2>4 DEF Takes
  <1>3. e.op \in {"const", "field", "count", "sum", "min", "max"}
    BY DEF Takes
  <1>4. IsCell(v)
    BY <1>2
  <1>5. CASE e.op = "const"
    BY <1>2, <1>5 DEF Alike
  <1>6. CASE e.op \in {"count", "sum"}
    BY <1>2, <1>6 DEF Alike
  <1>7. CASE e.op \in {"field", "min", "max"}
    <2>1. (v = Nil \/ v \in StoredAs(e.name)) /\ (w = Nil \/ w \in StoredAs(e.name))
      BY <1>2, <1>7
    <2>2. Comparable(StoredAs(e.name))
      BY <1>1, <1>7
    <2> DEFINE V == StoredAs(e.name)
    <2>3. \A x, y \in V : IsNumber(x) <=> IsNumber(y)
      BY <2>2, Zenon DEF Comparable
    <2>4. (v = Nil \/ v \in V) /\ (w = Nil \/ w \in V)
      BY <2>1
    <2> HIDE DEF V
    <2>5. CASE v = Nil \/ w = Nil
      BY <1>4, <2>5 DEF Alike
    <2>6. CASE v \in V /\ w \in V
      <3>1. IsNumber(v) <=> IsNumber(w)
        BY <2>3, <2>6
      <3>2. QED
        BY <1>4, <3>1 DEF Alike
    <2>7. QED
      BY <2>4, <2>5, <2>6
  <1>8. QED
    BY <1>3, <1>4, <1>5, <1>6, <1>7


-----------------------------------------------------------------------------
(* The groups                                                              *)

\* The rows whose grouping values are those of r.
GroupWith(r) == {s \in TheRows : \A g \in ToSet(query.groupBy) : FieldValue(g, s) = FieldValue(g, r)}

LEMMA TheGroupsAre == TheGroups = {GroupWith(r) : r \in TheRows}
  BY DEF TheGroups, GroupWith

LEMMA TheRowsAreRows ==
  ASSUME Executes
  PROVE  TheRows \in SUBSET ToSet(table.rows) /\ \A r \in TheRows : IsRow(r)
  <1>1. TheRows \in SUBSET ToSet(table.rows)
    BY DEF TheRows
  <1>2. \A r \in ToSet(table.rows) : IsRow(r)
    BY TableIs, Zenon DEF Executes
  <1>3. QED
    BY <1>1, <1>2

\* Rows whose grouping values render alone have one group key when they have the
\* same grouping values.
LEMMA GroupKeyIs ==
  ASSUME NEW r, NEW s, IsRow(r), IsRow(s), NEW groupBy \in Seq(STRING),
         \A g \in ToSet(groupBy) : RendersAlone(FieldValue(g, r)) /\ RendersAlone(FieldValue(g, s))
  PROVE  GroupKey(groupBy, r) = GroupKey(groupBy, s) <=>
            \A g \in ToSet(groupBy) : FieldValue(g, r) = FieldValue(g, s)
  <1> DEFINE n == Len(groupBy)
             a(i) == FieldValue(groupBy[i], r)
             b(i) == FieldValue(groupBy[i], s)
  <1>1. n \in Nat /\ DOMAIN groupBy = 1..n /\ \A i \in 1..n : groupBy[i] \in ToSet(groupBy)
    BY DEF ToSet
  <1>2. ASSUME NEW x, \A g \in ToSet(groupBy) : RendersAlone(FieldValue(g, x))
        PROVE  GroupKey(groupBy, x) = [i \in 1..n |->
                    <<FieldValue(groupBy[i], x).type, FieldValue(groupBy[i], x).text>>]
    <2> DEFINE list == [i \in 1..n |->
                    <<FieldValue(groupBy[i], x).type, FieldValue(groupBy[i], x).text>>]
               lists == [i \in 1..n |-> Segments(FieldValue(groupBy[i], x))]
    <2>1. \A i \in 1..n : lists[i] = <<list[i]>>
      BY <1>1, <1>2 DEF RendersAlone, Segments
    <2>2. DOMAIN lists = 1..n /\ Len(lists) = n /\ lists = [i \in 1..n |-> lists[i]]
      BY <1>1
    <2>3. GroupKey(groupBy, x) = FlattenSeq(lists)
      BY <1>1 DEF GroupKey
    <2>4. First(list, n) = list
      BY DEF First
    <2> HIDE DEF list, lists, n
    <2>5. FlattenSeq(lists) = First(list, n)
      BY <1>1, <2>1, <2>2, FlattenSingles, Zenon
    <2>6. QED
      BY <2>3, <2>4, <2>5 DEF list
  <1>3. /\ GroupKey(groupBy, r) = [i \in 1..n |-> <<a(i).type, a(i).text>>]
        /\ GroupKey(groupBy, s) = [i \in 1..n |-> <<b(i).type, b(i).text>>]
    BY <1>2
  <1>4. (\A g \in ToSet(groupBy) : FieldValue(g, r) = FieldValue(g, s)) <=> \A i \in 1..n : a(i) = b(i)
    BY <1>1 DEF ToSet
  <1>5. \A i \in 1..n : IsValue(a(i)) /\ IsValue(b(i)) /\ IsScalar(a(i))
    BY <1>1, RowValues DEF RendersAlone
  <1> HIDE DEF a, b, n
  <1>6. GroupKey(groupBy, r) = GroupKey(groupBy, s) <=>
            \A i \in 1..n : <<a(i).type, a(i).text>> = <<b(i).type, b(i).text>>
    BY <1>3
  <1>7. ASSUME NEW i \in 1..n, <<a(i).type, a(i).text>> = <<b(i).type, b(i).text>> PROVE a(i) = b(i)
    <2>1. a(i).type = b(i).type /\ a(i).text = b(i).text
      BY <1>7
    <2>2. QED
      BY <1>5, <2>1, ValueByTypeAndText
  <1>8. QED
    BY <1>4, <1>6, <1>7

\* The groups of a list of rows are the groups owed.
LEMMA GroupOfRow ==
  ASSUME NEW r \in TheRows
  PROVE  /\ r \in GroupWith(r) /\ GroupWith(r) \in TheGroups /\ GroupWith(r) \in SUBSET TheRows
         /\ \A s \in GroupWith(r) : GroupWith(s) = GroupWith(r)
  <1>1. r \in GroupWith(r) /\ GroupWith(r) \in SUBSET TheRows
    BY DEF GroupWith
  <1>2. GroupWith(r) \in TheGroups
    BY TheGroupsAre
  <1>3. \A s \in GroupWith(r) : GroupWith(s) = GroupWith(r)
    BY DEF GroupWith
  <1>4. QED
    BY <1>1, <1>2, <1>3

\* The property speaks of the query and the table at hand.
GroupsApply == query.groupBy # <<>> /\ Executable /\ GroupsSettled

LEMMA GroupByKey ==
  ASSUME Executes, GroupsApply, NEW r \in TheRows
  PROVE  {s \in TheRows : GroupKey(query.groupBy, s) = GroupKey(query.groupBy, r)} = GroupWith(r)
  <1>1. query.groupBy \in Seq(STRING)
    BY QueriesAssumption DEF Executes
  <1>2. \A s \in TheRows : \A g \in ToSet(query.groupBy) : RendersAlone(FieldValue(g, s))
    BY DEF GroupsApply, GroupsSettled
  <1>3. \A s \in TheRows : GroupKey(query.groupBy, s) = GroupKey(query.groupBy, r) <=>
            \A g \in ToSet(query.groupBy) : FieldValue(g, s) = FieldValue(g, r)
    BY <1>1, <1>2, TheRowsAreRows, GroupKeyIs
  <1>4. QED
    BY <1>3 DEF GroupWith

\* G lists the groups of S, in the order of their first rows unless the table is
\* a map.
GroupsInOrder(G, S) ==
    /\ Enumerates(G, S)
    /\ table.kind # "map" =>
            \A k, l \in 1..Len(G) : k < l => Position(FirstOf(G[k])) < Position(FirstOf(G[l]))

\* The row numbers at which a new group starts.
Starts(list) == {i \in DOMAIN list : \A j \in 1..(i - 1) :
                    GroupKey(query.groupBy, list[j]) # GroupKey(query.groupBy, list[i])}

Firsts(list) == Kept([i \in DOMAIN list |-> i], Starts(list))

LEMMA FirstsAre ==
  ASSUME NEW S, NEW list \in Seq(S)
  PROVE  /\ Enumerates(Firsts(list), Starts(list)) /\ Starts(list) \in SUBSET 1..Len(list)
         /\ \A k, l \in 1..Len(Firsts(list)) : k < l => Firsts(list)[k] < Firsts(list)[l]
  <1> DEFINE n == Len(list)
             id == [i \in 1..n |-> i]
             F == Starts(list)
             q == Kept(id, F)
  <1>1. n \in Nat /\ DOMAIN list = 1..n
    OBVIOUS
  <1>2. F \in SUBSET 1..n
    BY <1>1 DEF Starts
  <1> HIDE DEF n, F
  <1>3. Len(id) = n /\ id \in Seq(1..n) /\ \A i \in 1..n : id[i] = i
    BY <1>1
  <1> HIDE DEF id
  <1>4. Enumerates(id, 1..n)
    BY <1>3 DEF Enumerates
  <1>5. /\ Enumerates(q, F)
        /\ \A i, j \in 1..Len(id), k, l \in 1..Len(q) : k < l /\ q[k] = id[i] /\ q[l] = id[j] => i < j
    BY <1>2, <1>4, KeptEnumerates, Zenon
  <1> HIDE DEF q
  <1>6. \A k \in 1..Len(q) : q[k] \in 1..n
    <2>1. q \in Seq(F)
      BY <1>5, Zenon DEF Enumerates
    <2>2. \A k \in 1..Len(q) : q[k] \in F
      BY <2>1
    <2>3. QED
      BY <1>2, <2>2, Zenon
  <1>7. \A k, l \in 1..Len(q) : k < l => q[k] < q[l]
    BY <1>3, <1>5, <1>6
  <1>8. q = Firsts(list)
    BY <1>1 DEF q, id, F, Firsts
  <1>9. QED
    BY <1>2, <1>5, <1>7, <1>8 DEF F, n

\* The list of the groups of a list of rows.
GroupList(list) == [k \in DOMAIN Firsts(list) |-> GroupWith(list[Firsts(list)[k]])]

LEMMA GroupListIs ==
  ASSUME Executes, GroupsApply, NEW list, InOrder(list, TheRows)
  PROVE  GroupsInOrder(GroupList(list), TheGroups)
  <1> DEFINE q == Firsts(list)
             G == GroupList(list)
             m == Len(q)
             n == Len(list)
             key(i) == GroupKey(query.groupBy, list[i])
  <1>1. /\ list \in Seq(TheRows) /\ \A x \in TheRows : \E i \in 1..n : list[i] = x
    BY Zenon DEF InOrder, Enumerates
  <1>2. n \in Nat /\ DOMAIN list = 1..n /\ \A i \in 1..n : list[i] \in TheRows
    BY <1>1
  <1>3. /\ Enumerates(q, Starts(list)) /\ Starts(list) \in SUBSET 1..n
        /\ \A k, l \in 1..m : k < l => q[k] < q[l]
    BY <1>1, FirstsAre, Zenon
  <1>4. /\ q \in Seq(Starts(list)) /\ \A x \in Starts(list) : \E k \in 1..m : q[k] = x
    BY <1>3, Zenon DEF Enumerates
  <1>5. \A i \in 1..n : i \in Starts(list) <=> \A j \in 1..(i - 1) : key(j) # key(i)
    BY <1>2 DEF Starts
  <1> HIDE DEF n
  <1>6. m \in Nat /\ DOMAIN q = 1..m /\ \A k \in 1..m : q[k] \in Starts(list) /\ q[k] \in 1..n
    BY <1>3, <1>4
  <1> HIDE DEF q, m
  <1>7. DOMAIN G = 1..m /\ \A k \in 1..m : G[k] = GroupWith(list[q[k]])
    BY <1>6 DEF GroupList, q
  <1>8. G \in Seq(TheGroups) /\ Len(G) = m
    <2>1. \A k \in 1..m : GroupWith(list[q[k]]) \in TheGroups
      BY <1>2, <1>6, GroupOfRow
    <2>2. G \in [1..m -> TheGroups]
      BY <1>6, <1>7, <2>1 DEF GroupList, q
    <2> HIDE DEF G
    <2>3. QED
      BY <1>6, <2>2
  <1> HIDE DEF G
  <1>9. \A i, j \in 1..n : list[j] \in GroupWith(list[i]) <=> key(j) = key(i)
    <2>1. ASSUME NEW i \in 1..n, NEW j \in 1..n
          PROVE  list[j] \in GroupWith(list[i]) <=> key(j) = key(i)
      <3>1. {s \in TheRows : GroupKey(query.groupBy, s) = GroupKey(query.groupBy, list[i])} = GroupWith(list[i])
        BY <1>2, GroupByKey
      <3>2. QED
        BY <1>2, <3>1
    <2>2. QED
      BY <2>1
  <1> HIDE DEF key
  <1>10. ASSUME NEW k \in 1..m, NEW l \in 1..m, k < l PROVE G[k] # G[l]
    <2>1. SUFFICES ASSUME G[k] = G[l] PROVE FALSE
      OBVIOUS
    <2>2. list[q[k]] \in GroupWith(list[q[k]])
      BY <1>2, <1>6, GroupOfRow
    <2>3. key(q[k]) = key(q[l])
      BY <1>6, <1>7, <1>9, <2>1, <2>2
    <2>4. q[k] \in 1..(q[l] - 1)
      BY <1>3, <1>6, <1>10
    <2>5. key(q[k]) # key(q[l])
      BY <1>5, <1>6, <2>4
    <2>6. QED
      BY <2>3, <2>5
  <1>11. ASSUME NEW T \in TheGroups PROVE \E k \in 1..m : G[k] = T
    <2>1. PICK r \in TheRows : T = GroupWith(r)
      BY TheGroupsAre
    <2>2. PICK i \in 1..n : list[i] = r
      BY <1>1 DEF n
    <2> DEFINE same == {j \in 1..n : key(j) = key(i)}
    <2>3. same \in SUBSET Nat /\ same # {}
      OBVIOUS
    <2>4. PICK f \in same : \A j \in same : f <= j
      BY <2>3, LeastNatural
    <2>5. f \in 1..n /\ key(f) = key(i)
      OBVIOUS
    <2>6. f \in Starts(list)
      <3>1. \A j \in 1..(f - 1) : j \in 1..n /\ ~ (f <= j)
        BY <1>2, <2>5
      <3>2. \A j \in 1..(f - 1) : key(j) # key(f)
        BY <2>4, <2>5, <3>1
      <3>3. QED
        BY <1>5, <2>5, <3>2
    <2>7. PICK k \in 1..m : q[k] = f
      BY <1>4, <2>6 DEF m
    <2>8. list[f] \in GroupWith(r)
      BY <1>9, <2>2, <2>5
    <2>9. GroupWith(list[f]) = GroupWith(r)
      BY <2>8, GroupOfRow
    <2>10. QED
      BY <1>7, <2>1, <2>7, <2>9
  <1>12. Enumerates(G, TheGroups)
    <2>1. \A k, l \in 1..m : G[k] = G[l] => k = l
      BY <1>6, <1>10
    <2>2. QED
      BY <1>8, <1>11, <2>1 DEF Enumerates
  <1>13. ASSUME table.kind # "map", NEW k \in 1..m PROVE FirstOf(G[k]) = list[q[k]]
    <2> DEFINE T == GroupWith(list[q[k]])
               r == list[q[k]]
    <2>1. r \in T /\ T \in SUBSET TheRows
      BY <1>2, <1>6, GroupOfRow
    <2>2. T \in SUBSET ToSet(table.rows) /\ T # {}
      BY <2>1, TheRowsAreRows
    <2> HIDE DEF T, r
    <2>3. \A x \in T : (\A s \in T : Position(x) <= Position(s)) => x = FirstOf(T)
      BY <2>2, FirstOfIs, Zenon
    <2>4. ASSUME NEW s \in T PROVE Position(r) <= Position(s)
      <3>1. PICK j \in 1..n : list[j] = s
        BY <1>1, <2>1 DEF n
      <3>2. key(j) = key(q[k])
        BY <1>6, <1>9, <3>1 DEF T
      <3>3. ~ (j \in 1..(q[k] - 1))
        BY <1>5, <1>6, <3>2
      <3>4. j = q[k] \/ q[k] < j
        BY <1>2, <1>6, <3>3
      <3>5. \A a, b \in 1..n : a < b => Position(list[a]) < Position(list[b])
        BY <1>13, Zenon DEF InOrder, n
      <3>6. \A x \in ToSet(table.rows) : Position(x) \in Nat
        BY PositionIs, Zenon DEF Executes
      <3>7. Position(r) \in Nat /\ Position(s) \in Nat
        BY <2>1, <2>2, <3>6
      <3>8. CASE j = q[k]
        BY <3>1, <3>7, <3>8 DEF r
      <3>9. CASE q[k] < j
        <4>1. Position(list[q[k]]) < Position(list[j])
          BY <1>6, <3>5, <3>9
        <4>2. QED
          BY <3>1, <3>7, <4>1 DEF r
      <3>10. QED
        BY <3>4, <3>8, <3>9
    <2>5. r = FirstOf(T)
      BY <2>1, <2>3, <2>4
    <2>6. QED
      BY <1>7, <2>5 DEF r, T
  <1>14. ASSUME table.kind # "map", NEW k \in 1..m, NEW l \in 1..m, k < l
         PROVE  Position(FirstOf(G[k])) < Position(FirstOf(G[l]))
    <2>1. q[k] < q[l]
      BY <1>3, <1>14 DEF m
    <2>2. \A a, b \in 1..n : a < b => Position(list[a]) < Position(list[b])
      BY <1>14, Zenon DEF InOrder, n
    <2>3. Position(list[q[k]]) < Position(list[q[l]])
      BY <1>6, <2>1, <2>2
    <2>4. QED
      BY <1>13, <1>14, <2>3
  <1>15. GroupsInOrder(G, TheGroups)
    BY <1>8, <1>12, <1>14 DEF GroupsInOrder
  <1>16. QED
    BY <1>15 DEF G


\* What the code makes of the groups.
RecordOf(list) == [T \in TheGroups |->
    [rows |-> Kept(list, T), out |-> GroupOut(query.columns, Kept(list, T))]]

Records(list) ==
    LET parts == Partition(query.groupBy, list)
    IN  [g \in DOMAIN parts |-> [rows |-> parts[g], out |-> GroupOut(query.columns, parts[g])]]

LEMMA PartitionIs ==
  ASSUME Executes, GroupsApply, NEW list, InOrder(list, TheRows)
  PROVE  Records(list) = Image(RecordOf(list), GroupList(list))
  <1> DEFINE q == Firsts(list)
             G == GroupList(list)
             parts == Partition(query.groupBy, list)
  <1>1. /\ list \in Seq(TheRows) /\ \A x \in TheRows : \E i \in 1..Len(list) : list[i] = x
    BY Zenon DEF InOrder, Enumerates
  <1>2. DOMAIN list = 1..Len(list) /\ \A i \in 1..Len(list) : list[i] \in TheRows
    BY <1>1
  <1>3. ToSet(list) = TheRows
    BY <1>1, <1>2 DEF ToSet
  <1>4. parts = [g \in DOMAIN q |-> Kept(list, {r \in ToSet(list) :
                    GroupKey(query.groupBy, r) = GroupKey(query.groupBy, list[q[g]])})]
    BY DEF Partition, Firsts, Starts
  <1>5. \A g \in DOMAIN q : list[q[g]] \in TheRows
    <2>1. Enumerates(q, Starts(list)) /\ Starts(list) \in SUBSET 1..Len(list)
      BY <1>1, FirstsAre, Zenon
    <2>2. q \in Seq(Starts(list))
      BY <2>1, Zenon DEF Enumerates
    <2> HIDE DEF q
    <2>3. \A g \in DOMAIN q : q[g] \in Starts(list)
      BY <2>2
    <2>4. QED
      BY <1>2, <2>1, <2>3, Zenon
  <1>6. DOMAIN G = DOMAIN q /\ \A g \in DOMAIN q : G[g] = GroupWith(list[q[g]])
    BY DEF GroupList
  <1> HIDE DEF q, G, parts
  <1>7. ASSUME NEW g \in DOMAIN q
        PROVE  /\ parts[g] = Kept(list, G[g])
               /\ G[g] \in TheGroups
    <2>1. /\ {r \in TheRows : GroupKey(query.groupBy, r) = GroupKey(query.groupBy, list[q[g]])}
                = GroupWith(list[q[g]])
          /\ GroupWith(list[q[g]]) \in TheGroups
      BY <1>5, GroupByKey, GroupOfRow
    <2>2. parts[g] = Kept(list, {r \in TheRows :
                        GroupKey(query.groupBy, r) = GroupKey(query.groupBy, list[q[g]])})
      BY <1>3, <1>4
    <2>3. QED
      BY <1>6, <2>1, <2>2
  <1>8. DOMAIN parts = DOMAIN q
    BY <1>4
  <1>9. Records(list) = [g \in DOMAIN q |-> [rows |-> parts[g], out |-> GroupOut(query.columns, parts[g])]]
    BY <1>8 DEF Records, parts
  <1>10. \A g \in DOMAIN q :
            RecordOf(list)[G[g]] = [rows |-> parts[g], out |-> GroupOut(query.columns, parts[g])]
    BY <1>7 DEF RecordOf
  <1>11. Image(RecordOf(list), G) = [g \in DOMAIN q |-> RecordOf(list)[G[g]]]
    BY <1>6 DEF Image
  <1>12. QED
    BY <1>9, <1>10, <1>11 DEF G

LEMMA ColumnOfIs ==
  ASSUME NEW columns, columns \in Seq(ToSet(columns)), NEW n \in OutNames(columns)
  PROVE  \E c \in ToSet(columns) : c.name = n /\ ColumnOf(columns, n) = c.expr
  <1> DEFINE D == {i \in DOMAIN columns : columns[i].name = n}
             m == Len(columns)
  <1>1. m \in Nat /\ DOMAIN columns = 1..m
    OBVIOUS
  <1>2. D \in SUBSET (0..m) /\ D # {}
    BY <1>1 DEF OutNames
  <1>3. ColumnOf(columns, n) = columns[Max(D)].expr
    BY DEF ColumnOf
  <1>4. Max(D) \in D
    <2> HIDE DEF D, m
    <2>1. QED
      BY <1>1, <1>2, MaxIs, Zenon
  <1>5. QED
    BY <1>3, <1>4 DEF ToSet

\* What GroupsSettled and the assumptions say of the expressions of a query.
LEMMA ColumnsSettled ==
  ASSUME query \in Queries, GroupsApply, NEW n \in OutNames(query.columns)
  PROVE  /\ SettledExpression(ColumnOf(query.columns, n))
         /\ ColumnOf(query.columns, n).op = "field" /\ table.kind = "map" =>
                ColumnOf(query.columns, n).name \in ToSet(query.groupBy)
         /\ ColumnOf(query.columns, n).op = "sum" =>
                \A S \in TheGroups : TheValue(ColumnOf(query.columns, n), S).num <= Exact
  <1>1. /\ query.columns \in Seq(ToSet(query.columns))
        /\ \A c \in ToSet(query.columns) : IsExpression(c.expr)
    <2>1. /\ query.columns \in Seq(ToSet(query.columns))
          /\ \A c \in ToSet(query.columns) : IsExpression(c.expr) \/ c.expr.op = "all"
      BY QueriesAssumption DEF GroupsApply
    <2>2. \A c \in ToSet(query.columns) : c.expr.op # "all"
      BY DEF GroupsApply, Executable, Wildcard, ToSet
    <2>3. QED
      BY <2>1, <2>2
  <1>2. PICK c \in Columns : ColumnOf(query.columns, n) = c.expr
    BY <1>1, ColumnOfIs DEF Columns
  <1>3. c.expr.op # "const" => /\ Comparable(StoredAs(c.expr.name))
                               /\ table.kind = "map" => ToldApart(StoredAs(c.expr.name))
    BY DEF GroupsApply, GroupsSettled
  <1>4. table.kind = "map" /\ c.expr.op = "field" => c.expr.name \in ToSet(query.groupBy)
    BY DEF GroupsApply, GroupsSettled
  <1>5. IsExpression(c.expr)
    BY <1>1 DEF Columns
  <1>6. c.expr.op = "sum" => \A S \in TheGroups : TheValue(c.expr, S).num <= Exact
    BY DEF GroupsApply, GroupsSettled
  <1>7. QED
    BY <1>2, <1>3, <1>4, <1>5, <1>6 DEF SettledExpression

LEMMA SidesSettled ==
  ASSUME query \in Queries, GroupsApply, NEW i \in DOMAIN query.having,
         query.having[i].op \notin Groups,
         NEW e \in {query.having[i].left, query.having[i].right}
  PROVE  /\ query.having[i].op \in Comparisons /\ SettledExpression(e)
         /\ e.op = "field" /\ table.kind = "map" => e.name \in OutNames(query.columns)
         /\ e.op = "sum" => \A S \in TheGroups : TheValue(e, S).num <= Exact
  <1>1. query.having[i].op \in Comparisons
    BY DEF GroupsApply, Executable, Supported
  <1>2. IsExpression(e)
    BY <1>1, QueriesAssumption
  <1>3. e \in Sides(query.having)
    BY DEF Sides
  <1>4. e.op # "const" => /\ Comparable(StoredAs(e.name))
                          /\ table.kind = "map" => ToldApart(StoredAs(e.name))
    BY <1>3 DEF GroupsApply, GroupsSettled
  <1>5. table.kind = "map" /\ e.op = "field" => e.name \in OutNames(query.columns)
    BY <1>3 DEF GroupsApply, GroupsSettled
  <1>6. e.op = "sum" => \A S \in TheGroups : TheValue(e, S).num <= Exact
    BY <1>3 DEF GroupsApply, GroupsSettled
  <1>7. QED
    BY <1>1, <1>2, <1>4, <1>5, <1>6 DEF SettledExpression

\* In a map of records, the rows of a group agree on the grouping fields.
LEMMA GroupingAgrees ==
  ASSUME GroupsApply, table.kind = "map", NEW T \in TheGroups, NEW f \in ToSet(query.groupBy)
  PROVE  Agree(T, f) /\ f # "$id"
  <1>1. f # "$id"
    BY DEF GroupsApply, GroupsSettled
  <1>2. \A r : FieldValue(f, r) = FieldOf(r.data, f)
    BY <1>1 DEF FieldValue, Resolve
  <1>3. PICK r \in TheRows : T = GroupWith(r)
    BY TheGroupsAre
  <1>4. \A s \in T : FieldValue(f, s) = FieldValue(f, r)
    BY <1>3 DEF GroupWith
  <1>5. QED
    BY <1>1, <1>2, <1>4 DEF Agree

\* The groups are sets of rows.
LEMMA GroupsAreRows ==
  ASSUME Executes, NEW T \in TheGroups
  PROVE  T \in SUBSET TheRows /\ T \in SUBSET ToSet(table.rows) /\ T # {}
  <1>1. PICK r \in TheRows : T = GroupWith(r)
    BY TheGroupsAre
  <1>2. r \in T /\ T \in SUBSET TheRows
    BY <1>1, GroupOfRow
  <1>3. QED
    BY <1>2, TheRowsAreRows

LEMMA OutIs ==
  ASSUME Executes, GroupsApply, NEW T \in TheGroups, NEW p, InOrder(p, T)
  PROVE  GroupOut(query.columns, p) = TheOut(T)
  <1>1. T \in SUBSET ToSet(table.rows) /\ T # {} /\ query \in Queries
    BY GroupsAreRows, Zenon DEF Executes
  <1>2. ASSUME NEW n \in OutNames(query.columns)
        PROVE  ResolveGroup(ColumnOf(query.columns, n), p) = TheValue(ColumnOf(query.columns, n), T)
    <2> DEFINE e == ColumnOf(query.columns, n)
    <2>1. /\ SettledExpression(e)
          /\ e.op = "field" /\ table.kind = "map" => e.name \in ToSet(query.groupBy)
          /\ e.op = "sum" => \A S \in TheGroups : TheValue(e, S).num <= Exact
      BY <1>1, <1>2, ColumnsSettled, Zenon
    <2> HIDE DEF e
    <2>2. e.op = "field" /\ table.kind = "map" => Agree(T, e.name)
      BY <2>1, GroupingAgrees
    <2>3. ResolveGroup(e, p) = TheValue(e, T)
      BY <1>1, <2>1, <2>2, ResolveGroupIs
    <2>4. QED
      BY <2>3 DEF e
  <1>3. QED
    BY <1>2 DEF GroupOut, TheOut

\* HAVING admits the groups owed.
LEMMA HavingIs ==
  ASSUME Executes, GroupsApply, NEW T \in TheGroups, NEW p, InOrder(p, T),
         NEW group, group.rows = p, group.out = TheOut(T)
  PROVE  /\ MatchesHaving(query.having, group) \in {"yes", "no"}
         /\ MatchesHaving(query.having, group) = "yes" <=> T \in Admitted
  <1> DEFINE c == query.having
             simple == [i \in DOMAIN c |-> MatchesSimple(c[i], group)]
             S == {i \in DOMAIN c : SaysOf(c[i], T)}
             value(e) == IF e.op = "field" /\ e.name \in OutNames(query.columns)
                         THEN TheOut(T)[e.name] ELSE TheValue(e, T)
  <1>1. T \in SUBSET ToSet(table.rows) /\ T # {} /\ query \in Queries
    BY GroupsAreRows, Zenon DEF Executes
  <1>2. IsCondition(c)
    BY <1>1, QueriesAssumption
  <1>3. DOMAIN c = 1..Len(c)
    BY <1>2, ConditionIs, Zenon
  <1>4. DOMAIN TheOut(T) = OutNames(query.columns)
    BY DEF TheOut
  <1>5. ASSUME NEW i \in DOMAIN c, c[i].op \notin Groups, NEW e \in {c[i].left, c[i].right}
        PROVE  ResolveHaving(e, group) = value(e)
    <2>1. /\ SettledExpression(e)
          /\ e.op = "field" /\ table.kind = "map" => e.name \in OutNames(query.columns)
          /\ e.op = "sum" => \A G \in TheGroups : TheValue(e, G).num <= Exact
      BY <1>1, <1>5, SidesSettled
    <2>2. ResolveHaving(e, group) = IF e.op = "field" /\ e.name \in OutNames(query.columns)
                                    THEN TheOut(T)[e.name] ELSE ResolveGroup(e, p)
      BY <1>4 DEF ResolveHaving
    <2>3. ASSUME ~ (e.op = "field" /\ e.name \in OutNames(query.columns))
          PROVE  ResolveGroup(e, p) = TheValue(e, T)
      <3>1. ~ (e.op = "field" /\ table.kind = "map")
        BY <2>1, <2>3
      <3>2. QED
        BY <1>1, <2>1, <3>1, ResolveGroupIs
    <2>4. QED
      BY <2>2, <2>3
  <1>6. ASSUME NEW i \in 1..Len(c), c[i].op \notin Groups
        PROVE  simple[i] \in {"yes", "no"} /\ (i \in S <=> simple[i] = "yes")
    <2>1. i \in DOMAIN c
      BY <1>3
    <2>2. c[i].op \in Comparisons
      BY <1>1, <1>6, <2>1, SidesSettled
    <2> DEFINE l == c[i].left
               r == c[i].right
    <2>3. ResolveHaving(l, group) = value(l) /\ ResolveHaving(r, group) = value(r)
      BY <1>5, <1>6, <2>1
    <2>4. simple[i] = Verdict(Related(c[i].op, CompareValues(ResolveHaving(l, group), ResolveHaving(r, group))))
      BY <2>1, <2>2 DEF MatchesSimple
    <2>5. SaysOf(c[i], T) <=> Related(c[i].op, CompareValues(value(l), value(r)))
      BY <1>4, <2>2 DEF SaysOf
    <2> HIDE DEF value, simple, l, r
    <2>6. simple[i] = Verdict(Related(c[i].op, CompareValues(value(l), value(r))))
      BY <2>3, <2>4
    <2>7. QED
      BY <2>1, <2>5, <2>6 DEF Verdict
  <1>7. T \in Admitted <=> IsTrue(c, S)
    BY DEF Admitted
  <1>8. MatchesHaving(c, group) = Evaluate(c, simple)
    BY DEF MatchesHaving
  <1> HIDE DEF c, simple, S, value
  <1>9. Evaluate(c, simple) \in {"yes", "no"} /\ (Evaluate(c, simple) = "yes" <=> IsTrue(c, S))
    BY <1>2, <1>6, EvaluateIs
  <1>10. QED
    BY <1>7, <1>8, <1>9 DEF c


-----------------------------------------------------------------------------
(* The order of the groups                                                 *)

\* What an output column shows of a group.
LEMMA OutValueIs ==
  ASSUME Executes, GroupsApply, NEW T \in TheGroups, NEW name
  PROVE  FieldOf(TheOut(T), name) = IF name \in OutNames(query.columns)
                                    THEN TheValue(ColumnOf(query.columns, name), T) ELSE Nil
  BY DEF FieldOf, TheOut

LEMMA OutValuesAlike ==
  ASSUME Executes, GroupsApply, NEW T \in TheGroups, NEW U \in TheGroups
  PROVE  AlikeVectors(Len(query.orderBy), OutValues(query.orderBy, TheOut(T)),
                      OutValues(query.orderBy, TheOut(U)))
  <1> DEFINE n == Len(query.orderBy)
             name(i) == query.orderBy[i].name
             u == OutValues(query.orderBy, TheOut(T))
             v == OutValues(query.orderBy, TheOut(U))
  <1>1. query \in Queries
    BY Zenon DEF Executes
  <1>2. n \in Nat /\ DOMAIN query.orderBy = 1..n
    BY <1>1, OrderByIs, Zenon
  <1>3. \A i \in 1..n : u[i] = FieldOf(TheOut(T), name(i)) /\ v[i] = FieldOf(TheOut(U), name(i))
    BY <1>2 DEF OutValues
  <1>4. /\ T \in SUBSET ToSet(table.rows) /\ T # {}
        /\ U \in SUBSET ToSet(table.rows) /\ U # {}
    BY GroupsAreRows, Zenon
  <1>5. ASSUME NEW x
        PROVE  LET a == FieldOf(TheOut(T), x)
                   b == FieldOf(TheOut(U), x)
               IN  IsCell(a) /\ IsCell(b) /\ Alike(a, b)
    <2> DEFINE e == ColumnOf(query.columns, x)
    <2>1. CASE x \in OutNames(query.columns)
      <3>1. SettledExpression(e)
        BY <1>1, <2>1, ColumnsSettled, Zenon
      <3>2. FieldOf(TheOut(T), x) = TheValue(e, T) /\ FieldOf(TheOut(U), x) = TheValue(e, U)
        BY <2>1, OutValueIs
      <3> HIDE DEF e
      <3>3. Takes(e, TheValue(e, T)) /\ Takes(e, TheValue(e, U))
        BY <1>4, <3>1, TheValueTakes
      <3>4. /\ IsCell(TheValue(e, T)) /\ IsCell(TheValue(e, U))
            /\ Alike(TheValue(e, T), TheValue(e, U))
        BY <3>1, <3>3, TakesAlike, Zenon
      <3>5. QED
        BY <3>2, <3>4
    <2>2. CASE x \notin OutNames(query.columns)
      <3>1. FieldOf(TheOut(T), x) = Nil /\ FieldOf(TheOut(U), x) = Nil
        BY <2>2, OutValueIs
      <3>2. IsCell(Nil) /\ Alike(Nil, Nil)
        BY DEF IsCell, Alike
      <3>3. QED
        BY <3>1, <3>2
    <2>3. QED
      BY <2>1, <2>2
  <1> HIDE DEF n, u, v, name
  <1>6. AlikeVectors(n, u, v)
    BY <1>3, <1>5 DEF AlikeVectors
  <1>7. QED
    BY <1>6 DEF n, u, v

LEMMA GroupsWeaklyOrdered ==
  ASSUME Executes, GroupsApply, NEW S \in SUBSET TheGroups
  PROVE  IsWeakOrder(S, {p \in S \X S : GroupLess(query.orderBy, TheOut(p[1]), TheOut(p[2]))})
  <1> DEFINE L == {p \in S \X S : GroupLess(query.orderBy, TheOut(p[1]), TheOut(p[2]))}
             n == Len(query.orderBy)
             val(T) == OutValues(query.orderBy, TheOut(T))
  <1>1. \A a, b \in S : <<a, b>> \in L <=> LessBy(query.orderBy, val(a), val(b))
    BY DEF GroupLess
  <1>2. n \in Nat /\ DOMAIN query.orderBy = 1..n
    BY OrderByIs, Zenon DEF Executes
  <1>3. \A a, b \in S : AlikeVectors(n, val(a), val(b))
    BY OutValuesAlike
  <1> HIDE DEF L, n, val
  <1>4. \A a, b \in S : <<a, b>> \in L => <<b, a>> \notin L
    BY <1>1, <1>2, <1>3, LessByAsymmetric, Zenon
  <1>5. ASSUME NEW a \in S, NEW b \in S, NEW c \in S, <<a, b>> \in L
        PROVE  <<a, c>> \in L \/ <<c, b>> \in L
    <2>1. LessBy(query.orderBy, val(a), val(b))
      BY <1>1, <1>5, Zenon
    <2>2. AlikeVectors(n, val(a), val(b)) /\ AlikeVectors(n, val(a), val(c)) /\ AlikeVectors(n, val(c), val(b))
      BY <1>3, Zenon
    <2>3. LessBy(query.orderBy, val(a), val(c)) \/ LessBy(query.orderBy, val(c), val(b))
      BY <1>2, <2>1, <2>2, LessByBetween, Zenon
    <2>4. QED
      BY <1>1, <2>3, Zenon
  <1>6. IsWeakOrder(S, L)
    BY <1>4, <1>5, Zenon DEF IsWeakOrder
  <1>7. QED
    BY <1>6 DEF L

\* The groups of a map of records do not tie: the order looks at every grouping
\* field, and the values of these are told apart.
LEMMA GroupsDoNotTie ==
  ASSUME Executes, GroupsApply, table.kind = "map", NEW T \in TheGroups, NEW U \in TheGroups, T # U
  PROVE  \/ GroupLess(query.orderBy, TheOut(T), TheOut(U))
         \/ GroupLess(query.orderBy, TheOut(U), TheOut(T))
  <1> DEFINE n == Len(query.orderBy)
             u == OutValues(query.orderBy, TheOut(T))
             v == OutValues(query.orderBy, TheOut(U))
  <1>1. SUFFICES ASSUME ~LessBy(query.orderBy, u, v), ~LessBy(query.orderBy, v, u) PROVE FALSE
    BY DEF GroupLess
  <1>2. table \in Tables /\ query \in Queries
    BY Zenon DEF Executes
  <1>3. n \in Nat /\ DOMAIN query.orderBy = 1..n
    BY <1>2, OrderByIs, Zenon
  <1>4. AlikeVectors(n, u, v)
    BY OutValuesAlike, Zenon
  <1>5. \A i \in 1..n : CompareValues(u[i], v[i]) = 0
    <2> HIDE DEF n, u, v
    <2>1. QED
      BY <1>1, <1>3, <1>4, LessByTies, Zenon
  <1>6. ASSUME NEW f \in ToSet(query.groupBy), NEW r \in T, NEW s \in U
        PROVE  FieldValue(f, r) = FieldValue(f, s)
    <2> DEFINE field == [op |-> "field", name |-> f]
    <2>1. /\ f \in OrderNames /\ f \in OutNames(query.columns)
          /\ ColumnOf(query.columns, f) = field
      BY DEF GroupsApply, GroupsSettled
    <2>2. f # "$id" /\ Agree(T, f) /\ Agree(U, f)
      BY GroupingAgrees
    <2>3. SettledExpression(field)
      BY <1>2, <2>1, ColumnsSettled
    <2>4. ToldApart(StoredAs(f)) /\ Comparable(StoredAs(f))
      BY <2>3 DEF SettledExpression
    <2>5. PICK i \in 1..n : query.orderBy[i].name = f
      BY <1>3, <2>1 DEF OrderNames
    <2>6. u[i] = TheValue(field, T) /\ v[i] = TheValue(field, U)
      <3>1. u[i] = FieldOf(TheOut(T), f) /\ v[i] = FieldOf(TheOut(U), f)
        BY <1>3, <2>5 DEF OutValues
      <3>2. QED
        BY <2>1, <3>1, OutValueIs
    <2>7. TheValue(field, T) = FieldOf(FirstOf(T).data, f) /\ TheValue(field, U) = FieldOf(FirstOf(U).data, f)
      BY DEF TheValue
    <2>8. /\ T \in SUBSET ToSet(table.rows) /\ T # {} /\ U \in SUBSET ToSet(table.rows) /\ U # {}
      BY GroupsAreRows, Zenon
    <2>9. FirstOf(T) \in T /\ FirstOf(U) \in U
      BY <2>8, FirstOfIs, Zenon
    <2>10. FieldOf(FirstOf(T).data, f) = FieldOf(r.data, f) /\ FieldOf(FirstOf(U).data, f) = FieldOf(s.data, f)
      BY <2>2, <2>9 DEF Agree
    <2>11. CompareValues(FieldOf(r.data, f), FieldOf(s.data, f)) = 0
      BY <1>5, <2>6, <2>7, <2>10
    <2>12. /\ IsValue(FieldOf(r.data, f)) /\ IsValue(FieldOf(s.data, f))
           /\ FieldOf(r.data, f) = Nil \/ FieldOf(r.data, f) \in StoredAs(f)
           /\ FieldOf(s.data, f) = Nil \/ FieldOf(s.data, f) \in StoredAs(f)
      BY <1>2, <2>4, <2>8, StoredCells
    <2>13. FieldOf(r.data, f) = FieldOf(s.data, f)
      BY <2>4, <2>11, <2>12, ToldApartIs
    <2>14. QED
      BY <2>2, <2>13 DEF FieldValue, Resolve
  <1>7. PICK r \in TheRows : T = GroupWith(r)
    BY TheGroupsAre
  <1>8. PICK s \in TheRows : U = GroupWith(s)
    BY TheGroupsAre
  <1>9. r \in T /\ s \in U
    BY <1>7, <1>8, GroupOfRow
  <1>10. \A f \in ToSet(query.groupBy) : FieldValue(f, r) = FieldValue(f, s)
    BY <1>6, <1>9
  <1>11. GroupWith(r) = GroupWith(s)
    BY <1>10 DEF GroupWith
  <1>12. QED
    BY <1>7, <1>8, <1>11

TheGroupRanking == Ranked(Admitted, {p \in Admitted \X Admitted : GroupBefore(p[1], p[2])})

\* Whatever order the records are read in, the sorted groups are the ranking.
LEMMA SortedGroupsAreTheRanking ==
  ASSUME Executes, GroupsApply, NEW G, GroupsInOrder(G, TheGroups)
  PROVE  /\ TheGroupRanking \in Seq(Admitted)
         /\ SliceStable(Kept(G, Admitted), {p \in Admitted \X Admitted :
                GroupLess(query.orderBy, TheOut(p[1]), TheOut(p[2]))}) = TheGroupRanking
  <1> DEFINE S == Admitted
             A == Kept(G, S)
             L == {p \in S \X S : GroupLess(query.orderBy, TheOut(p[1]), TheOut(p[2]))}
             place == [T \in S |-> Position(FirstOf(T))]
  <1>1. S \in SUBSET TheGroups
    BY DEF Admitted
  <1>2. Enumerates(G, TheGroups)
    BY Zenon DEF GroupsInOrder
  <1>3. /\ Enumerates(A, S)
        /\ \A i, j \in 1..Len(G), k, l \in 1..Len(A) : k < l /\ A[k] = G[i] /\ A[l] = G[j] => i < j
    BY <1>1, <1>2, KeptEnumerates, Zenon
  <1>4. IsWeakOrder(S, L)
    BY <1>1, GroupsWeaklyOrdered, Zenon
  <1>5. \A T \in TheGroups : Position(FirstOf(T)) \in Nat
    <2>1. \A T \in TheGroups : T \in SUBSET ToSet(table.rows) /\ T # {}
      BY GroupsAreRows, Zenon
    <2>2. QED
      BY <2>1, FirstOfIs
  <1>6. place \in [S -> Int]
    BY <1>1, <1>5
  <1>7. \A T \in S : place[T] = Position(FirstOf(T))
    OBVIOUS
  <1>8. \A p \in S \X S : p \in L <=> GroupLess(query.orderBy, TheOut(p[1]), TheOut(p[2]))
    OBVIOUS
  <1>9. {p \in S \X S : GroupBefore(p[1], p[2])} = TiesBy(S, L, place)
    <2> HIDE DEF S, L, place
    <2>1. \A T, U \in S : GroupBefore(T, U) <=>
            <<T, U>> \in L \/ (<<U, T>> \notin L /\ place[T] < place[U])
      BY <1>7, <1>8 DEF GroupBefore
    <2>2. QED
      BY <2>1 DEF TiesBy
  <1> HIDE DEF A, place, L, S
  <1>10. A \in Seq(S) /\ \A x \in S : \E k \in 1..Len(A) : A[k] = x
    BY <1>3, Zenon DEF Enumerates
  <1>11. ASSUME NEW i \in 1..Len(A), NEW j \in 1..Len(A), i < j
         PROVE  \/ <<A[i], A[j]>> \in L
                \/ <<A[j], A[i]>> \in L
                \/ place[A[i]] < place[A[j]]
    <2>1. A[i] \in S /\ A[j] \in S /\ A[i] \in TheGroups /\ A[j] \in TheGroups
      BY <1>1, <1>10
    <2>2. A[i] # A[j]
      BY <1>3, <1>11 DEF Enumerates
    <2>3. CASE table.kind = "map"
      <3>1. \/ GroupLess(query.orderBy, TheOut(A[i]), TheOut(A[j]))
            \/ GroupLess(query.orderBy, TheOut(A[j]), TheOut(A[i]))
        BY <2>1, <2>2, <2>3, GroupsDoNotTie
      <3>2. QED
        BY <1>8, <2>1, <3>1
    <2>4. CASE table.kind # "map"
      <3>1. PICK k \in 1..Len(G) : G[k] = A[i]
        BY <1>2, <2>1, Zenon DEF Enumerates
      <3>2. PICK l \in 1..Len(G) : G[l] = A[j]
        BY <1>2, <2>1, Zenon DEF Enumerates
      <3>3. k < l
        BY <1>3, <1>11, <3>1, <3>2
      <3>4. Position(FirstOf(G[k])) < Position(FirstOf(G[l]))
        BY <2>4, <3>3 DEF GroupsInOrder
      <3>5. QED
        BY <1>7, <2>1, <3>1, <3>2, <3>4
    <2>5. QED
      BY <2>3, <2>4
  <1>12. SliceStable(A, L) \in Seq(S) /\ SliceStable(A, L) = Ranked(S, TiesBy(S, L, place))
    BY <1>4, <1>6, <1>10, <1>11, StableRanks, Zenon
  <1>13. QED
    BY <1>9, <1>12 DEF TheGroupRanking, S, A, L


-----------------------------------------------------------------------------
(* The pages of a grouped query                                            *)

\* The records of a page of groups.
GroupRows(page) == [i \in DOMAIN page |-> [key |-> Number("int", i - 1), data |-> page[i].out]]

LEMMA RecordIs ==
  ASSUME Executes, GroupsApply, NEW list, InOrder(list, TheRows), NEW T \in TheGroups
  PROVE  /\ RecordOf(list)[T].out = TheOut(T)
         /\ MatchesHaving(query.having, RecordOf(list)[T]) \in {"yes", "no"}
         /\ MatchesHaving(query.having, RecordOf(list)[T]) = "yes" <=> T \in Admitted
  <1> DEFINE p == Kept(list, T)
             group == RecordOf(list)[T]
  <1>1. T \in SUBSET TheRows
    BY GroupsAreRows, Zenon
  <1>2. InOrder(p, T)
    BY <1>1, KeptInOrder, Zenon
  <1>3. GroupOut(query.columns, p) = TheOut(T)
    BY <1>2, OutIs, Zenon
  <1>4. group.rows = p /\ group.out = GroupOut(query.columns, p)
    BY DEF RecordOf
  <1> HIDE DEF group, p
  <1>5. group.out = TheOut(T)
    BY <1>3, <1>4
  <1>6. /\ MatchesHaving(query.having, group) \in {"yes", "no"}
        /\ MatchesHaving(query.having, group) = "yes" <=> T \in Admitted
    BY <1>2, <1>4, <1>5, HavingIs
  <1>7. QED
    BY <1>5, <1>6 DEF group

\* What a page of a grouped query holds.
LEMMA GroupedPage ==
  ASSUME Executes, GroupsApply, NEW list, InOrder(list, TheRows), NEW k
  PROVE  /\ TheGroupRanking \in Seq(Admitted)
         /\ ApplyGroupBy(query, list, k) =
                Returned(GroupRows(Page(Image(RecordOf(list), TheGroupRanking), k, query.limit)))
  <1> DEFINE groups == Records(list)
             G == GroupList(list)
             rec == RecordOf(list)
             verdict(g) == MatchesHaving(query.having, g)
             V == {g \in ToSet(groups) : verdict(g) = "yes"}
             kept == Kept(groups, V)
             M == {p \in ToSet(kept) \X ToSet(kept) : GroupLess(query.orderBy, p[1].out, p[2].out)}
             A == Kept(G, Admitted)
             L == {p \in Admitted \X Admitted : GroupLess(query.orderBy, TheOut(p[1]), TheOut(p[2]))}
  <1>1. ApplyGroupBy(query, list, k) =
            IF \E g \in ToSet(groups) : verdict(g) = "error" THEN Failed
            ELSE Returned(GroupRows(Page(SliceStable(kept, M), k, query.limit)))
    <2>1. ~Wildcard(query)
      BY DEF GroupsApply, Executable
    <2>2. QED
      BY <2>1 DEF ApplyGroupBy, Records, GroupRows
  <1>2. GroupsInOrder(G, TheGroups)
    BY GroupListIs, Zenon
  <1>3. groups = Image(rec, G)
    BY PartitionIs, Zenon
  <1>4. TheGroupRanking \in Seq(Admitted) /\ SliceStable(A, L) = TheGroupRanking
    BY <1>2, SortedGroupsAreTheRanking, Zenon
  <1>5. \A T \in TheGroups : /\ rec[T].out = TheOut(T) /\ verdict(rec[T]) \in {"yes", "no"}
                             /\ verdict(rec[T]) = "yes" <=> T \in Admitted
    BY RecordIs
  <1>6. Enumerates(G, TheGroups)
    BY <1>2, Zenon DEF GroupsInOrder
  <1>7. G \in Seq(TheGroups) /\ \A T \in TheGroups : \E i \in 1..Len(G) : G[i] = T
    BY <1>6, Zenon DEF Enumerates
  <1>8. Admitted \in SUBSET TheGroups
    BY DEF Admitted
  <1>9. \A p \in ToSet(kept) \X ToSet(kept) : p \in M <=> GroupLess(query.orderBy, p[1].out, p[2].out)
    OBVIOUS
  <1>10. M \in SUBSET (ToSet(kept) \X ToSet(kept))
    OBVIOUS
  <1>11. \A a, b \in Admitted : <<a, b>> \in L <=> GroupLess(query.orderBy, TheOut(a), TheOut(b))
    OBVIOUS
  <1>12. \A g : g \in V <=> g \in ToSet(groups) /\ verdict(g) = "yes"
    OBVIOUS
  <1> HIDE DEF groups, G, rec, verdict, V, M, L
  <1>13. ToSet(groups) = {rec[T] : T \in TheGroups}
    <2>1. DOMAIN Image(rec, G) = 1..Len(G) /\ \A i \in 1..Len(G) : Image(rec, G)[i] = rec[G[i]]
      BY <1>7, ImageIs
    <2>2. \A i \in 1..Len(G) : G[i] \in TheGroups
      BY <1>7
    <2>3. QED
      BY <1>3, <1>7, <2>1, <2>2 DEF ToSet
  <1>14. \A g \in ToSet(groups) : verdict(g) # "error"
    BY <1>5, <1>13
  <1>15. \A T \in TheGroups : T \in Admitted <=> rec[T] \in V
    BY <1>5, <1>12, <1>13
  <1>16. kept = Image(rec, A)
    <2>1. Kept(Image(rec, G), V) = Image(rec, Kept(G, Admitted))
      BY <1>7, <1>15, KeptImage
    <2>2. QED
      BY <1>3, <2>1
  <1>17. A \in Seq(Admitted) /\ \A T \in Admitted : \E i \in 1..Len(A) : A[i] = T
    <2>1. Enumerates(A, Admitted)
      BY <1>6, <1>8, KeptEnumerates, Zenon
    <2>2. QED
      BY <2>1, Zenon DEF Enumerates
  <1> HIDE DEF kept, A
  <1>18. \A T \in Admitted : rec[T] \in ToSet(kept)
    <2>1. DOMAIN Image(rec, A) = 1..Len(A) /\ \A i \in 1..Len(A) : Image(rec, A)[i] = rec[A[i]]
      BY <1>17, ImageIs
    <2>2. QED
      BY <1>16, <1>17, <2>1 DEF ToSet
  <1>19. Mirrors(Admitted, rec, L, M)
    <2>1. ASSUME NEW a \in Admitted, NEW b \in Admitted
          PROVE  <<a, b>> \in L <=> <<rec[a], rec[b]>> \in M
      <3>1. <<rec[a], rec[b]>> \in ToSet(kept) \X ToSet(kept)
        BY <1>18
      <3>2. <<rec[a], rec[b]>> \in M <=> GroupLess(query.orderBy, rec[a].out, rec[b].out)
        BY <1>9, <3>1
      <3>3. rec[a].out = TheOut(a) /\ rec[b].out = TheOut(b)
        BY <1>5, <1>8
      <3>4. QED
        BY <1>11, <3>2, <3>3
    <2>2. QED
      BY <2>1, Zenon DEF Mirrors
  <1>20. SliceStable(Image(rec, A), M) = Image(rec, SliceStable(A, L))
    BY <1>17, <1>19, SliceStableImage
  <1>21. QED
    BY <1>1, <1>4, <1>14, <1>16, <1>20 DEF rec

\* What a query that can be executed returns for a page of groups.
LEMMA GroupsExecute ==
  ASSUME table \in Tables, query \in Queries, GroupsApply, NEW o \in ReadOrders(table), NEW k
  PROVE  /\ TheGroupRanking \in Seq(Admitted)
         /\ \E list :
                /\ InOrder(list, TheRows)
                /\ Execute(query, o, k) = Returned(GroupRows(
                        Page(Image(RecordOf(list), TheGroupRanking), k, query.limit)))
  <1> DEFINE list == ApplyWhere(query, o)
  <1>1. Executes
    BY ExecutableExecutes, Zenon DEF GroupsApply
  <1>2. Supported(query.where, WhereKinds)
    BY <1>1, Zenon DEF Executes
  <1>3. InOrder(o, ToSet(table.rows))
    BY <1>1, ReadInOrder, Zenon
  <1>4. Enumerates(o, ToSet(table.rows))
    BY <1>3, Zenon DEF InOrder
  <1>5. /\ \A r \in ToSet(o) : EvaluateCondition(query.where, r) # "error"
        /\ list = Kept(o, TheRows) /\ TheRows \in SUBSET ToSet(table.rows)
    BY <1>2, <1>4, WhereKeepsTheRows, Zenon
  <1>6. InOrder(list, TheRows)
    <2>1. InOrder(Kept(o, TheRows), TheRows)
      BY <1>3, <1>5, KeptInOrder, Zenon
    <2>2. QED
      BY <1>5, <2>1
  <1>7. Execute(query, o, k) = ApplyGroupBy(query, list, k)
    <2>1. query.groupBy # <<>>
      BY Zenon DEF GroupsApply
    <2>2. QED
      BY <1>5, <2>1, Zenon DEF Execute
  <1> HIDE DEF list
  <1>8. /\ TheGroupRanking \in Seq(Admitted)
        /\ ApplyGroupBy(query, list, k) =
                Returned(GroupRows(Page(Image(RecordOf(list), TheGroupRanking), k, query.limit)))
    BY <1>1, <1>6, GroupedPage, Zenon
  <1>9. QED
    BY <1>6, <1>7, <1>8


ShownGroup == [T \in Admitted |-> TheOut(T)]

\* The records hold the first k elements of s, as the function F shows them.
Hold(rows, F, s, k) ==
    /\ rows \in Seq(ToSet(rows)) /\ Len(rows) = k
    /\ \A i \in 1..k : rows[i].data = F[s[i]]

\* The answer shows the first groups of the ranking, and all of them at the end.
GroupsSoFar ==
    \E k \in 0..Len(TheGroupRanking) :
        /\ Hold(answer, ShownGroup, TheGroupRanking, k)
        /\ status = "done" => k = Len(TheGroupRanking)

GroupsInv ==
    /\ table \in Tables /\ query \in Queries
    /\ GroupsApply => GroupsSoFar

LEMMA GroupRankingIsSeq ==
  ASSUME table \in Tables, query \in Queries, GroupsApply
  PROVE  TheGroupRanking \in Seq(Admitted)
  <1>1. ReadOrders(table) # {}
    BY ExecutableExecutes, Zenon DEF GroupsApply
  <1>2. QED
    BY <1>1, GroupsExecute, Zenon

\* A page keeps the answer a part of the ranking.
LEMMA PageKeepsGroups ==
  ASSUME table \in Tables, query \in Queries, GroupsApply, NEW out \in Outcomes,
         NEW k \in 0..Len(TheGroupRanking), Hold(answer, ShownGroup, TheGroupRanking, k)
  PROVE  /\ ~out.failed
         /\ \E m \in k..Len(TheGroupRanking) : Hold(answer \o out.rows, ShownGroup, TheGroupRanking, m)
         /\ out.rows = <<>> => k = Len(TheGroupRanking)
  <1> DEFINE s == TheGroupRanking
             n == Len(s)
  <1>1. PICK o \in ReadOrders(table) : out = Execute(query, o, Len(answer))
    BY ExecutableExecutes DEF GroupsApply
  <1>2. answer \in Seq(ToSet(answer)) /\ Len(answer) = k
    BY Zenon DEF Hold
  <1>3. out = Execute(query, o, k)
    BY <1>1, <1>2
  <1>4. PICK list : /\ InOrder(list, TheRows)
                    /\ out = Returned(GroupRows(Page(Image(RecordOf(list), s), k, query.limit)))
    <2>1. \E list : /\ InOrder(list, TheRows)
                    /\ Execute(query, o, k) =
                        Returned(GroupRows(Page(Image(RecordOf(list), s), k, query.limit)))
      BY GroupsExecute, Zenon
    <2>2. QED
      BY <1>3, <2>1
  <1>5. s \in Seq(Admitted) /\ query.limit \in Int
    BY GroupRankingIsSeq, OrderByIs, Zenon
  <1>6. Executes
    BY ExecutableExecutes, Zenon DEF GroupsApply
  <1> DEFINE rec == RecordOf(list)
             E == {rec[T] : T \in Admitted}
             d == Image(rec, s)
             page == Page(d, k, query.limit)
  <1>7. \A T \in Admitted : rec[T].out = TheOut(T)
    <2>1. Admitted \in SUBSET TheGroups
      BY DEF Admitted
    <2>2. \A T \in TheGroups : RecordOf(list)[T].out = TheOut(T)
      BY <1>4, <1>6, RecordIs, Zenon
    <2>3. QED
      BY <2>1, <2>2
  <1>8. \A T \in Admitted : rec[T] \in E
    OBVIOUS
  <1> HIDE DEF rec, E, s, n
  <1>9. d \in Seq(E) /\ Len(d) = n /\ \A i \in 1..n : d[i] = rec[s[i]]
    BY <1>5, <1>8, ImageIs, Zenon DEF n
  <1>10. n \in Nat /\ \A i \in 1..n : s[i] \in Admitted
    BY <1>5 DEF n
  <1>11. k \in 0..n
    BY DEF n, s
  <1> HIDE DEF d
  <1>12. k \in 0..Len(d)
    BY <1>9, <1>11
  <1>13. PICK m \in k..n : /\ page \in Seq(E) /\ Len(page) = m - k
                           /\ \A i \in 1..(m - k) : page[i] = d[k + i]
                           /\ m = k => k = n
    <2>1. \E m \in k..Len(d) : /\ page \in Seq(E) /\ Len(page) = m - k
                               /\ \A i \in 1..(m - k) : page[i] = d[k + i]
                               /\ m = k => k = Len(d)
      BY <1>5, <1>9, <1>12, PageIs, Zenon
    <2>2. QED
      BY <1>9, <2>1
  <1> DEFINE rows == GroupRows(page)
             W == {rows[i] : i \in 1..(m - k)}
  <1>14. ~out.failed /\ out.rows = rows
    BY <1>4 DEF Returned, page, d, rec, s
  <1> HIDE DEF page
  <1>15. m - k \in Nat /\ m \in Nat /\ k \in Nat /\ DOMAIN page = 1..(m - k)
    BY <1>11, <1>13
  <1>16. DOMAIN rows = 1..(m - k) /\ \A i \in 1..(m - k) : rows[i].data = page[i].out
    BY <1>15 DEF GroupRows
  <1>17. rows = [i \in 1..(m - k) |-> rows[i]]
    BY <1>15 DEF GroupRows
  <1> HIDE DEF rows
  <1>18. rows \in Seq(W) /\ Len(rows) = m - k
    <2> DEFINE l == m - k
    <2>1. l \in Nat /\ \A i \in 1..l : rows[i] \in W
      BY <1>15
    <2> HIDE DEF l, W
    <2>2. rows \in [1..l -> W]
      BY <1>17, <2>1 DEF l
    <2>3. rows \in Seq(W) /\ Len(rows) = l
      BY <2>1, <2>2
    <2>4. QED
      BY <2>3 DEF l
  <1> HIDE DEF W
  <1>19. ASSUME NEW i \in 1..(m - k) PROVE rows[i].data = ShownGroup[s[k + i]]
    <2>1. k + i \in 1..n
      BY <1>10, <1>11, <1>13, <1>15
    <2>2. page[i] = rec[s[k + i]]
      BY <1>9, <1>13, <2>1
    <2>3. QED
      BY <1>7, <1>10, <1>16, <2>1, <2>2 DEF ShownGroup
  <1> DEFINE c == answer \o rows
             Z == ToSet(answer) \cup W
  <1>20. /\ c \in Seq(Z) /\ Len(c) = Len(answer) + Len(rows)
         /\ \A i \in 1..(Len(answer) + Len(rows)) :
                c[i] = IF i <= Len(answer) THEN answer[i] ELSE rows[i - Len(answer)]
    <2>1. answer \in Seq(Z) /\ rows \in Seq(Z)
      BY <1>2, <1>18
    <2> HIDE DEF Z
    <2>2. QED
      BY <2>1, ConcatProperties, Zenon
  <1> HIDE DEF c, Z
  <1>21. Len(c) = m /\ DOMAIN c = 1..m
    BY <1>2, <1>15, <1>18, <1>20
  <1>22. ASSUME NEW i \in 1..m PROVE c[i].data = ShownGroup[s[i]]
    <2>1. CASE i <= k
      <3>1. c[i] = answer[i] /\ i \in 1..k
        BY <1>2, <1>15, <1>18, <1>20, <2>1
      <3>2. QED
        BY <3>1 DEF Hold, s
    <2>2. CASE ~ (i <= k)
      <3>1. i - k \in 1..(m - k) /\ k + (i - k) = i
        BY <1>15, <2>2
      <3>2. c[i] = rows[i - k]
        BY <1>2, <1>15, <1>18, <1>20, <2>2
      <3>3. QED
        BY <1>19, <3>1, <3>2
    <2>3. QED
      BY <2>1, <2>2
  <1>23. c \in Seq(ToSet(c))
    <2>1. \A i \in 1..m : c[i] \in ToSet(c)
      BY <1>21 DEF ToSet
    <2>2. c = [i \in 1..m |-> c[i]]
      BY <1>20, <1>21
    <2> DEFINE Y == ToSet(c)
    <2> HIDE DEF Y
    <2>3. c \in [1..m -> Y]
      BY <2>1, <2>2 DEF Y
    <2>4. c \in Seq(Y)
      BY <1>15, <2>3
    <2>5. QED
      BY <2>4 DEF Y
  <1>24. Hold(c, ShownGroup, s, m)
    BY <1>21, <1>22, <1>23 DEF Hold
  <1>25. rows = <<>> => k = n
    BY <1>13, <1>15, <1>18
  <1>26. QED
    BY <1>13, <1>14, <1>24, <1>25 DEF c, n, s

\* Nothing the property speaks of changes but the answer and the status.
LEMMA GroupsUnchanged ==
  ASSUME UNCHANGED <<table, query>>
  PROVE  /\ GroupsApply' <=> GroupsApply
         /\ TheGroupRanking' = TheGroupRanking
         /\ ShownGroup' = ShownGroup
  <1>1. TheRows' = TheRows
    BY DEF TheRows
  <1>2. \A r : Position(r)' = Position(r)
    BY DEF Position
  <1>3. \A T : FirstOf(T)' = FirstOf(T)
    BY <1>2 DEF FirstOf
  <1>4. \A e, T : TheValue(e, T)' = TheValue(e, T)
    BY <1>3 DEF TheValue
  <1>5. \A T : TheOut(T)' = TheOut(T)
    BY <1>4 DEF TheOut
  <1>6. TheGroups' = TheGroups
    BY <1>1 DEF TheGroups
  <1>7. \A p, T : SaysOf(p, T)' <=> SaysOf(p, T)
    BY <1>4, <1>5 DEF SaysOf
  <1>8. Admitted' = Admitted
    BY <1>6, <1>7 DEF Admitted
  <1>9. \A S, T : GroupBefore(S, T)' <=> GroupBefore(S, T)
    BY <1>2, <1>3, <1>5 DEF GroupBefore
  <1>10. TheGroupRanking' = TheGroupRanking
    BY <1>8, <1>9 DEF TheGroupRanking
  <1>11. Executable' <=> Executable
    BY DEF Executable
  <1>12. OrderNames' = OrderNames /\ Columns' = Columns /\ \A n : StoredAs(n)' = StoredAs(n)
    BY DEF OrderNames, Columns, StoredAs
  <1>13. GroupsSettled' <=> GroupsSettled
    BY <1>1, <1>4, <1>6, <1>12 DEF GroupsSettled
  <1>14. ShownGroup' = ShownGroup
    BY <1>5, <1>8 DEF ShownGroup
  <1>15. QED
    BY <1>10, <1>11, <1>13, <1>14 DEF GroupsApply

LEMMA GroupsInvIsInductive == GroupsInv /\ [Next]_vars => GroupsInv'
  <1>1. SUFFICES ASSUME GroupsInv, [Next]_vars PROVE GroupsInv'
    OBVIOUS
  <1>2. table \in Tables /\ query \in Queries
    BY <1>1, Zenon DEF GroupsInv
  <1>3. UNCHANGED <<table, query>>
    BY <1>1 DEF Next, FetchPage, FetchLast, FetchFails, FetchCancelled, vars
  <1>4. table' \in Tables /\ query' \in Queries
    BY <1>2, <1>3
  <1>5. (GroupsApply' <=> GroupsApply) /\ TheGroupRanking' = TheGroupRanking /\ ShownGroup' = ShownGroup
    BY <1>3, GroupsUnchanged, Zenon
  <1>6. SUFFICES ASSUME GroupsApply PROVE GroupsSoFar'
    BY <1>4, <1>5, Zenon DEF GroupsInv
  <1>7. PICK k \in 0..Len(TheGroupRanking) : /\ Hold(answer, ShownGroup, TheGroupRanking, k)
                                             /\ status = "done" => k = Len(TheGroupRanking)
    BY <1>1, <1>6, Zenon DEF GroupsInv, GroupsSoFar
  <1>8. SUFFICES \E m \in 0..Len(TheGroupRanking) : /\ Hold(answer', ShownGroup, TheGroupRanking, m)
                                                    /\ status' = "done" => m = Len(TheGroupRanking)
    BY <1>5 DEF GroupsSoFar
  <1>9. TheGroupRanking \in Seq(Admitted)
    BY <1>2, <1>6, GroupRankingIsSeq, Zenon
  <1>10. CASE FetchPage
    <2>1. PICK out \in Outcomes : answer' = answer \o out.rows
      BY <1>10 DEF FetchPage
    <2>2. \E m \in k..Len(TheGroupRanking) : Hold(answer \o out.rows, ShownGroup, TheGroupRanking, m)
      BY <1>2, <1>6, <1>7, PageKeepsGroups, Zenon
    <2>3. status' # "done"
      BY <1>10 DEF FetchPage
    <2>4. \A m \in k..Len(TheGroupRanking) : m \in 0..Len(TheGroupRanking)
      BY <1>9
    <2>5. QED
      BY <2>1, <2>2, <2>3, <2>4, Zenon
  <1>11. CASE FetchLast
    <2>1. answer' = answer /\ Returned(<<>>) \in Outcomes
      BY <1>11 DEF FetchLast
    <2>2. Returned(<<>>).rows = <<>>
      BY DEF Returned
    <2>3. k = Len(TheGroupRanking)
      BY <1>2, <1>6, <1>7, <2>1, <2>2, PageKeepsGroups, Zenon
    <2>4. QED
      BY <1>7, <2>1, <2>3, Zenon
  <1>12. CASE FetchFails \/ FetchCancelled
    BY <1>7, <1>12 DEF FetchFails, FetchCancelled
  <1>13. CASE UNCHANGED vars
    BY <1>7, <1>13 DEF vars
  <1>14. QED
    BY <1>1, <1>10, <1>11, <1>12, <1>13 DEF Next

LEMMA InitGroupsInv == Init => GroupsInv
  <1>1. SUFFICES ASSUME Init PROVE GroupsInv
    OBVIOUS
  <1>2. table \in Tables /\ query \in Queries /\ answer = <<>> /\ status # "done"
    BY <1>1 DEF Init
  <1>3. SUFFICES ASSUME GroupsApply PROVE GroupsSoFar
    BY <1>2, Zenon DEF GroupsInv
  <1>4. TheGroupRanking \in Seq(Admitted)
    BY <1>2, <1>3, GroupRankingIsSeq, Zenon
  <1>5. 0 \in 0..Len(TheGroupRanking)
    BY <1>4
  <1>6. Hold(<<>>, ShownGroup, TheGroupRanking, 0)
    BY DEF Hold
  <1>7. QED
    BY <1>2, <1>5, <1>6 DEF GroupsSoFar

LEMMA GroupsInvSuffices == GroupsInv => GroupsAreTheAnswer
  <1>1. SUFFICES ASSUME GroupsInv, GroupsApply PROVE GroupsAreTheAnswer
    BY DEF GroupsAreTheAnswer, GroupsApply
  <1>2. table \in Tables /\ query \in Queries
    BY <1>1, Zenon DEF GroupsInv
  <1> DEFINE s == TheGroupRanking
             owed == [i \in DOMAIN s |-> TheOut(s[i])]
             got == [i \in DOMAIN answer |-> answer[i].data]
  <1>3. PICK k \in 0..Len(s) : /\ Hold(answer, ShownGroup, s, k)
                               /\ status = "done" => k = Len(s)
    BY <1>1, Zenon DEF GroupsInv, GroupsSoFar
  <1>4. s \in Seq(Admitted)
    BY <1>1, <1>2, GroupRankingIsSeq, Zenon
  <1> HIDE DEF s
  <1>5. /\ IsPrefix(Shown(ShownGroup, s, k), Shown(ShownGroup, s, Len(s)))
        /\ Shown(ShownGroup, s, Len(s)) = [i \in DOMAIN s |-> ShownGroup[s[i]]]
    BY <1>4, ShownIsPrefix, Zenon
  <1>6. [i \in DOMAIN s |-> ShownGroup[s[i]]] = owed
    <2>1. \A i \in DOMAIN s : s[i] \in Admitted
      BY <1>4
    <2>2. QED
      BY <2>1 DEF ShownGroup
  <1>7. got = Shown(ShownGroup, s, k)
    <2>1. /\ answer \in Seq(ToSet(answer)) /\ Len(answer) = k
          /\ \A i \in 1..k : answer[i].data = ShownGroup[s[i]]
      BY <1>3, Zenon DEF Hold
    <2>2. DOMAIN answer = 1..k
      BY <2>1
    <2>3. QED
      BY <2>1, <2>2 DEF Shown
  <1> HIDE DEF owed, got
  <1>8. IsPrefix(got, owed) /\ (status = "done" => got = owed)
    BY <1>3, <1>5, <1>6, <1>7, Zenon
  <1>9. QED
    BY <1>8, Zenon DEF GroupsAreTheAnswer, TheGroupRanking, s, owed, got

\* Paging through a grouped query, over any table, with any aggregates, HAVING and
\* declared order, returns one row for each admitted group, once and in the
\* declared order (applyGroupByContext), provided that the grouping values render
\* each on its own (groupKeyStr tells them apart) and float64 adds up the sums
\* exactly (evalAggregate then has one sum in every order).  The answer is at every
\* step a part of one ranking of the groups, which no order of reading changes.
THEOREM GroupsAreTheAnswerHolds == Spec => []GroupsAreTheAnswer
  <1>1. Init => GroupsInv
    BY InitGroupsInv
  <1>2. GroupsInv /\ [Next]_vars => GroupsInv'
    BY GroupsInvIsInductive
  <1>3. GroupsInv => GroupsAreTheAnswer
    BY GroupsInvSuffices
  <1>4. QED
    BY <1>1, <1>2, <1>3, PTL DEF Spec

=============================================================================
