-------------------------- MODULE BillService_proofs --------------------------
(***************************************************************************)
(* The months of the two response services, for every month of every year, *)
(* every chart and every history option.                                   *)
(***************************************************************************)
EXTENDS BillService, FiniteSetTheorems, SequenceTheorems, TLAPS

Months == {m \in Int : IsMonth(m)}
Index(m) == Year(m) * 12 + MonthNo(m)

------------------------------------------------------------------------------
(* The calendar.                                                           *)

(* A month is its year and its number in the year.                         *)
LEMMA MonthParts ==
  ASSUME NEW m \in Months
  PROVE  /\ Year(m) \in Int /\ MonthNo(m) \in 1..12
         /\ m = Year(m) * 100 + MonthNo(m)
         /\ Index(m) \in Int
BY DEF Months, IsMonth, Year, MonthNo, Index

(* And a year and a number make one.                                       *)
LEMMA MonthOf ==
  ASSUME NEW y \in Int, NEW n \in 1..12, NEW m, m = y * 100 + n
  PROVE  m \in Months /\ Year(m) = y /\ MonthNo(m) = n
BY DEF Months, IsMonth, Year, MonthNo

(* The six digits are ordered as the months are.                           *)
LEMMA DigitsInOrder ==
  ASSUME NEW m \in Months, NEW n \in Months
  PROVE  Index(m) <= Index(n) <=> m <= n
BY MonthParts DEF Index

(* A month has one index.                                                  *)
LEMMA IndexIsOne ==
  ASSUME NEW m \in Months, NEW n \in Months, Index(m) = Index(n)
  PROVE  m = n
BY MonthParts DEF Index

(* _next_month is the month after, _shift_month the one k months away.     *)
LEMMA NextIsAfter ==
  ASSUME NEW m \in Months
  PROVE  NextMonth(m) \in Months /\ Index(NextMonth(m)) = Index(m) + 1
<1>1. CASE MonthNo(m) = 12
  <2>1. NextMonth(m) = (Year(m) + 1) * 100 + 1
    BY <1>1 DEF NextMonth
  <2>2. Year(m) + 1 \in Int /\ 1 \in 1..12
    BY MonthParts
  <2>3. /\ NextMonth(m) \in Months
        /\ Year(NextMonth(m)) = Year(m) + 1 /\ MonthNo(NextMonth(m)) = 1
    BY <2>1, <2>2, MonthOf
  <2>4. QED
    BY <1>1, <2>3, MonthParts DEF Index
<1>2. CASE MonthNo(m) # 12
  <2>1. NextMonth(m) = Year(m) * 100 + (MonthNo(m) + 1) /\ MonthNo(m) + 1 \in 1..12
    BY <1>2, MonthParts DEF NextMonth
  <2>2. /\ NextMonth(m) \in Months
        /\ Year(NextMonth(m)) = Year(m) /\ MonthNo(NextMonth(m)) = MonthNo(m) + 1
    <3>1. Year(m) \in Int
      BY MonthParts
    <3>2. QED
      BY <2>1, <3>1, MonthOf
  <2>3. QED
    BY <2>2, MonthParts DEF Index
<1>3. QED
  BY <1>1, <1>2

(* Division by twelve and its remainder.                                   *)
LEMMA TwelveParts ==
  ASSUME NEW i \in Int
  PROVE  \E q \in Int, r \in 0..11 : q = i \div 12 /\ r = i % 12 /\ i = q * 12 + r
<1>1. i \div 12 \in Int /\ i % 12 \in 0..11
  OBVIOUS
<1>2. PICK q \in Int, r \in 0..11 : q = i \div 12 /\ r = i % 12
  BY <1>1
<1>3. i = q * 12 + r
  BY <1>2
<1>4. QED
  BY <1>2, <1>3

(* _shift_month goes k months by the calendar.                             *)
LEMMA ShiftIsAway ==
  ASSUME NEW m \in Months, NEW k \in Int
  PROVE  ShiftMonth(m, k) \in Months /\ Index(ShiftMonth(m, k)) = Index(m) + k
<1>1. PICK i \in Int : i = Index(m) - 1 + k
  BY MonthParts
<1>2. PICK q \in Int, r \in 0..11 : q = i \div 12 /\ r = i % 12 /\ i = q * 12 + r
  BY TwelveParts
<1>3. ShiftMonth(m, k) = q * 100 + (r + 1) /\ r + 1 \in 1..12
  <2>1. Year(m) * 12 + MonthNo(m) - 1 + k = i
    BY <1>1, MonthParts DEF Index
  <2>2. ShiftMonth(m, k) = (i \div 12) * 100 + (i % 12) + 1
    BY <2>1, MonthParts DEF ShiftMonth
  <2>3. QED
    BY <1>2, <2>2
<1>4. /\ ShiftMonth(m, k) \in Months
      /\ Year(ShiftMonth(m, k)) = q /\ MonthNo(ShiftMonth(m, k)) = r + 1
  BY <1>3, MonthOf
<1>5. Index(ShiftMonth(m, k)) = i + 1
  BY <1>2, <1>4 DEF Index
<1>6. QED
  BY <1>1, <1>4, <1>5, MonthParts

(* Moving on by one month from a shifted month is shifting by one more.    *)
LEMMA ShiftOneBack ==
  ASSUME NEW m \in Months, NEW i \in Nat \ {0}
  PROVE  LET x == ShiftMonth(m, -(i - 1))
         IN  ShiftMonth(m, -i) = IF MonthNo(x) = 1 THEN (Year(x) - 1) * 100 + 12
                                 ELSE x - 1
<1> DEFINE x == ShiftMonth(m, -(i - 1))
           y == IF MonthNo(x) = 1 THEN (Year(x) - 1) * 100 + 12 ELSE x - 1
<1>1. -(i - 1) \in Int /\ -i \in Int
  OBVIOUS
<1>2. x \in Months /\ Index(x) = Index(m) + (-(i - 1))
  BY <1>1, ShiftIsAway
<1>3. ShiftMonth(m, -i) \in Months /\ Index(ShiftMonth(m, -i)) = Index(m) + (-i)
  BY <1>1, ShiftIsAway
<1>4. y \in Months /\ Index(y) = Index(x) - 1
  <2> HIDE DEF x
  <2>1. CASE MonthNo(x) = 1
    <3>1. y = (Year(x) - 1) * 100 + 12 /\ Year(x) - 1 \in Int /\ 12 \in 1..12
      BY <1>2, <2>1, MonthParts
    <3>2. y \in Months /\ Year(y) = Year(x) - 1 /\ MonthNo(y) = 12
      BY <3>1, MonthOf
    <3>3. QED
      BY <1>2, <2>1, <3>2, MonthParts DEF Index
  <2>2. CASE MonthNo(x) # 1
    <3>1. y = Year(x) * 100 + (MonthNo(x) - 1) /\ MonthNo(x) - 1 \in 1..12 /\ Year(x) \in Int
      BY <1>2, <2>2, MonthParts
    <3>2. y \in Months /\ Year(y) = Year(x) /\ MonthNo(y) = MonthNo(x) - 1
      <4>1. PICK a \in Int, n \in 1..12 : a = Year(x) /\ n = MonthNo(x) - 1
        BY <3>1
      <4>2. y = a * 100 + n
        BY <3>1, <4>1
      <4>3. /\ a * 100 + n \in Months
            /\ Year(a * 100 + n) = a /\ MonthNo(a * 100 + n) = n
        BY DEF Months, IsMonth, Year, MonthNo
      <4> HIDE DEF y
      <4>4. QED
        BY <4>1, <4>2, <4>3
    <3>3. QED
      BY <1>2, <2>2, <3>2, MonthParts DEF Index
  <2>3. QED
    BY <2>1, <2>2
<1>5. Index(y) = Index(ShiftMonth(m, -i))
  <2>1. Index(m) \in Int
    BY MonthParts
  <2> HIDE DEF x, y
  <2>2. QED
    BY <2>1, <1>2, <1>3, <1>4
<1>6. y = ShiftMonth(m, -i)
  BY <1>3, <1>4, <1>5, IndexIsOne
<1>7. QED
  BY <1>6

(* Every set of naturals that is not empty has a least element.            *)
LEMMA LeastNatural ==
  ASSUME NEW T \in SUBSET Nat, T # {}
  PROVE  \E n \in T : \A k \in T : n <= k
<1> DEFINE R == OpToRel(<, Nat)
<1>1. PICK n \in T : \A k \in T : <<k, n>> \notin R
  <2>1. IsWellFoundedOn(R, Nat)
    BY NatLessThanWellFounded
  <2> HIDE DEF R
  <2>2. QED
    BY <2>1, WFMin
<1>2. \A k \in T : ~(k < n)
  BY <1>1 DEF OpToRel
<1>3. QED
  BY <1>2

(* Before counts back one month at a time and _shift_month at once: they   *)
(* agree on every distance.                                                *)
LEMMA BeforeIsShift ==
  ASSUME NEW m \in Months, NEW k \in Nat
  PROVE  Before(m, k) = ShiftMonth(m, -k)
<1> DEFINE Previous(x) == IF MonthNo(x) = 1 THEN (Year(x) - 1) * 100 + 12 ELSE x - 1
           Step(h) == [i \in 0..k |-> IF i = 0 THEN m ELSE Previous(h[i - 1])]
           f == CHOOSE h : h = Step(h)
           g == [i \in 0..k |-> ShiftMonth(m, -i)]
<1>1. Before(m, k) = f[k]
  BY DEF Before
<1>2. ShiftMonth(m, 0) = m
  <2>1. ShiftMonth(m, 0) \in Months /\ Index(ShiftMonth(m, 0)) = Index(m) + 0
    BY ShiftIsAway
  <2>2. QED
    BY <2>1, MonthParts, IndexIsOne
<1>3. g = Step(g)
  <2>1. ASSUME NEW i \in 0..k
        PROVE  g[i] = IF i = 0 THEN m ELSE Previous(g[i - 1])
    <3>1. CASE i = 0
      BY <1>2, <3>1
    <3>2. CASE i # 0
      <4>1. i \in Nat \ {0} /\ i - 1 \in 0..k
        BY <3>2
      <4>2. ShiftMonth(m, -i) = Previous(ShiftMonth(m, -(i - 1)))
        BY <4>1, ShiftOneBack
      <4>3. QED
        BY <3>2, <4>1, <4>2
    <3>3. QED
      BY <3>1, <3>2
  <2> HIDE DEF Previous
  <2>2. QED
    BY <2>1
<1>4. f = Step(f)
  BY <1>3
<1>5. \A i \in 0..k : f[i] = g[i]
  <2> HIDE DEF f, g, Previous
  <2> DEFINE T == {i \in 0..k : f[i] # g[i]}
  <2>1. SUFFICES ASSUME T # {} PROVE FALSE
    OBVIOUS
  <2>2. PICK n \in T : \A j \in T : n <= j
    <3>1. T \in SUBSET Nat
      OBVIOUS
    <3>2. QED
      BY <2>1, <3>1, LeastNatural
  <2>3. n # 0
    BY <1>3, <1>4
  <2>4. n - 1 \in 0..k /\ n - 1 \notin T
    BY <2>2, <2>3
  <2>5. f[n] = Previous(f[n - 1]) /\ g[n] = Previous(g[n - 1])
    BY <1>3, <1>4, <2>3
  <2>6. QED
    BY <2>4, <2>5
<1>6. f[k] = g[k] /\ g[k] = ShiftMonth(m, -k)
  <2>1. k \in 0..k
    OBVIOUS
  <2> HIDE DEF f
  <2>2. QED
    BY <1>5, <2>1
<1>7. QED
  BY <1>1, <1>6

(* _next_month undoes _shift_month(-1), over the turn of any year.         *)
THEOREM NextAfterPrevious ==
  ASSUME NEW m \in Months
  PROVE  NextMonth(ShiftMonth(m, -1)) = m
<1>1. /\ ShiftMonth(m, -1) \in Months
      /\ Index(ShiftMonth(m, -1)) = Index(m) + (-1)
  BY ShiftIsAway
<1>2. /\ NextMonth(ShiftMonth(m, -1)) \in Months
      /\ Index(NextMonth(ShiftMonth(m, -1))) = Index(m)
  BY <1>1, MonthParts, NextIsAfter
<1>3. QED
  BY <1>2, IndexIsOne

(* The months _validate_month lets pass are the present one and the 23     *)
(* that counting back one by one meets, over the turn of any year.         *)
THEOREM WindowIsLast24 ==
  ASSUME NEW today \in Months, NEW m \in Int
  PROVE  InWindow(today, m) <=> m \in {Before(today, k) : k \in 0..23}
<1>1. Index(today) \in Int
  BY MonthParts
<1>2. ASSUME InWindow(today, m) PROVE \E k \in 0..23 : m = Before(today, k)
  <2>1. m \in Months /\ Index(m) \in (Index(today) - 23)..Index(today)
    BY <1>2 DEF InWindow, Months, Index
  <2>2. PICK k \in 0..23 : Index(today) + (-k) = Index(m) /\ -k \in Int /\ k \in Nat
    <3>1. Index(today) - Index(m) \in 0..23 /\ Index(m) \in Int
      BY <1>1, <2>1
    <3>2. Index(today) + (-(Index(today) - Index(m))) = Index(m)
      BY <1>1, <3>1
    <3>3. QED
      BY <3>1, <3>2
  <2>3. ShiftMonth(today, -k) \in Months /\ Index(ShiftMonth(today, -k)) = Index(m)
    BY <2>2, ShiftIsAway
  <2>4. m = ShiftMonth(today, -k)
    BY <2>1, <2>3, IndexIsOne
  <2>5. QED
    BY <2>2, <2>4, BeforeIsShift
<1>3. ASSUME NEW k \in 0..23, m = Before(today, k) PROVE InWindow(today, m)
  <2>1. -k \in Int /\ k \in Nat
    OBVIOUS
  <2>2. m = ShiftMonth(today, -k)
    BY <1>3, <2>1, BeforeIsShift
  <2>3. m \in Months /\ Index(m) = Index(today) + (-k)
    BY <2>1, <2>2, ShiftIsAway
  <2>4. Index(m) \in (Index(today) - 23)..Index(today)
    BY <1>1, <2>3
  <2>5. QED
    BY <2>3, <2>4 DEF InWindow, Months, Index
<1>4. QED
  BY <1>2, <1>3

(* From January 2002 on, _validated_month of the client accepts every      *)
(* month _validate_month of the service lets pass.                         *)
THEOREM WindowAccepted ==
  ASSUME NEW today \in Months, today >= 200201, NEW m \in Int, InWindow(today, m)
  PROVE  ClientAccepts(today, m)
<1>1. /\ m \in Months
      /\ Index(m) <= Index(today) /\ Index(today) - 23 <= Index(m)
  BY MonthParts DEF InWindow, Months, Index
<1>2. m <= today
  BY <1>1, DigitsInOrder
<1>3. m >= 200001
  BY <1>1, MonthParts DEF Index
<1>4. QED
  BY <1>1, <1>2, <1>3 DEF ClientAccepts, Months

------------------------------------------------------------------------------
(* Sorting, and the newest months of a history.                            *)

(* A history in order: every earlier month before every later one.         *)
InOrder(h) == \A i, j \in 1..Len(h) : i < j => h[i] < h[j]

(* How many months of a set are up to one.                                 *)
Rank(S, m) == Cardinality({n \in S : n <= m})

(* A later month has a larger rank among distinct months.                  *)
LEMMA RankGrows ==
  ASSUME NEW S \in SUBSET Int, IsFiniteSet(S), NEW m \in S, NEW n \in S
  PROVE  /\ Rank(S, m) \in 1..Cardinality(S)
         /\ m < n => Rank(S, m) < Rank(S, n)
<1> DEFINE UpTo(x) == {y \in S : y <= x}
<1>1. Cardinality(S) \in Nat
  BY FS_CardinalityType
<1>2. \A x \in S : IsFiniteSet(UpTo(x)) /\ Cardinality(UpTo(x)) <= Cardinality(S)
  <2>1. \A x \in S : UpTo(x) \in SUBSET S
    OBVIOUS
  <2> HIDE DEF UpTo
  <2>2. QED
    BY <2>1, FS_Subset
<1>3. \A x \in S : Cardinality(UpTo(x)) \in Nat
  <2> HIDE DEF UpTo
  <2>1. QED
    BY <1>2, FS_CardinalityType
<1>4. Cardinality(UpTo(m)) # 0
  <2>1. m \in UpTo(m)
    OBVIOUS
  <2> HIDE DEF UpTo
  <2>2. QED
    BY <1>2, <2>1, FS_EmptySet
<1>5. ASSUME m < n PROVE Cardinality(UpTo(m)) < Cardinality(UpTo(n))
  <2>1. UpTo(m) \in SUBSET UpTo(n)
    <3>1. \A y \in S : y <= m => y <= n
      <4>1. m \in Int /\ n \in Int /\ \A y \in S : y \in Int
        OBVIOUS
      <4>2. QED
        BY <1>5, <4>1
    <3>2. QED
      BY <3>1
  <2>2. n \in UpTo(n) /\ n \notin UpTo(m)
    BY <1>5
  <2> HIDE DEF UpTo
  <2>3. /\ Cardinality(UpTo(m)) <= Cardinality(UpTo(n))
        /\ Cardinality(UpTo(n)) # Cardinality(UpTo(m))
    BY <1>2, <2>1, <2>2, FS_Subset
  <2>4. QED
    BY <1>3, <2>3
<1>6. Rank(S, m) = Cardinality(UpTo(m)) /\ Rank(S, n) = Cardinality(UpTo(n))
  BY DEF Rank
<1>7. QED
  <2> HIDE DEF UpTo
  <2>1. QED
    BY <1>1, <1>2, <1>3, <1>4, <1>5, <1>6

(* No two months have the same rank.                                       *)
LEMMA RankIsOne ==
  ASSUME NEW S \in SUBSET Int, IsFiniteSet(S),
         NEW m \in S, NEW n \in S, Rank(S, m) = Rank(S, n)
  PROVE  m = n
<1>1. Rank(S, m) \in Int /\ Rank(S, n) \in Int
  <2>1. Cardinality(S) \in Nat /\ Rank(S, m) \in 1..Cardinality(S)
    BY FS_CardinalityType, RankGrows
  <2>2. QED
    BY <2>1
<1>2. (m < n => Rank(S, m) < Rank(S, n)) /\ (n < m => Rank(S, n) < Rank(S, m))
  BY RankGrows
<1>3. ~(m < n) /\ ~(n < m)
  BY <1>1, <1>2
<1>4. m \in Int /\ n \in Int
  OBVIOUS
<1>5. QED
  BY <1>3, <1>4

(* Each place has a month.                                                 *)
LEMMA RankTaken ==
  ASSUME NEW S \in SUBSET Int, IsFiniteSet(S), NEW k \in 1..Cardinality(S)
  PROVE  \E m \in S : Rank(S, m) = k
<1> DEFINE n == Cardinality(S)
           rank == [m \in S |-> Rank(S, m)]
<1>1. n \in Nat
  BY FS_CardinalityType
<1>2. rank \in Injection(S, 1..n)
  <2>1. \A m \in S : Rank(S, m) \in 1..n
    BY RankGrows
  <2>2. \A a, b \in S : Rank(S, a) = Rank(S, b) => a = b
    BY RankIsOne
  <2> HIDE DEF n
  <2>3. rank \in [S -> 1..n] /\ IsInjective(rank)
    BY <2>1, <2>2 DEF IsInjective
  <2>4. QED
    BY <2>3 DEF Injection
<1>3. IsFiniteSet(1..n) /\ Cardinality(1..n) = n
  <2> HIDE DEF n
  <2>1. QED
    BY <1>1, FS_Interval
<1>4. rank \in Surjection(S, 1..n)
  <2>1. Cardinality(S) = Cardinality(1..n)
    BY <1>3
  <2> HIDE DEF rank, n
  <2>2. QED
    BY <1>2, <1>3, <2>1, FS_Injection
<1>5. QED
  BY <1>4 DEF Surjection

(* points.sort() of a set: every month once, in order.                     *)
LEMMA SortedIsSorted ==
  ASSUME NEW S \in SUBSET Int, IsFiniteSet(S)
  PROVE  /\ Sorted(S) \in Seq(S) /\ Len(Sorted(S)) = Cardinality(S)
         /\ InOrder(Sorted(S))
         /\ \A m \in S : \E i \in 1..Len(Sorted(S)) : Sorted(S)[i] = m
<1> DEFINE n == Cardinality(S)
           ranked == {<<m, Rank(S, m)>> : m \in S}
           s == [k \in 1..n |-> (CHOOSE r \in ranked : r[2] = k)[1]]
<1>1. n \in Nat
  BY FS_CardinalityType
<1>2. Sorted(S) = s
  BY DEF Sorted, Rank
<1>3. ASSUME NEW k \in 1..n
      PROVE  s[k] \in S /\ Rank(S, s[k]) = k
  <2>1. \E r \in ranked : r[2] = k
    <3>1. PICK m \in S : Rank(S, m) = k
      BY RankTaken
    <3>2. <<m, Rank(S, m)>> \in ranked
      OBVIOUS
    <3>3. QED
      BY <3>1, <3>2
  <2>2. PICK r \in ranked : r[2] = k /\ s[k] = r[1]
    BY <2>1
  <2>3. QED
    BY <2>2
<1>4. s \in Seq(S) /\ Len(s) = n
  <2>1. s \in [1..n -> S]
    BY <1>3
  <2> HIDE DEF s, n
  <2>2. QED
    BY <1>1, <2>1
<1>5. InOrder(s)
  <2> HIDE DEF s, n
  <2>1. SUFFICES ASSUME NEW i \in 1..n, NEW j \in 1..n, i < j PROVE s[i] < s[j]
    BY <1>4 DEF InOrder
  <2>2. /\ s[i] \in S /\ Rank(S, s[i]) = i
        /\ s[j] \in S /\ Rank(S, s[j]) = j
    BY <1>3
  <2>3. s[j] < s[i] => Rank(S, s[j]) < Rank(S, s[i])
    BY <2>2, RankGrows
  <2>4. ~(s[j] < s[i]) /\ s[i] # s[j]
    BY <2>1, <2>2, <2>3
  <2>5. s[i] \in Int /\ s[j] \in Int
    BY <2>2
  <2>6. QED
    BY <2>4, <2>5
<1>6. ASSUME NEW m \in S PROVE \E i \in 1..n : s[i] = m
  <2>1. Rank(S, m) \in 1..n
    BY RankGrows
  <2> HIDE DEF s, n
  <2>2. PICK a \in S : a = s[Rank(S, m)] /\ Rank(S, a) = Rank(S, m)
    BY <1>3, <2>1
  <2>3. a = m
    BY <2>2, RankIsOne
  <2>4. QED
    BY <2>1, <2>2, <2>3
<1>7. Len(s) = Cardinality(S)
  BY <1>4
<1>8. QED
  <2> HIDE DEF s, n
  <2>1. QED
    BY <1>2, <1>4, <1>5, <1>6, <1>7

(* A history in order is as long as its set of months is big, and of those *)
(* the later than its i-th are the ones behind it.                         *)
LEMMA LaterInOrder ==
  ASSUME NEW h \in Seq(Int), InOrder(h), NEW i \in 1..Len(h)
  PROVE  Cardinality({x \in Range(h) : x > h[i]}) = Len(h) - i
<1> DEFINE n == Len(h)
           Later == {x \in Range(h) : x > h[i]}
           f == [j \in (i + 1)..n |-> h[j]]
<1>1. n \in Nat /\ i \in 1..n /\ DOMAIN h = 1..n /\ \A j \in 1..n : h[j] \in Int
  OBVIOUS
<1>2. Range(h) = {h[j] : j \in 1..n}
  BY <1>1 DEF Range
<1>3. f \in Bijection((i + 1)..n, Later)
  <2>1. \A j \in 1..n : h[j] > h[i] <=> j > i
    <3>1. ASSUME NEW j \in 1..n PROVE h[j] > h[i] <=> j > i
      <4>1. h[j] \in Int /\ h[i] \in Int
        BY <1>1
      <4>2. (i < j => h[i] < h[j]) /\ (j < i => h[j] < h[i])
        BY <1>1 DEF InOrder
      <4>3. CASE i = j
        BY <4>1, <4>3
      <4>4. CASE i # j
        BY <1>1, <4>1, <4>2, <4>4
      <4>5. QED
        BY <4>3, <4>4
    <3>2. QED
      BY <3>1
  <2>2. \A a, b \in 1..n : h[a] = h[b] => a = b
    <3>1. ASSUME NEW a \in 1..n, NEW b \in 1..n, h[a] = h[b] PROVE a = b
      <4>1. h[a] \in Int /\ h[b] \in Int
        BY <1>1
      <4>2. (a < b => h[a] < h[b]) /\ (b < a => h[b] < h[a])
        BY <1>1 DEF InOrder
      <4>3. QED
        BY <3>1, <4>1, <4>2
    <3>2. QED
      BY <3>1
  <2> HIDE DEF n
  <2>3. \A j \in (i + 1)..n : j \in 1..n /\ j > i
    BY <1>1
  <2>4. f \in [(i + 1)..n -> Later]
    BY <1>2, <2>1, <2>3
  <2>5. IsInjective(f)
    BY <2>2, <2>3 DEF IsInjective
  <2>6. \A x \in Later : \E j \in (i + 1)..n : f[j] = x
    <3>1. ASSUME NEW x \in Later PROVE \E j \in (i + 1)..n : f[j] = x
      <4>1. PICK j \in 1..n : x = h[j]
        BY <1>2
      <4>2. j \in (i + 1)..n
        BY <1>1, <2>1, <4>1
      <4>3. QED
        BY <4>1, <4>2
    <3>2. QED
      BY <3>1
  <2> HIDE DEF f, Later
  <2>7. QED
    BY <2>4, <2>5, <2>6 DEF Bijection, Injection, Surjection
<1>4. IsFiniteSet((i + 1)..n) /\ Cardinality((i + 1)..n) = n - i
  <2> HIDE DEF n
  <2>1. i + 1 \in Int /\ n \in Int
    BY <1>1
  <2>2. /\ IsFiniteSet((i + 1)..n)
        /\ Cardinality((i + 1)..n) = IF i + 1 > n THEN 0 ELSE n - (i + 1) + 1
    BY <2>1, FS_Interval
  <2>3. QED
    BY <1>1, <2>2
<1>5. ExistsBijection((i + 1)..n, Later)
  <2> HIDE DEF f, n, Later
  <2>1. QED
    BY <1>3 DEF ExistsBijection
<1>6. Cardinality(Later) = Cardinality((i + 1)..n)
  <2> HIDE DEF n, Later
  <2>1. QED
    BY <1>4, <1>5, FS_Bijection
<1>7. QED
  BY <1>4, <1>6

(* points[-limit:] of a history in order are its newest months.            *)
LEMMA NewestAreNewest ==
  ASSUME NEW h \in Seq(Int), InOrder(h), NEW limit \in Nat \ {0}
  PROVE  /\ Newest(h, limit) \in Seq(Int) /\ InOrder(Newest(h, limit))
         /\ Range(Newest(h, limit))
              = {m \in Range(h) : Cardinality({x \in Range(h) : x > m}) < limit}
         /\ h # <<>> => /\ Newest(h, limit) # <<>>
                        /\ Newest(h, limit)[Len(Newest(h, limit))] = h[Len(h)]
<1> DEFINE n == Len(h)
           Latest == {m \in Range(h) : Cardinality({x \in Range(h) : x > m}) < limit}
           r == Newest(h, limit)
<1>1. n \in Nat /\ DOMAIN h = 1..n /\ \A j \in 1..n : h[j] \in Int
  OBVIOUS
<1>2. Range(h) = {h[j] : j \in 1..n}
  BY <1>1 DEF Range
<1>3. \A j \in 1..n : Cardinality({x \in Range(h) : x > h[j]}) = n - j
  BY LaterInOrder
<1>4. Latest = {h[j] : j \in {i \in 1..n : n - i < limit}}
  <2> HIDE DEF n
  <2>1. QED
    BY <1>2, <1>3
<1>5. CASE limit >= n
  <2>1. r = h
    BY <1>5 DEF Newest
  <2>2. {i \in 1..n : n - i < limit} = 1..n
    BY <1>1, <1>5
  <2>3. Latest = Range(h)
    BY <1>2, <1>4, <2>2
  <2> HIDE DEF Latest, r
  <2>4. QED
    BY <2>1, <2>3 DEF Latest, r
<1>6. CASE limit < n
  <2>1. r = SubSeq(h, n - limit + 1, n)
    BY <1>1, <1>6 DEF Newest
  <2>2. /\ r \in Seq(Int) /\ Len(r) = limit
        /\ \A i \in 1..limit : r[i] = h[n - limit + i]
    BY <1>1, <1>6, <2>1
  <2> HIDE DEF r, n, Latest
  <2>3. Range(r) = {r[i] : i \in 1..limit}
    <3>1. DOMAIN r = 1..limit
      BY <2>2
    <3>2. QED
      BY <3>1 DEF Range
  <2>4. \A i \in 1..limit : n - limit + i \in 1..n /\ n - (n - limit + i) < limit
    BY <1>1, <1>6
  <2>5. \A j \in 1..n : n - j < limit =>
          /\ j - (n - limit) \in 1..limit
          /\ n - limit + (j - (n - limit)) = j
    BY <1>1, <1>6
  <2>6. Range(r) = Latest
    <3>1. Range(r) \subseteq Latest
      BY <1>4, <2>2, <2>3, <2>4
    <3>2. ASSUME NEW j \in 1..n, n - j < limit PROVE h[j] \in Range(r)
      <4>1. PICK i \in 1..limit : n - limit + i = j
        BY <2>5, <3>2
      <4>2. r[i] = h[j]
        BY <2>2, <4>1
      <4>3. QED
        BY <2>3, <4>2
    <3>3. QED
      BY <1>4, <3>1, <3>2
  <2>7. InOrder(r)
    <3>1. \A i, j \in 1..limit : i < j => n - limit + i < n - limit + j
      BY <1>1
    <3>2. \A i, j \in 1..n : i < j => h[i] < h[j]
      BY DEF InOrder, n
    <3>3. QED
      BY <2>2, <2>4, <3>1, <3>2 DEF InOrder
  <2>8. r # <<>> /\ r[Len(r)] = h[n]
    <3>1. limit \in 1..limit /\ n - limit + limit = n
      BY <1>1
    <3>2. r[limit] = h[n]
      BY <2>2, <3>1
    <3>3. QED
      BY <2>2, <3>2
  <2>9. QED
    BY <2>2, <2>6, <2>7, <2>8 DEF r, n, Latest
<1>7. limit >= n \/ limit < n
  BY <1>1
<1>8. QED
  <2> HIDE DEF n
  <2>1. QED
    BY <1>5, <1>6, <1>7

(* What ascends from each month to the next ascends throughout.            *)
LEMMA AscendingIsInOrder ==
  ASSUME NEW h \in Seq(Int)
  PROVE  Ascending(h) <=> InOrder(h)
<1> DEFINE n == Len(h)
<1>1. n \in Nat /\ \A j \in 1..n : h[j] \in Int
  OBVIOUS
<1>2. ASSUME InOrder(h) PROVE Ascending(h)
  BY <1>1, <1>2 DEF InOrder, Ascending
<1>3. ASSUME Ascending(h) PROVE InOrder(h)
  <2>1. \A i \in 1..(n - 1) : h[i] < h[i + 1]
    BY <1>3 DEF Ascending
  <2> HIDE DEF n
  <2>2. ASSUME NEW i \in 1..n
        PROVE  \A j \in 1..n : i < j => h[i] < h[j]
    <3> DEFINE T == {j \in 1..n : i < j /\ ~(h[i] < h[j])}
    <3>1. SUFFICES ASSUME T # {} PROVE FALSE
      OBVIOUS
    <3>2. PICK j \in T : \A k \in T : j <= k
      <4>1. T \in SUBSET Nat
        BY <1>1
      <4> HIDE DEF T
      <4>2. QED
        BY <3>1, <4>1, LeastNatural
    <3>3. j - 1 \in 1..(n - 1) /\ j - 1 \in 1..n /\ (j - 1) + 1 = j /\ i <= j - 1
      BY <1>1
    <3>4. h[j - 1] < h[j] /\ h[j - 1] \in Int /\ h[j] \in Int /\ h[i] \in Int
      BY <1>1, <2>1, <3>3
    <3>5. CASE i = j - 1
      BY <3>4, <3>5
    <3>6. CASE i # j - 1
      <4>1. j - 1 \notin T
        BY <1>1, <3>2
      <4>2. h[i] < h[j - 1]
        BY <3>3, <3>6, <4>1
      <4>3. QED
        BY <3>4, <4>2
    <3>7. QED
      BY <3>5, <3>6
  <2>3. QED
    BY <2>2 DEF InOrder, n
<1>4. QED
  BY <1>2, <1>3

------------------------------------------------------------------------------
(* The bills.                                                              *)

(* What KEPCO ON's charts are to the parser: sequences of numbers.         *)
LEMMA ChartIsSeq ==
  ASSUME NEW m \in Months, NEW c \in Charts(m)
  PROVE  c \in Seq(Int)
<1> DEFINE runs == {Run(e, n) : e \in {m, Before(m, 1)}, n \in Lengths}
           long == {s \in runs : Len(s) > 2}
<1>1. \A e \in Months, k \in Nat : Before(e, k) \in Months
  <2>1. ASSUME NEW e \in Months, NEW k \in Nat PROVE Before(e, k) \in Months
    <3>1. -k \in Int
      OBVIOUS
    <3>2. ShiftMonth(e, -k) \in Months
      BY <3>1, ShiftIsAway
    <3>3. QED
      BY <3>2, BeforeIsShift
  <2>2. QED
    BY <2>1
<1>2. \A s \in runs : s \in Seq(Int)
  <2>1. ASSUME NEW e \in Months, NEW n \in Nat PROVE Run(e, n) \in Seq(Int)
    <3>1. \A i \in 1..n : n - i \in Nat
      OBVIOUS
    <3>2. \A i \in 1..n : Before(e, n - i) \in Int
      BY <1>1, <3>1 DEF Months
    <3>3. QED
      BY <3>2 DEF Run
  <2>2. Before(m, 1) \in Months /\ Lengths \subseteq Nat
    BY <1>1, MonthsAssumption
  <2>3. ASSUME NEW s \in runs PROVE s \in Seq(Int)
    <3>1. PICK e \in Months, n \in Nat : s = Run(e, n)
      BY <2>2
    <3>2. QED
      BY <2>1, <3>1
  <2>4. QED
    BY <2>3
<1>3. ASSUME NEW s \in long
      PROVE  /\ SubSeq(s, 1, 1) \o SubSeq(s, 3, Len(s)) \in Seq(Int)
             /\ SubSeq(s, 1, Len(s) - 2) \o <<s[Len(s)]>> \in Seq(Int)
             /\ <<s[2], s[1]>> \o SubSeq(s, 3, Len(s)) \in Seq(Int)
             /\ s \o <<s[Len(s)]>> \in Seq(Int)
             /\ s \o <<m + 100 - MonthNo(m)>> \in Seq(Int)
  <2>1. s \in Seq(Int) /\ Len(s) > 2
    BY <1>2
  <2> HIDE DEF long, runs
  <2>2. /\ SubSeq(s, 1, 1) \in Seq(Int) /\ SubSeq(s, 3, Len(s)) \in Seq(Int)
        /\ SubSeq(s, 1, Len(s) - 2) \in Seq(Int)
    BY <2>1
  <2>3. /\ <<s[Len(s)]>> \in Seq(Int) /\ <<s[2], s[1]>> \in Seq(Int)
        /\ <<m + 100 - MonthNo(m)>> \in Seq(Int)
    BY <2>1 DEF Months, MonthNo
  <2>4. QED
    BY <2>1, <2>2, <2>3
<1>4. Charts(m) =
        runs
          \union {SubSeq(s, 1, 1) \o SubSeq(s, 3, Len(s)) : s \in long}
          \union {SubSeq(s, 1, Len(s) - 2) \o <<s[Len(s)]>> : s \in long}
          \union {<<s[2], s[1]>> \o SubSeq(s, 3, Len(s)) : s \in long}
          \union {s \o <<s[Len(s)]>> : s \in long}
          \union {s \o <<m + 100 - MonthNo(m)>> : s \in long}
  BY DEF Charts
<1>5. QED
  <2> HIDE DEF long, runs
  <2>1. QED
    BY <1>2, <1>3, <1>4

(* A bill as the integration holds it: its history in order and ending     *)
(* with its month, and compared with the months before that.               *)
Comparison(house, b, k) ==
  IF house /\ Before(b.month, k) \in Range(b.history)
  THEN Before(b.month, k) ELSE None

GoodBill(house, b) ==
  \/ b = NoBill
  \/ /\ b \in [month : Months, history : Seq(Int), previous : Int, lastYear : Int]
     /\ InOrder(b.history)
     /\ b.history # <<>> => b.history[Len(b.history)] = b.month
     /\ b.previous = Comparison(house, b, 1)
     /\ b.lastYear = Comparison(house, b, 12)

(* A month is neither absent nor that of no bill.                          *)
LEMMA MonthIsSome == ASSUME NEW m \in Months PROVE m # None /\ m # NoBill.month
BY DEF Months, IsMonth, MonthNo, None, NoBill

(* A chart has finitely many months.                                       *)
LEMMA RangeIsFinite ==
  ASSUME NEW s \in Seq(Int)
  PROVE  /\ Range(s) = {s[i] : i \in 1..Len(s)}
         /\ IsFiniteSet(Range(s)) /\ Range(s) \subseteq Int
<1>1. Range(s) = {s[i] : i \in 1..Len(s)}
  BY DEF Range
<1>2. IsFiniteSet(1..Len(s))
  BY FS_Interval
<1>3. s \in Surjection(1..Len(s), Range(s))
  BY <1>1 DEF Surjection
<1>4. IsFiniteSet(Range(s))
  BY <1>2, <1>3, FS_Surjection
<1>5. Range(s) \subseteq Int
  <2>1. \A i \in 1..Len(s) : s[i] \in Int
    OBVIOUS
  <2>2. QED
    BY <1>1, <2>1
<1>6. QED
  BY <1>1, <1>4, <1>5

(* parse_house_bill makes a good bill of any chart, or refuses it.         *)
LEMMA HouseGood ==
  ASSUME NEW c \in Seq(Int)
  PROVE  GoodBill(TRUE, HouseBill(c))
<1> DEFINE months == Range(c)
           sorted == Sorted(months)
           newest == sorted[Len(sorted)]
           Compared(m) == IF m \in months THEN m ELSE None
           b == [month    |-> newest,
                 history  |-> sorted,
                 previous |-> Compared(ShiftMonth(newest, -1)),
                 lastYear |-> Compared(ShiftMonth(newest, -12))]
<1>1. CASE ~(/\ c # <<>>
             /\ \A m \in months : IsMonth(m)
             /\ Cardinality(months) = Len(c))
  BY <1>1 DEF HouseBill, GoodBill
<1>2. CASE /\ c # <<>>
           /\ \A m \in months : IsMonth(m)
           /\ Cardinality(months) = Len(c)
  <2>1. HouseBill(c) = b
    BY <1>2 DEF HouseBill
  <2>2. months \subseteq Int /\ IsFiniteSet(months)
    BY RangeIsFinite
  <2>3. months \in SUBSET Months
    BY <1>2, <2>2 DEF Months
  <2> HIDE DEF months
  <2>4. /\ sorted \in Seq(months) /\ Len(sorted) = Cardinality(months)
        /\ InOrder(sorted)
        /\ \A m \in months : \E i \in 1..Len(sorted) : sorted[i] = m
    BY <2>2, SortedIsSorted
  <2> HIDE DEF sorted
  <2>5. Len(c) \in Nat \ {0}
    BY <1>2
  <2>6. newest \in months /\ newest \in Months
    BY <1>2, <2>3, <2>4, <2>5
  <2>7. sorted \in Seq(Int)
    BY <2>2, <2>4, SeqMonotonic
  <2>8. Range(sorted) = months
    <3>1. Range(sorted) = {sorted[i] : i \in 1..Len(sorted)}
      BY <2>7, RangeIsFinite
    <3>2. QED
      BY <2>4, <3>1
  <2>9. /\ Before(newest, 1) = ShiftMonth(newest, -1)
        /\ Before(newest, 12) = ShiftMonth(newest, -12)
        /\ ShiftMonth(newest, -1) \in Int /\ ShiftMonth(newest, -12) \in Int
    <3>1. 1 \in Nat /\ 12 \in Nat /\ -1 \in Int /\ -12 \in Int
      OBVIOUS
    <3>2. ShiftMonth(newest, -1) \in Months /\ ShiftMonth(newest, -12) \in Months
      BY <2>6, <3>1, ShiftIsAway
    <3>3. QED
      BY <2>6, <3>1, <3>2, BeforeIsShift DEF Months
  <2>10. /\ b.previous = Comparison(TRUE, b, 1) /\ b.previous \in Int
         /\ b.lastYear = Comparison(TRUE, b, 12) /\ b.lastYear \in Int
    <3> HIDE DEF newest
    <3>1. QED
      BY <2>8, <2>9 DEF Comparison, None
  <2>11. QED
    <3>1. b.month = newest /\ b.history = sorted
      OBVIOUS
    <3>2. b \in [month : Months, history : Seq(Int), previous : Int, lastYear : Int]
      BY <2>6, <2>7, <2>10
    <3>3. InOrder(b.history)
      BY <2>4
    <3>4. b.history[Len(b.history)] = b.month
      OBVIOUS
    <3> HIDE DEF b
    <3>5. QED
      BY <2>1, <2>10, <3>2, <3>3, <3>4 DEF GoodBill
<1>3. QED
  BY <1>1, <1>2

(* parse_bill makes a good bill of any answer, or refuses it.              *)
LEMMA ApartmentGood ==
  ASSUME NEW m \in Months \union {None}, NEW r \in Months \union {None},
         NEW c \in Seq(Int)
  PROVE  /\ GoodBill(FALSE, ApartmentBill(m, r, c))
         /\ ApartmentBill(m, r, c) # NoBill /\ m # None
              => ApartmentBill(m, r, c).month = m
<1> DEFINE month_ == IF m # None THEN m ELSE r
           b == [month |-> month_, history |-> c,
                 previous |-> None, lastYear |-> None]
<1>1. CASE ~(/\ month_ # None /\ (r = None \/ IsMonth(r))
             /\ HistoryReadable(c)
             /\ HistoryFits(c, month_, r))
  BY <1>1 DEF ApartmentBill, GoodBill
<1>2. CASE /\ month_ # None /\ (r = None \/ IsMonth(r))
           /\ HistoryReadable(c)
           /\ HistoryFits(c, month_, r)
  <2>1. ApartmentBill(m, r, c) = b
    BY <1>2 DEF ApartmentBill
  <2>2. month_ \in Months
    BY <1>2
  <2>3. /\ b.month = month_ /\ b.history = c
        /\ b.previous = None /\ b.lastYear = None
    OBVIOUS
  <2>4. InOrder(c)
    BY <1>2, AscendingIsInOrder DEF HistoryReadable
  <2>5. c # <<>> => c[Len(c)] = month_
    BY <1>2 DEF HistoryFits
  <2>6. GoodBill(FALSE, b)
    <3> HIDE DEF b, month_
    <3>1. b \in [month : Months, history : Seq(Int), previous : Int, lastYear : Int]
      BY <2>2 DEF b, None
    <3>2. b.previous = Comparison(FALSE, b, 1) /\ b.lastYear = Comparison(FALSE, b, 12)
      BY <2>3 DEF Comparison
    <3>3. b.history = c /\ b.month = month_
      BY <2>3
    <3>4. QED
      BY <2>4, <2>5, <3>1, <3>2, <3>3 DEF GoodBill
  <2>7. m # None => b.month = m
    BY <2>3
  <2>8. QED
    BY <2>1, <2>6, <2>7
<1>3. QED
  BY <1>1, <1>2

(* Whatever KEPCO ON answers, the parser makes a good bill of it or none,  *)
(* and of the month asked for when an apartment is asked for one.          *)
LEMMA BillsGood ==
  ASSUME NEW m \in Months \union {None}, now \in Months, isHouse \in BOOLEAN,
         NEW b \in Bills(m)
  PROVE  /\ GoodBill(isHouse, b)
         /\ b # NoBill /\ ~isHouse /\ m # None => b.month = m
<1>1. Before(now, 1) \in Months /\ \A l \in Months : Responses(l) \subseteq Months \union {None}
  <2>1. 1 \in Nat /\ 12 \in Nat /\ -1 \in Int /\ -12 \in Int
    OBVIOUS
  <2>2. \A l \in Months : Before(l, 1) \in Months /\ Before(l, 12) \in Months
    BY <2>1, BeforeIsShift, ShiftIsAway
  <2>3. \A l \in Months : NextMonth(l) \in Months
    BY NextIsAfter
  <2>4. QED
    BY <2>2, <2>3 DEF Responses
<1>2. \A l \in Months : \A c \in Charts(l) : c \in Seq(Int)
  BY ChartIsSeq
<1>3. CASE isHouse
  <2>1. PICK l \in {now, Before(now, 1)} : \E c \in Charts(l) : b = HouseBill(c)
    BY <1>3 DEF Bills
  <2>2. PICK c \in Seq(Int) : b = HouseBill(c)
    BY <1>1, <1>2, <2>1
  <2>3. QED
    BY <1>3, <2>2, HouseGood
<1>4. CASE ~isHouse
  <2> DEFINE latest == IF m # None THEN {m} ELSE {now, Before(now, 1)}
  <2>1. latest \subseteq Months
    BY <1>1
  <2>2. \E r \in UNION {Responses(l) : l \in latest},
           c \in UNION {Charts(l) : l \in latest} : b = ApartmentBill(m, r, c)
    BY <1>4 DEF Bills
  <2> HIDE DEF latest
  <2>3. PICK r \in Months \union {None}, c \in Seq(Int) : b = ApartmentBill(m, r, c)
    BY <1>1, <1>2, <2>1, <2>2
  <2>4. QED
    BY <1>4, <2>3, ApartmentGood
<1>5. QED
  BY <1>3, <1>4

------------------------------------------------------------------------------
(* The invariant: the months are months, the bills held are good, and what *)
(* a call has answered is what it read.                                    *)

Refusal == reply.kind = "invalid_month" <=> ~InWindow(askedIn, month)

ReplyRight ==
  /\ reply.kind \in {"bill", "history"} => bill # NoBill
  /\ reply.kind = "history" =>
       reply.months = Newest(bill.history, HistoryMonths(option))
  /\ reply.kind = "bill" => reply.months = <<bill.month>>
  /\ reply.kind \in Errors => reply.months = <<>>
  /\ month # None => reply.kind = "invalid_entry" \/ Refusal
  /\ reply.kind = "client_month" =>
       month # None /\ InWindow(askedIn, month) /\ ~ClientAccepts(askedIn, month)

Inv ==
  /\ TypeOK /\ now \in Months /\ askedIn \in Months
  /\ reply \in [kind : Replies, months : {reply.months}]
  /\ GoodBill(isHouse, data) /\ GoodBill(isHouse, bill)
  /\ stage \in {"idle", "bill"} => bill = NoBill
  /\ stage = "planner" => bill # NoBill
  /\ stage # "done" => reply = [kind |-> "none", months |-> <<>>]
  /\ stage = "done" => reply.kind # "none"
  /\ stage \in {"bill", "planner"} /\ month # None => InWindow(askedIn, month)
  /\ bill # NoBill /\ ~isHouse /\ month # None => bill.month = month
  /\ stage = "done" => ReplyRight

(* A good bill is well typed.                                              *)
LEMMA GoodIsBill ==
  ASSUME NEW house, NEW b, GoodBill(house, b)
  PROVE  IsBill(b)
<1>1. CASE b = NoBill
  BY <1>1 DEF IsBill, NoBill
<1>2. CASE b # NoBill
  <2>1. b \in [month : Months, history : Seq(Int), previous : Int, lastYear : Int]
    BY <1>2 DEF GoodBill
  <2>2. DOMAIN b = DOMAIN NoBill
    BY <2>1 DEF NoBill
  <2>3. QED
    BY <2>1, <2>2 DEF IsBill, Months
<1>3. QED
  BY <1>1, <1>2

(* The present month is a month.                                           *)
LEMMA NowIsMonth ==
  ASSUME TypeOK
  PROVE  now \in Months /\ askedIn \in Int
BY MonthsAssumption DEF TypeOK, Months

(* No bill is a good one, for want of anything wrong in it.                *)
LEMMA NoBillGood == ASSUME NEW house PROVE GoodBill(house, NoBill)
BY DEF GoodBill

(* The services start with nothing asked.                                  *)
LEMMA InitInv == Init => Inv
<1> SUFFICES ASSUME Init PROVE Inv
  OBVIOUS
<1>1. GoodBill(isHouse, NoBill) /\ IsBill(NoBill)
  BY NoBillGood, GoodIsBill
<1>2. now \in Months /\ now \in FirstMonth..LastMonth
  BY MonthsAssumption DEF Init, Months
<1>3. TypeOK
  BY <1>1, <1>2 DEF Init, TypeOK, Services, Replies, Errors, Months, None
<1>4. QED
  BY <1>1, <1>2, <1>3 DEF Init, Inv, Replies, Errors

(* The next month is still within the model's months.                      *)
LEMMA TickInRange ==
  ASSUME NEW m \in Months, NEW last \in Months, m < last
  PROVE  NextMonth(m) \in Months /\ m < NextMonth(m) /\ NextMonth(m) <= last
<1>1. NextMonth(m) \in Months /\ Index(NextMonth(m)) = Index(m) + 1
  BY NextIsAfter
<1>2. Index(m) \in Int /\ Index(last) \in Int /\ m \in Int /\ last \in Int /\ NextMonth(m) \in Int
  BY <1>1, MonthParts DEF Months
<1>3. ~(Index(last) <= Index(m))
  BY <1>2, DigitsInOrder
<1>4. ~(Index(NextMonth(m)) <= Index(m)) /\ Index(NextMonth(m)) <= Index(last)
  BY <1>1, <1>2, <1>3
<1>5. ~(NextMonth(m) <= m) /\ NextMonth(m) <= last
  BY <1>1, <1>4, DigitsInOrder
<1>6. QED
  BY <1>1, <1>2, <1>5

(* Answering with a bill that is one answers it right.                     *)
LEMMA AnswerRight ==
  ASSUME NEW b, b # NoBill, NEW srv \in Services, Answer(b, srv),
         month' # None => InWindow(askedIn', month'), UNCHANGED option
  PROVE  /\ bill' = b /\ stage' = "done" /\ ReplyRight'
         /\ reply' \in [kind : Replies, months : {reply'.months}]
         /\ reply'.kind # "none"
<1>1. CASE srv = "monthly_bill"
  <2>1. bill' = b /\ stage' = "done" /\ reply' = [kind |-> "bill", months |-> <<b.month>>]
    BY <1>1 DEF Answer, Reply
  <2>2. QED
    BY <2>1 DEF ReplyRight, Refusal, Replies, Errors
<1>2. CASE srv = "usage_history"
  <2>1. /\ bill' = b /\ stage' = "done"
        /\ reply' = [kind |-> "history", months |-> Newest(b.history, HistoryMonths(option))]
    BY <1>2 DEF Answer, Reply
  <2>2. QED
    BY <2>1 DEF ReplyRight, Refusal, Replies, Errors
<1>3. QED
  BY <1>1, <1>2 DEF Services

(* A call that ends without a bill is answered with an error.              *)
LEMMA ErrorRight ==
  ASSUME NEW kind \in Errors, Reply(kind, <<>>),
         month' # None => kind = "invalid_entry"
            \/ (kind = "invalid_month" <=> ~InWindow(askedIn', month')),
         kind = "client_month" =>
            month' # None /\ InWindow(askedIn', month') /\ ~ClientAccepts(askedIn', month')
  PROVE  /\ stage' = "done" /\ ReplyRight'
         /\ reply' \in [kind : Replies, months : {reply'.months}]
         /\ reply'.kind # "none"
<1>1. stage' = "done" /\ reply' = [kind |-> kind, months |-> <<>>]
  BY DEF Reply
<1>2. QED
  BY <1>1 DEF ReplyRight, Refusal, Replies, Errors

(* The month a request asks for is a month.                                *)
LEMMA RequestedIsMonth ==
  ASSUME Inv, stage \in {"bill", "planner"}
  PROVE  month \in Months \union {None}
<1>1. month \in Nat \union {None}
  BY MonthsAssumption DEF Inv, TypeOK
<1>2. CASE month # None
  BY <1>1, <1>2 DEF Inv, InWindow, Months
<1>3. QED
  BY <1>2

(* A call is checked, and refused or sent.                                 *)
LEMMA CallStep ==
  ASSUME Inv, NEW srv \in Services, NEW m \in Asked \union {None}, Call(srv, m)
  PROVE  Inv'
<1>1. /\ stage = "idle" /\ service' = srv /\ month' = m /\ askedIn' = now
      /\ now' = now /\ isHouse' = isHouse /\ loaded' = loaded /\ option' = option
      /\ data' = data /\ attached' = attached
  BY DEF Call, entryVars
<1>2. bill = NoBill /\ reply = [kind |-> "none", months |-> <<>>]
  BY <1>1 DEF Inv
<1>3. askedIn' \in FirstMonth..now' /\ now \in Months /\ now' \in Months
  BY <1>1, MonthsAssumption DEF Inv, TypeOK
<1>4. ASSUME GoodBill(isHouse, bill'), bill' # NoBill => m = None,
             reply' \in [kind : Replies, months : {reply'.months}],
             stage' \in {"idle", "bill", "done"},
             stage' \in {"idle", "bill"} => bill' = NoBill,
             stage' # "done" => reply' = [kind |-> "none", months |-> <<>>],
             stage' = "done" => reply'.kind # "none",
             stage' \in {"bill", "planner"} /\ m # None => InWindow(now, m),
             stage' = "done" => ReplyRight'
      PROVE  Inv'
  <2>1. IsBill(bill')
    BY <1>4, GoodIsBill
  <2>2. TypeOK'
    BY <1>1, <1>3, <1>4, <2>1 DEF Inv, TypeOK
  <2>3. QED
    BY <1>1, <1>3, <1>4, <2>2 DEF Inv
<1>5. CASE ~loaded /\ Reply("invalid_entry", <<>>) /\ UNCHANGED bill
  <2>1. "invalid_entry" \in Errors
    BY DEF Errors
  <2>2. /\ stage' = "done" /\ ReplyRight'
        /\ reply' \in [kind : Replies, months : {reply'.months}]
        /\ reply'.kind # "none"
    BY <1>5, <2>1, ErrorRight
  <2>3. QED
    BY <1>2, <1>4, <1>5, <2>2, NoBillGood
<1>6. CASE /\ loaded /\ m # None /\ ~InWindow(now, m)
           /\ Reply("invalid_month", <<>>) /\ UNCHANGED bill
  <2>1. "invalid_month" \in Errors
    BY DEF Errors
  <2>2. /\ stage' = "done" /\ ReplyRight'
        /\ reply' \in [kind : Replies, months : {reply'.months}]
        /\ reply'.kind # "none"
    BY <1>1, <1>6, <2>1, ErrorRight
  <2>3. QED
    BY <1>2, <1>4, <1>6, <2>2, NoBillGood
<1>7. CASE loaded /\ m = None /\ data # NoBill /\ Answer(data, srv)
  <2>1. GoodBill(isHouse, data)
    BY DEF Inv
  <2>2. /\ bill' = data /\ stage' = "done" /\ ReplyRight'
        /\ reply' \in [kind : Replies, months : {reply'.months}]
        /\ reply'.kind # "none"
    BY <1>1, <1>7, AnswerRight
  <2>3. QED
    BY <1>4, <1>7, <2>1, <2>2
<1>8. CASE /\ IF m = None THEN data = NoBill ELSE InWindow(now, m)
           /\ stage' = "bill" /\ UNCHANGED <<bill, reply>>
  BY <1>2, <1>4, <1>8, NoBillGood DEF Replies
<1>9. CASE /\ IF m = None THEN data = NoBill ELSE InWindow(now, m)
           /\ ~isHouse /\ m # None /\ ~ClientAccepts(now, m)
           /\ Reply("client_month", <<>>) /\ UNCHANGED bill
  <2>1. "client_month" \in Errors
    BY DEF Errors
  <2>2. /\ stage' = "done" /\ ReplyRight'
        /\ reply' \in [kind : Replies, months : {reply'.months}]
        /\ reply'.kind # "none"
    BY <1>1, <1>9, <2>1, ErrorRight
  <2>3. QED
    BY <1>2, <1>4, <1>9, <2>2, NoBillGood
<1>10. QED
  BY <1>5, <1>6, <1>7, <1>8, <1>9 DEF Call

(* The bill arrives: parsed, checked against the month asked for, and      *)
(* answered or kept for the planner.                                       *)
LEMMA BillArrivesStep ==
  ASSUME Inv, BillArrives
  PROVE  Inv'
<1>1. /\ stage = "bill" /\ month \in Months \union {None} /\ service \in Services
      /\ now \in Months /\ isHouse \in BOOLEAN
      /\ month # None => InWindow(askedIn, month)
      /\ bill = NoBill /\ reply = [kind |-> "none", months |-> <<>>]
  BY RequestedIsMonth DEF BillArrives, Inv, TypeOK
<1>2. /\ now' = now /\ isHouse' = isHouse /\ loaded' = loaded /\ option' = option
      /\ data' = data /\ attached' = attached
      /\ service' = service /\ month' = month /\ askedIn' = askedIn
  BY DEF BillArrives, entryVars
<1>3. PICK b \in Bills(month) :
        \/ /\ b = NoBill
           /\ Reply("service_failed", <<>>)
           /\ UNCHANGED bill
        \/ /\ b # NoBill /\ ~isHouse /\ month # None
           /\ Answer(b, service)
        \/ /\ b # NoBill /\ (isHouse \/ month = None)
           /\ Plan(b)
  BY DEF BillArrives
<1>4. GoodBill(isHouse, b) /\ (b # NoBill /\ ~isHouse /\ month # None => b.month = month)
  BY <1>1, BillsGood
<1>5. ASSUME stage' \in {"planner", "done"},
             stage' = "planner" => bill' # NoBill,
             GoodBill(isHouse, bill'),
             bill' # NoBill /\ ~isHouse /\ month # None => bill'.month = month,
             reply' \in [kind : Replies, months : {reply'.months}],
             stage' # "done" => reply' = [kind |-> "none", months |-> <<>>],
             stage' = "done" => reply'.kind # "none",
             stage' = "done" => ReplyRight'
      PROVE  Inv'
  <2>1. IsBill(bill')
    BY <1>5, GoodIsBill
  <2>2. TypeOK'
    BY <1>2, <1>5, <2>1 DEF Inv, TypeOK
  <2>3. QED
    BY <1>1, <1>2, <1>5, <2>2 DEF Inv
<1>6. CASE b = NoBill /\ Reply("service_failed", <<>>) /\ UNCHANGED bill
  <2>1. "service_failed" \in Errors
    BY DEF Errors
  <2>2. /\ stage' = "done" /\ ReplyRight'
        /\ reply' \in [kind : Replies, months : {reply'.months}]
        /\ reply'.kind # "none"
    BY <1>1, <1>2, <1>6, <2>1, ErrorRight
  <2>3. QED
    BY <1>1, <1>5, <1>6, <2>2, NoBillGood
<1>7. CASE b # NoBill /\ ~isHouse /\ month # None /\ Answer(b, service)
  <2>1. /\ bill' = b /\ stage' = "done" /\ ReplyRight'
        /\ reply' \in [kind : Replies, months : {reply'.months}]
        /\ reply'.kind # "none"
    BY <1>1, <1>2, <1>7, AnswerRight
  <2>2. QED
    BY <1>4, <1>5, <2>1
<1>8. CASE b # NoBill /\ (isHouse \/ month = None) /\ Plan(b)
  BY <1>1, <1>4, <1>5, <1>8 DEF Plan, Replies
<1>9. QED
  BY <1>3, <1>6, <1>7, <1>8

(* The steps that leave the call's answer as it is.                        *)
LEMMA AroundTheCall ==
  ASSUME Inv, Tick \/ Refresh \/ ChangeOption \/ Unload \/ Setup
  PROVE  Inv'
<1>1. now \in Months /\ askedIn \in Months /\ isHouse \in BOOLEAN
  BY DEF Inv, TypeOK
<1>2. CASE Tick
  <2>1. /\ now < LastMonth /\ now' = NextMonth(now) /\ UNCHANGED <<entryVars, callVars, attached>>
    BY <1>2 DEF Tick
  <2>2. LastMonth \in Months
    BY MonthsAssumption DEF Months
  <2>3. now' \in Months /\ now < now' /\ now' <= LastMonth
    BY <1>1, <2>1, <2>2, TickInRange
  <2>4. TypeOK'
    BY <1>1, <2>1, <2>3, MonthsAssumption DEF Inv, TypeOK, entryVars, callVars, Months
  <2>5. QED
    BY <2>1, <2>3, <2>4 DEF Inv, entryVars, callVars, ReplyRight, Refusal
<1>3. CASE Refresh \/ Setup
  <2>1. GoodBill(isHouse, data')
    <3>1. data' \in Bills(None)
      BY <1>3 DEF Refresh, Setup
    <3>2. QED
      BY <1>1, <3>1, BillsGood
  <2>2. IsBill(data')
    BY <2>1, GoodIsBill
  <2>3. /\ now' = now /\ isHouse' = isHouse /\ option' = option
        /\ stage' = stage /\ service' = service /\ month' = month
        /\ askedIn' = askedIn /\ bill' = bill /\ reply' = reply
        /\ loaded' \in BOOLEAN /\ attached' \in BOOLEAN
    BY <1>3 DEF Refresh, Setup, callVars, Inv, TypeOK
  <2>4. TypeOK'
    BY <2>2, <2>3 DEF Inv, TypeOK
  <2>5. QED
    BY <2>1, <2>3, <2>4 DEF Inv, ReplyRight, Refusal
<1>4. CASE ChangeOption
  <2>1. /\ stage # "done" /\ option' \in Options
        /\ UNCHANGED <<now, isHouse, loaded, data, callVars, attached>>
    BY <1>4 DEF ChangeOption
  <2>2. TypeOK'
    BY <2>1 DEF Inv, TypeOK, callVars
  <2>3. QED
    BY <2>1, <2>2 DEF Inv, callVars
<1>5. CASE Unload
  <2>1. /\ loaded' = FALSE /\ data' = NoBill /\ attached' = FALSE
        /\ UNCHANGED <<now, isHouse, option, callVars>>
    BY <1>5 DEF Unload
  <2>2. GoodBill(isHouse, NoBill) /\ IsBill(NoBill)
    BY NoBillGood, GoodIsBill
  <2>3. TypeOK'
    BY <2>1, <2>2 DEF Inv, TypeOK, callVars
  <2>4. QED
    BY <2>1, <2>2, <2>3 DEF Inv, callVars, ReplyRight, Refusal
<1>6. QED
  BY <1>2, <1>3, <1>4, <1>5

(* The invariant is preserved by every step.                               *)
LEMMA NextInv == Inv /\ [Next]_vars => Inv'
<1> SUFFICES ASSUME Inv, [Next]_vars PROVE Inv'
  OBVIOUS
<1>1. CASE Tick \/ Refresh \/ ChangeOption \/ Unload \/ Setup
  BY <1>1, AroundTheCall
<1>2. CASE \E srv \in Services, m \in Asked \union {None} : Call(srv, m)
  BY <1>2, CallStep
<1>3. CASE BillArrives
  BY <1>3, BillArrivesStep
<1>4. CASE PlannerEnds
  <2>1. /\ stage = "planner" /\ Answer(bill, service) /\ service \in Services
        /\ UNCHANGED <<now, entryVars, service, month, askedIn, attached>>
    BY <1>4 DEF PlannerEnds, Inv, TypeOK
  <2>2. month # None => InWindow(askedIn, month)
    BY <2>1 DEF Inv
  <2>3. CASE bill # NoBill
    <3>1. /\ bill' = bill /\ stage' = "done" /\ ReplyRight'
          /\ reply' \in [kind : Replies, months : {reply'.months}]
          /\ reply'.kind # "none"
      BY <2>1, <2>2, <2>3, AnswerRight DEF entryVars
    <3>2. TypeOK'
      BY <2>1, <3>1 DEF Inv, TypeOK, entryVars
    <3>3. QED
      BY <2>1, <3>1, <3>2 DEF Inv, entryVars
  <2>4. QED
    BY <2>1, <2>3 DEF Inv
<1>5. CASE RequestFails \/ SessionClosed
  <2>1. /\ stage \in {"bill", "planner"}
        /\ (Reply("service_failed", <<>>) \/ Reply("raw", <<>>))
        /\ UNCHANGED <<now, entryVars, service, month, askedIn, attached, bill>>
    BY <1>5 DEF RequestFails, SessionClosed
  <2>2. month # None => InWindow(askedIn, month)
    BY <2>1 DEF Inv
  <2>3. "service_failed" \in Errors /\ "raw" \in Errors
    BY DEF Errors
  <2>4. /\ stage' = "done" /\ ReplyRight'
        /\ reply' \in [kind : Replies, months : {reply'.months}]
        /\ reply'.kind # "none"
    BY <2>1, <2>2, <2>3, ErrorRight
  <2>5. TypeOK'
    BY <2>1, <2>4 DEF Inv, TypeOK, entryVars
  <2>6. QED
    BY <2>1, <2>4, <2>5 DEF Inv, entryVars
<1>6. CASE Return
  <2>1. GoodBill(isHouse, NoBill) /\ IsBill(NoBill)
    BY NoBillGood, GoodIsBill
  <2>2. TypeOK'
    BY <1>6, <2>1, MonthsAssumption DEF Return, Inv, TypeOK, entryVars, Services, Replies, Errors, Months
  <2>3. QED
    BY <1>6, <2>1, <2>2 DEF Return, Inv, entryVars, Replies
<1>7. CASE UNCHANGED vars
  BY <1>7 DEF vars, entryVars, callVars, Inv, TypeOK, ReplyRight, Refusal
<1>8. QED
  BY <1>1, <1>2, <1>3, <1>4, <1>5, <1>6, <1>7 DEF Next

(* Every reachable state satisfies the invariant: the bill held and the    *)
(* bill a call has read are good bills of their customer's kind.           *)
THEOREM InvariantHolds == Spec => []Inv
<1>1. Init => Inv
  BY InitInv
<1>2. Inv /\ [Next]_vars => Inv'
  BY NextInv
<1>3. QED
  BY <1>1, <1>2, PTL DEF Spec

(* The current month stays a month as it passes, and every bill is one.    *)
THEOREM TypeCorrect == Spec => []TypeOK
<1>1. Inv => TypeOK
  BY DEF Inv
<1>2. QED
  BY <1>1, InvariantHolds, PTL

------------------------------------------------------------------------------
(* What the services promise.                                              *)

(* A call's month is refused exactly when it is none of the last 24, and   *)
(* from January 2002 on never by the client after all.                     *)
LEMMA InvRefusesRightly ==
  ASSUME FirstMonth >= 200201, Inv
  PROVE  MonthsRefusedRightly
<1> SUFFICES ASSUME stage # "idle", month # None, reply.kind # "invalid_entry"
             PROVE  /\ reply.kind = "invalid_month"
                         <=> month \notin {Before(askedIn, k) : k \in 0..23}
                    /\ reply.kind # "client_month"
  BY DEF MonthsRefusedRightly
<1>1. askedIn \in Months /\ askedIn >= 200201 /\ month \in Int
  BY MonthsAssumption DEF Inv, TypeOK
<1>2. InWindow(askedIn, month) <=> month \in {Before(askedIn, k) : k \in 0..23}
  BY <1>1, WindowIsLast24
<1>3. CASE stage = "done"
  <2>1. ReplyRight
    BY <1>3 DEF Inv
  <2>2. reply.kind = "invalid_month" <=> ~InWindow(askedIn, month)
    BY <2>1 DEF ReplyRight, Refusal
  <2>3. reply.kind # "client_month"
    <3>1. InWindow(askedIn, month) => ClientAccepts(askedIn, month)
      BY <1>1, WindowAccepted
    <3>2. QED
      BY <2>1, <3>1 DEF ReplyRight
  <2>4. QED
    BY <1>2, <2>2, <2>3
<1>4. CASE stage # "done"
  <2>1. stage \in {"bill", "planner"} /\ reply.kind = "none"
    BY <1>4 DEF Inv, TypeOK
  <2>2. InWindow(askedIn, month)
    BY <2>1 DEF Inv
  <2>3. QED
    BY <1>2, <2>1, <2>2
<1>5. QED
  BY <1>3, <1>4

(* From the first month the client accepts the window over, a call is      *)
(* refused for its month exactly when that is none of the last 24, and by  *)
(* the service, never by the client.                                       *)
THEOREM RefusesRightly ==
  ASSUME FirstMonth >= 200201
  PROVE  Spec => []MonthsRefusedRightly
<1>1. Inv => MonthsRefusedRightly
  BY InvRefusesRightly
<1>2. QED
  BY <1>1, InvariantHolds, PTL

(* A good bill's history is a sequence of months in order.                 *)
LEMMA GoodHistory ==
  ASSUME NEW house, NEW b, GoodBill(house, b)
  PROVE  /\ b.history \in Seq(Int) /\ InOrder(b.history)
         /\ b # NoBill /\ b.history # <<>> => b.history[Len(b.history)] = b.month
         /\ Range(b.history) = {b.history[i] : i \in 1..Len(b.history)}
<1>1. /\ b.history \in Seq(Int) /\ InOrder(b.history)
      /\ b # NoBill /\ b.history # <<>> => b.history[Len(b.history)] = b.month
  <2>1. CASE b = NoBill
    BY <2>1 DEF NoBill, InOrder
  <2>2. CASE b # NoBill
    BY <2>2 DEF GoodBill
  <2>3. QED
    BY <2>1, <2>2
<1>2. QED
  BY <1>1, RangeIsFinite

(* It holds of every reply the invariant allows.                           *)
LEMMA InvAnswersNewest == ASSUME Inv PROVE AnswerIsNewestAndAsked
<1>1. /\ bill.history \in Seq(Int) /\ InOrder(bill.history)
      /\ bill # NoBill /\ bill.history # <<>>
           => bill.history[Len(bill.history)] = bill.month
      /\ Range(bill.history) = {bill.history[i] : i \in 1..Len(bill.history)}
  BY GoodHistory DEF Inv
<1> DEFINE h == bill.history
           limit == HistoryMonths(option)
<1>2. limit \in Nat \ {0} /\ limit = IF option \in 1..24 THEN option ELSE 12
  BY DEF HistoryMonths
<1> HIDE DEF h, limit
<1>3. /\ Newest(h, limit) \in Seq(Int) /\ InOrder(Newest(h, limit))
      /\ Range(Newest(h, limit))
           = {m \in Range(h) : Cardinality({x \in Range(h) : x > m}) < limit}
      /\ h # <<>> => /\ Newest(h, limit) # <<>>
                     /\ Newest(h, limit)[Len(Newest(h, limit))] = h[Len(h)]
  BY <1>1, <1>2, NewestAreNewest DEF h
<1>4. ASSUME reply.kind = "history"
      PROVE  reply.months = Newest(h, limit) /\ bill # NoBill
  BY <1>4 DEF Inv, ReplyRight, h, limit
<1>5. ASSUME reply.kind = "history"
      PROVE  /\ Ascending(reply.months)
             /\ {reply.months[i] : i \in 1..Len(reply.months)}
                  = {m \in Range(h) : Cardinality({x \in Range(h) : x > m}) < limit}
  <2>1. Ascending(reply.months)
    BY <1>3, <1>4, <1>5, AscendingIsInOrder
  <2>2. Range(reply.months) = {reply.months[i] : i \in 1..Len(reply.months)}
    BY <1>3, <1>4, <1>5, RangeIsFinite
  <2>3. QED
    BY <1>3, <1>4, <1>5, <2>1, <2>2
<1>6. ASSUME ~isHouse, month # None, reply.months # <<>>
      PROVE  reply.months[Len(reply.months)] = month
  <2>1. stage = "done" /\ reply.kind \in {"bill", "history"}
    BY <1>6 DEF Inv, ReplyRight, Replies
  <2>2. bill # NoBill /\ bill.month = month
    BY <1>6, <2>1 DEF Inv, ReplyRight
  <2>3. CASE reply.kind = "bill"
    <3>1. reply.months = <<bill.month>>
      BY <2>1, <2>3 DEF Inv, ReplyRight
    <3>2. QED
      BY <2>2, <3>1
  <2>4. CASE reply.kind = "history"
    <3>1. reply.months = Newest(h, limit)
      BY <1>4, <2>4
    <3>2. h # <<>>
      <4>1. ASSUME h = <<>> PROVE FALSE
        BY <1>2, <1>6, <3>1, <4>1 DEF Newest
      <4>2. QED
        BY <4>1
    <3>3. QED
      BY <1>1, <1>3, <2>2, <3>1, <3>2 DEF h
  <2>5. QED
    BY <2>1, <2>3, <2>4
<1>7. QED
  BY <1>1, <1>2, <1>5, <1>6 DEF AnswerIsNewestAndAsked, h

(* A history answered is in order and holds the newest months of the bill, *)
(* as many as the option says, for every bill and every option; an         *)
(* apartment asked for a month is answered for that month.                 *)
THEOREM AnswersNewest == Spec => []AnswerIsNewestAndAsked
<1>1. Inv => AnswerIsNewestAndAsked
  BY InvAnswersNewest
<1>2. QED
  BY <1>1, InvariantHolds, PTL

(* A good bill is compared with the right months.                          *)
LEMMA GoodCompares ==
  ASSUME NEW b, GoodBill(isHouse, b)
  PROVE  LET all == {b.history[i] : i \in 1..Len(b.history)}
             Compared(k) == IF isHouse /\ b # NoBill /\ Before(b.month, k) \in all
                            THEN Before(b.month, k) ELSE None
         IN  b.previous = Compared(1) /\ b.lastYear = Compared(12)
<1>1. Range(b.history) = {b.history[i] : i \in 1..Len(b.history)}
  BY GoodHistory
<1>2. CASE b = NoBill
  BY <1>2 DEF NoBill
<1>3. CASE b # NoBill
  <2>1. b.previous = Comparison(isHouse, b, 1) /\ b.lastYear = Comparison(isHouse, b, 12)
    BY <1>3 DEF GoodBill
  <2>2. QED
    BY <1>1, <1>3, <2>1 DEF Comparison
<1>4. QED
  BY <1>2, <1>3

(* A bill is compared with the month before it and the same month of the   *)
(* year before, whatever order and whatever gaps its chart has.            *)
THEOREM ComparesMonths == Spec => []ComparesCalendarMonths
<1>1. Inv => ComparesCalendarMonths
  <2>1. SUFFICES ASSUME Inv, NEW b \in {data, bill}
        PROVE  LET all == {b.history[i] : i \in 1..Len(b.history)}
                   Compared(k) == IF isHouse /\ b # NoBill /\ Before(b.month, k) \in all
                                  THEN Before(b.month, k) ELSE None
               IN  b.previous = Compared(1) /\ b.lastYear = Compared(12)
    BY DEF ComparesCalendarMonths
  <2>2. GoodBill(isHouse, data) /\ GoodBill(isHouse, bill)
    BY <2>1 DEF Inv
  <2>3. GoodBill(isHouse, b)
    BY <2>2
  <2>4. QED
    BY <2>3, GoodCompares
<1>2. QED
  BY <1>1, InvariantHolds, PTL
===============================================================================
