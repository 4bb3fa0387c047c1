-------------------------- MODULE MonthlySensors_proofs --------------------------
(***************************************************************************)
(* Proofs about MonthlySensors, for any months and any parts of the usage. *)
(***************************************************************************)
EXTENDS MonthlySensors, TLAPS

Months == {m \in Int : IsMonth(m)}
Index(m) == Year(m) * 12 + MonthNo(m)

------------------------------------------------------------------------------
(* The calendar: a month by its parts, and moving on from it.              *)

(* A month is its year and its number in the year.                         *)
LEMMA MonthParts ==
  ASSUME NEW m \in Months
  PROVE  /\ Year(m) \in Int /\ MonthNo(m) \in 1..12
         /\ m = Year(m) * 100 + MonthNo(m)
         /\ Index(m) \in Int
BY DEF Months, IsMonth, Year, MonthNo, Index

(* And a year and a number make one.                                       *)
LEMMA MonthOf ==
  ASSUME NEW y \in Int, NEW n \in 1..12, NEW m, m = y * 100 + n
  PROVE  m \in Months /\ Year(m) = y /\ MonthNo(m) = n
BY DEF Months, IsMonth, Year, MonthNo

(* A month has one index.                                                  *)
LEMMA IndexIsOne ==
  ASSUME NEW m \in Months, NEW n \in Months, Index(m) = Index(n)
  PROVE  m = n
BY MonthParts DEF Index

(* _next_month is the month after, _shift_month the one k months away.     *)
LEMMA NextIsAfter ==
  ASSUME NEW m \in Months
  PROVE  NextMonth(m) \in Months /\ Index(NextMonth(m)) = Index(m) + 1
<1>1. CASE MonthNo(m) = 12
  <2>1. NextMonth(m) = (Year(m) + 1) * 100 + 1
    BY <1>1 DEF NextMonth
  <2>2. Year(m) + 1 \in Int /\ 1 \in 1..12
    BY MonthParts
  <2>3. /\ NextMonth(m) \in Months
        /\ Year(NextMonth(m)) = Year(m) + 1 /\ MonthNo(NextMonth(m)) = 1
    BY <2>1, <2>2, MonthOf
  <2>4. QED
    BY <1>1, <2>3, MonthParts DEF Index
<1>2. CASE MonthNo(m) # 12
  <2>1. NextMonth(m) = Year(m) * 100 + (MonthNo(m) + 1) /\ MonthNo(m) + 1 \in 1..12
    BY <1>2, MonthParts DEF NextMonth
  <2>2. /\ NextMonth(m) \in Months
        /\ Year(NextMonth(m)) = Year(m) /\ MonthNo(NextMonth(m)) = MonthNo(m) + 1
    <3>1. Year(m) \in Int
      BY MonthParts
    <3>2. QED
      BY <2>1, <3>1, MonthOf
  <2>3. QED
    BY <2>2, MonthParts DEF Index
<1>3. QED
  BY <1>1, <1>2

(* Division by twelve and its remainder.                                   *)
LEMMA TwelveParts ==
  ASSUME NEW i \in Int
  PROVE  \E q \in Int, r \in 0..11 : q = i \div 12 /\ r = i % 12 /\ i = q * 12 + r
<1>1. i \div 12 \in Int /\ i % 12 \in 0..11
  OBVIOUS
<1>2. PICK q \in Int, r \in 0..11 : q = i \div 12 /\ r = i % 12
  BY <1>1
<1>3. i = q * 12 + r
  BY <1>2
<1>4. QED
  BY <1>2, <1>3

(* _shift_month goes k months by the calendar.                             *)
LEMMA ShiftIsAway ==
  ASSUME NEW m \in Months, NEW k \in Int
  PROVE  ShiftMonth(m, k) \in Months /\ Index(ShiftMonth(m, k)) = Index(m) + k
<1>1. PICK i \in Int : i = Index(m) - 1 + k
  BY MonthParts
<1>2. PICK q \in Int, r \in 0..11 : q = i \div 12 /\ r = i % 12 /\ i = q * 12 + r
  BY TwelveParts
<1>3. ShiftMonth(m, k) = q * 100 + (r + 1) /\ r + 1 \in 1..12
  <2>1. Year(m) * 12 + MonthNo(m) - 1 + k = i
    BY <1>1, MonthParts DEF Index
  <2>2. ShiftMonth(m, k) = (i \div 12) * 100 + (i % 12) + 1
    BY <2>1, MonthParts DEF ShiftMonth
  <2>3. QED
    BY <1>2, <2>2
<1>4. /\ ShiftMonth(m, k) \in Months
      /\ Year(ShiftMonth(m, k)) = q /\ MonthNo(ShiftMonth(m, k)) = r + 1
  BY <1>3, MonthOf
<1>5. Index(ShiftMonth(m, k)) = i + 1
  BY <1>2, <1>4 DEF Index
<1>6. QED
  BY <1>1, <1>4, <1>5, MonthParts

------------------------------------------------------------------------------
(* The inductive invariant: what the parser makes of KEPCO ON's answers,   *)
(* and that names and states belong to the data.                           *)

(* A number is of the month it stands for, or missing.                     *)
OfMonth(x, m) == x = None \/ x = m

GoodPoints(points) ==
  /\ \A p \in points : p.month \in Months /\ OfMonth(p.usage, p.month)
                       /\ OfMonth(p.amount, p.month)
  /\ \A p, q \in points : p.month = q.month => p = q

GoodSplit(s) == /\ s.total \in Nat \union {Unknown}
                /\ s.household \in Nat \union {Unknown}
                /\ s.common \in Nat \union {Unknown}

GoodBill(b) ==
  /\ b # Empty
  /\ b.month \in Months
  /\ OfMonth(b.usage, b.month)
  /\ OfMonth(b.previous, SlotMonth(b.month, -1))
  /\ OfMonth(b.lastYear, SlotMonth(b.month, -12))
  /\ GoodPoints(b.points)
  /\ GoodSplit(b.split)

Inv ==
  /\ latest \in Months
  /\ data = Empty \/ GoodBill(data)
  /\ failed = (data = Empty)
  /\ label = Labels(data)
  /\ shown = Unavailable \/ (data # Empty /\ shown = States(label, data, FALSE, TRUE))

------------------------------------------------------------------------------
(* The months of the sensors.                                              *)
LEMMA SlotIsAway ==
  ASSUME NEW m \in Months, NEW k \in -15..0
  PROVE  /\ SlotMonth(m, k) = ShiftMonth(m, k)
         /\ SlotMonth(m, k) \in Months
         /\ Index(SlotMonth(m, k)) = Index(m) + k
<1>1. SlotMonth(m, k) = ShiftMonth(m, k)
  BY DEF SlotMonth, ShiftMonth
<1>2. QED
  BY <1>1, ShiftIsAway

(* Two sensors are for two months.                                         *)
LEMMA SlotsApart ==
  ASSUME NEW m \in Months, NEW j \in -15..0, NEW k \in -15..0,
         SlotMonth(m, j) = SlotMonth(m, k)
  PROVE  j = k
<1>1. /\ Index(SlotMonth(m, j)) = Index(m) + j
      /\ Index(SlotMonth(m, k)) = Index(m) + k
  BY SlotIsAway
<1>2. Index(m) \in Int
  BY MonthParts
<1>3. QED
  BY <1>1, <1>2

(* The first sensor is for the month of the bill.                          *)
LEMMA OwnSlot == ASSUME NEW m \in Months PROVE SlotMonth(m, 0) = m
<1>1. SlotMonth(m, 0) \in Months /\ Index(SlotMonth(m, 0)) = Index(m) + 0
  BY SlotIsAway
<1>2. Index(m) \in Int
  BY MonthParts
<1>3. QED
  BY <1>1, <1>2, IndexIsOne

(* A month is not absent.                                                  *)
LEMMA MonthIsSome == ASSUME NEW m \in Months PROVE m # None
BY DEF Months, IsMonth, MonthNo, None

(* A sensor shows the usage of its month whenever the bill has it.         *)
Known(b) == {p.usage : p \in b.points} \union {b.usage, b.previous, b.lastYear}

(* _history_usage finds the usage of its month where the bill has it.      *)
LEMMA UsageOfSlot ==
  ASSUME NEW b, GoodBill(b), NEW k \in Slots
  PROVE  Usage(b, k) = IF SlotMonth(b.month, k) \in Known(b)
                       THEN SlotMonth(b.month, k) ELSE None
<1> DEFINE S(j)  == SlotMonth(b.month, j)
           own   == CASE k = 0 -> b.usage [] k = -1 -> b.previous
                      [] k = -12 -> b.lastYear [] OTHER -> None
           found == {p \in b.points : p.month = S(k)}
<1>1. b.month \in Months /\ GoodPoints(b.points)
  BY DEF GoodBill
<1>2. k \in -15..0 /\ S(k) \in Months /\ S(k) # None /\ S(0) = b.month
  <2>1. k \in -15..0
    BY DEF Slots
  <2>2. S(k) \in Months /\ S(0) = b.month
    BY <1>1, <2>1, SlotIsAway, OwnSlot
  <2>3. QED
    BY <2>1, <2>2, MonthIsSome
<1>3. Usage(b, k) = IF own # None \/ found = {} THEN own ELSE (CHOOSE p \in found : TRUE).usage
  BY DEF Usage
<1>4. OfMonth(b.usage, S(0)) /\ OfMonth(b.previous, S(-1)) /\ OfMonth(b.lastYear, S(-12))
  BY <1>2 DEF GoodBill
<1>5. OfMonth(own, S(k))
  <2>1. CASE k = 0
    BY <1>4, <2>1
  <2>2. CASE k = -1
    BY <1>4, <2>2
  <2>3. CASE k = -12
    BY <1>4, <2>3
  <2>4. CASE k \notin {0, -1, -12}
    BY <2>4 DEF OfMonth
  <2>5. QED
    BY <2>1, <2>2, <2>3, <2>4
<1>6. own # None => own \in Known(b)
  BY DEF Known
<1>7. \A p \in b.points : p.usage = S(k) => p \in found
  BY <1>1, <1>2 DEF GoodPoints, OfMonth
<1>8. S(k) \in {b.usage, b.previous, b.lastYear} => own = S(k)
  <2>1. 0 \in -15..0 /\ -1 \in -15..0 /\ -12 \in -15..0
    OBVIOUS
  <2>2. /\ S(k) = S(0) => k = 0
        /\ S(k) = S(-1) => k = -1
        /\ S(k) = S(-12) => k = -12
    BY <1>1, <1>2, <2>1, SlotsApart
  <2>3. /\ b.usage = S(k) => k = 0
        /\ b.previous = S(k) => k = -1
        /\ b.lastYear = S(k) => k = -12
    BY <1>2, <1>4, <2>2 DEF OfMonth
  <2>4. QED
    BY <2>3
<1>9. S(k) \in Known(b) => own = S(k) \/ \E p \in found : p.usage = S(k)
  BY <1>7, <1>8 DEF Known
<1>10. ASSUME found # {}
       PROVE  /\ (CHOOSE p \in found : TRUE) \in b.points
              /\ (CHOOSE p \in found : TRUE) \in found
              /\ \A q \in found : q = (CHOOSE p \in found : TRUE)
  BY <1>1, <1>10 DEF GoodPoints
<1> HIDE DEF own, found, S
<1>11. CASE own # None
  BY <1>3, <1>5, <1>6, <1>11 DEF OfMonth, S
<1>12. CASE own = None /\ found = {}
  BY <1>2, <1>3, <1>9, <1>12 DEF S
<1>13. CASE own = None /\ found # {}
  <2> DEFINE c == CHOOSE p \in found : TRUE
  <2>1. c \in b.points /\ c \in found /\ \A q \in found : q = c
    BY <1>10, <1>13
  <2>2. Usage(b, k) = c.usage
    BY <1>3, <1>13
  <2>3. OfMonth(c.usage, S(k))
    BY <1>1, <2>1 DEF GoodPoints, found
  <2>4. c.usage = S(k) => S(k) \in Known(b)
    BY <2>1 DEF Known
  <2>5. S(k) \in Known(b) => c.usage = S(k)
    BY <1>2, <1>9, <1>13, <2>1
  <2> HIDE DEF c
  <2>6. QED
    BY <2>2, <2>3, <2>4, <2>5 DEF OfMonth, S
<1>14. QED
  BY <1>11, <1>12, <1>13

(* _history_amount finds the amount of its month or none.                  *)
LEMMA AmountOfMonth ==
  ASSUME NEW b, GoodBill(b), NEW m PROVE Amount(b, m) \in {None, m}
<1>1. ASSUME NEW p \in b.points, p.month = m PROVE p.amount \in {None, m}
  BY <1>1 DEF GoodBill, GoodPoints, OfMonth
<1>2. QED
  BY <1>1 DEF Amount

------------------------------------------------------------------------------
(* What KEPCO ON answers is a good bill.                                   *)
LEMMA ShiftedBack ==
  ASSUME NEW m \in Months, NEW ks \in SUBSET (0..14), NEW x \in Back(m, ks)
  PROVE  x \in Months
<1>1. PICK k \in ks : x = ShiftMonth(m, -k)
  BY DEF Back
<1>2. -k \in -15..0
  OBVIOUS
<1>3. QED
  BY <1>1, <1>2, SlotIsAway

(* The rows of a chart carry the numbers of their own months.              *)
LEMMA PointsGood ==
  ASSUME NEW m \in Months, NEW rows \in Rows, NEW blank
  PROVE  GoodPoints(Points(m, rows, blank))
<1>1. rows \in SUBSET (0..14)
  BY DEF Rows
<1>2. \A x \in Back(m, rows) : x \in Months
  BY <1>1, ShiftedBack
<1>3. QED
  BY <1>2 DEF GoodPoints, Points, OfMonth

(* And so does the row found for a month.                                  *)
LEMMA RowOfMonth ==
  ASSUME NEW points, GoodPoints(points), NEW m PROVE OfMonth(Row(points, m), m)
<1>1. ASSUME NEW p \in points, p.month = m PROVE OfMonth(p.usage, m)
  BY <1>1 DEF GoodPoints
<1>2. QED
  BY <1>1 DEF Row, OfMonth

(* A bill without parts is good.                                           *)
LEMMA NoSplitGood == GoodSplit(NoSplit)
BY DEF GoodSplit, NoSplit

(* The bills of a house are good.                                          *)
LEMMA HouseGood ==
  ASSUME NEW m \in Months, NEW b \in HouseBills(m) PROVE GoodBill(b)
<1>1. PICK r \in Rows, k \in {{}, {0}, {1, 12}} :
        LET ps == Points(m, r, k) IN
        b = [month |-> m, usage |-> Row(ps, m), previous |-> Row(ps, ShiftMonth(m, -1)),
             lastYear |-> Row(ps, ShiftMonth(m, -12)), points |-> ps, split |-> NoSplit]
  BY DEF HouseBills
<1> DEFINE ps == Points(m, r, k)
<1>2. GoodPoints(ps)
  BY PointsGood
<1>3. -1 \in -15..0 /\ -12 \in -15..0
  OBVIOUS
<1>4. ShiftMonth(m, -1) = SlotMonth(m, -1) /\ ShiftMonth(m, -12) = SlotMonth(m, -12)
  BY <1>3, SlotIsAway
<1>5. b = [month |-> m, usage |-> Row(ps, m), previous |-> Row(ps, SlotMonth(m, -1)),
           lastYear |-> Row(ps, SlotMonth(m, -12)), points |-> ps, split |-> NoSplit]
  BY <1>1, <1>4
<1> HIDE DEF ps
<1>6. /\ OfMonth(Row(ps, m), m)
      /\ OfMonth(Row(ps, SlotMonth(m, -1)), SlotMonth(m, -1))
      /\ OfMonth(Row(ps, SlotMonth(m, -12)), SlotMonth(m, -12))
  BY <1>2, RowOfMonth
<1>7. b # Empty
  BY <1>5, MonthIsSome DEF Empty
<1>8. QED
  BY <1>2, <1>5, <1>6, <1>7, NoSplitGood DEF GoodBill

(* The bills of an apartment are good.                                     *)
LEMMA ApartmentGood ==
  ASSUME NEW m \in Months, NEW b \in ApartmentBills(m) PROVE GoodBill(b)
<1>1. -1 \in -15..0 /\ -12 \in -15..0
  OBVIOUS
<1>2. ShiftMonth(m, -1) = SlotMonth(m, -1) /\ ShiftMonth(m, -12) = SlotMonth(m, -12)
  BY <1>1, SlotIsAway
<1>3. GoodPoints({})
  BY DEF GoodPoints
<1>4. CASE b \notin {[Empty EXCEPT !.month = m, !.split = s] : s \in Splits}
  <2>1. /\ b.month = m /\ b.split = NoSplit
        /\ OfMonth(b.usage, m) /\ OfMonth(b.previous, ShiftMonth(m, -1))
        /\ OfMonth(b.lastYear, ShiftMonth(m, -12))
        /\ b.points \in Charts(m)
    <3>1. b \in [month : {m}, usage : {m, None}, previous : {ShiftMonth(m, -1), None},
                 lastYear : {ShiftMonth(m, -12), None}, points : Charts(m), split : {NoSplit}]
      BY <1>4, Zenon DEF ApartmentBills
    <3>2. QED
      BY <3>1 DEF OfMonth
  <2>2. GoodPoints(b.points)
    BY <1>3, <2>1, PointsGood DEF Charts
  <2>3. b # Empty
    BY <2>1, MonthIsSome DEF Empty
  <2>4. QED
    BY <1>2, <2>1, <2>2, <2>3, NoSplitGood DEF GoodBill
<1>5. ASSUME NEW s \in Splits, b = [Empty EXCEPT !.month = m, !.split = s]
      PROVE  GoodBill(b)
  <2>1. Parts \subseteq Nat
    BY SensorsAssumption
  <2>2. GoodSplit(s)
    BY <2>1 DEF Splits, GoodSplit
  <2>3. b = [month |-> m, usage |-> None, previous |-> None, lastYear |-> None,
             points |-> {}, split |-> s]
    BY <1>5 DEF Empty
  <2>4. b # Empty
    BY <2>3, MonthIsSome DEF Empty
  <2>5. QED
    BY <1>3, <2>2, <2>3, <2>4 DEF GoodBill, OfMonth
<1>6. CASE b \in {[Empty EXCEPT !.month = m, !.split = s] : s \in Splits}
  BY <1>5, <1>6
<1>7. QED
  BY <1>4, <1>6

(* Whatever KEPCO ON may answer with is a good bill.                       *)
LEMMA BillsGood ==
  ASSUME Inv, NEW b \in Bills PROVE GoodBill(b)
<1>1. PICK m \in {latest, ShiftMonth(latest, -1)} :
        b \in IF isHouse THEN HouseBills(m) ELSE ApartmentBills(m)
  BY DEF Bills
<1>2. m \in Months
  <2>1. -1 \in -15..0 /\ latest \in Months
    BY DEF Inv
  <2>2. QED
    BY <2>1, SlotIsAway
<1>3. QED
  BY <1>1, <1>2, HouseGood, ApartmentGood

------------------------------------------------------------------------------
(* The invariant.                                                          *)
LEMMA InitInv == Init => Inv
<1>1. FirstMonth \in Months
  BY SensorsAssumption DEF Months
<1>2. QED
  BY <1>1 DEF Init, Inv

(* The invariant is preserved by every step.                               *)
LEMMA NextInv == Inv /\ [Next]_vars => Inv'
<1> SUFFICES ASSUME Inv, [Next]_vars PROVE Inv'
  OBVIOUS
<1>1. CASE KepcoBills
  <2>1. NextMonth(latest) \in Months
    BY NextIsAfter DEF Inv
  <2>2. latest' = NextMonth(latest) /\ UNCHANGED <<data, failed, label, shown>>
    BY <1>1 DEF KepcoBills
  <2>3. latest' \in Months
    BY <2>1, <2>2
  <2>4. QED
    BY <2>2, <2>3 DEF Inv
<1>2. CASE Refresh
  <2>1. label' = Labels(data') /\ shown' = States(label', data', failed', TRUE)
        /\ latest' = latest
    BY <1>2 DEF Refresh, Updated
  <2>2. CASE data' \in Bills /\ failed' = FALSE
    <3>1. GoodBill(data') /\ data' # Empty
      BY <2>2, BillsGood DEF GoodBill
    <3>2. shown' = States(label', data', FALSE, TRUE)
      BY <2>1, <2>2
    <3>3. failed' = (data' = Empty)
      BY <2>2, <3>1
    <3>4. QED
      BY <2>1, <3>1, <3>2, <3>3 DEF Inv
  <2>3. CASE data' = Empty /\ failed' = TRUE
    <3>1. shown' = Unavailable
      BY <2>1, <2>3 DEF States
    <3>2. QED
      BY <2>1, <2>3, <3>1 DEF Inv
  <2>4. QED
    BY <1>2, <2>2, <2>3 DEF Refresh
<1>3. CASE RefreshFails
  BY <1>3 DEF RefreshFails, Updated, States, Inv
<1>4. CASE WriteStates
  BY <1>4 DEF WriteStates, States, Inv
<1>5. CASE UNCHANGED vars
  BY <1>5 DEF vars, Inv
<1>6. QED
  BY <1>1, <1>2, <1>3, <1>4, <1>5 DEF Next

(* The invariant holds throughout.                                         *)
THEOREM InvariantHolds == Spec => []Inv
BY InitInv, NextInv, PTL DEF Spec

------------------------------------------------------------------------------
(* It implies that what is shown is under its month.                       *)
LEMMA InvShowsItsMonth == Inv => ShownUnderItsMonth
<1> SUFFICES ASSUME Inv, shown # Unavailable, NEW k \in Slots
             PROVE  LET s == shown.slots[k] IN
                      /\ IsMonth(s.name) /\ s.month = s.name
                      /\ Index(s.name) = Index(data.month) + k
                      /\ s.value = IF s.name \in Known(data) THEN s.name ELSE None
                      /\ s.amount \in {None, s.name}
  BY DEF ShownUnderItsMonth, Index, Known
<1>1. GoodBill(data) /\ data # Empty
  BY DEF Inv
<1>2. shown = States(Labels(data), data, FALSE, TRUE)
  BY DEF Inv
<1> DEFINE S == SlotMonth(data.month, k)
<1>3. Labels(data)[k] = S
  BY <1>1 DEF Labels
<1>4. shown.slots[k] = [name |-> S, value |-> Usage(data, k), month |-> S,
                        amount |-> Amount(data, S)]
  BY <1>1, <1>2, <1>3 DEF States
<1>5. S \in Months /\ Index(S) = Index(data.month) + k
  <2>1. k \in -15..0
    BY DEF Slots
  <2>2. QED
    BY <1>1, <2>1, SlotIsAway DEF GoodBill
<1>6. Usage(data, k) = IF S \in Known(data) THEN S ELSE None
  BY <1>1, UsageOfSlot
<1>7. Amount(data, S) \in {None, S}
  BY <1>1, AmountOfMonth
<1> HIDE DEF S
<1>8. QED
  BY <1>4, <1>5, <1>6, <1>7 DEF Months

(* The number a usage sensor shows is of the month in its name, and one    *)
(* the bill has for that month is shown, for every month and however       *)
(* refreshes, failures and state writes follow each other.                 *)
THEOREM UnderItsMonth == Spec => []ShownUnderItsMonth
BY InvariantHolds, InvShowsItsMonth, PTL

(* It implies that the parts shown add up.                                 *)
LEMMA InvAddsUp == Inv => PartsAddUp
<1> SUFFICES ASSUME Inv, shown # Unavailable PROVE PartsAddUp
  BY DEF PartsAddUp
<1>1. GoodSplit(data.split) /\ data # Empty
  BY DEF Inv, GoodBill
<1>2. shown = States(Labels(data), data, FALSE, TRUE)
  BY DEF Inv
<1>3. shown.household = Household(data.split) /\ shown.common = Common(data.split)
  BY <1>1, <1>2 DEF States
<1>4. QED
  BY <1>1, <1>3 DEF PartsAddUp, GoodSplit, Household, Common, Derived, Unknown

(* The parts of a usage shown together add up to it unless KEPCO ON gave   *)
(* both, and none is negative, whatever KEPCO ON's numbers are.            *)
THEOREM PartsSum == Spec => []PartsAddUp
BY InvariantHolds, InvAddsUp, PTL
===============================================================================
