---------------------------- MODULE MonthlySensors ----------------------------
(***************************************************************************)
(* The usage sensors of one customer (sensor.py): six that show the usage  *)
(* of a month counted back from the last bill and carry that month in      *)
(* their name, and the two that split the bill's usage.  Names are cached  *)
(* and brought up to date when the coordinator has refreshed; values are   *)
(* read from coordinator.data whenever a state is written.                 *)
(*                                                                         *)
(* The usage and the amount of a month are the month itself, so that a     *)
(* number under a wrong name is seen.                                      *)
(***************************************************************************)
EXTENDS BillMonths

CONSTANTS
  FirstMonth, LastMonth,  \* bounds: KEPCO ON's last bill while the model runs
  Parts                   \* bound: kilowatt-hours of a part of the usage

ASSUME SensorsAssumption == /\ FirstMonth \in Nat /\ IsMonth(FirstMonth)
                            /\ Parts \subseteq Nat

VARIABLES
  latest,   \* KEPCO ON: the month of the last bill
  isHouse,  \* the kind of the customer
  data,     \* the customer's bill in coordinator.data
  failed,   \* it is in errors_by_customer_key instead
  success,  \* last_update_success
  label,    \* the month in each sensor's cached name, None for "----"
  shown     \* the states Home Assistant has

vars == <<latest, isHouse, data, failed, success, label, shown>>

Slots == {0, -1, -2, -12, -13, -14}

(* KepcoBill, as far as these sensors read it; 0 is a month without usage. *)
Unknown == -1
NoSplit == [total |-> Unknown, household |-> Unknown, common |-> Unknown]
Empty   == [month |-> None, usage |-> None, previous |-> None,
            lastYear |-> None, points |-> {}, split |-> NoSplit]

------------------------------------------------------------------------------
(* The sensors                                                             *)

(* _shift_month                                                            *)
SlotMonth(m, k) ==
  LET i == Year(m) * 12 + MonthNo(m) - 1 + k
  IN  (i \div 12) * 100 + (i % 12) + 1

(* _history_usage: the bill's own number, or else the history's.           *)
Usage(b, k) ==
  LET own   == CASE k = 0 -> b.usage [] k = -1 -> b.previous
                 [] k = -12 -> b.lastYear [] OTHER -> None
      found == {p \in b.points : p.month = SlotMonth(b.month, k)}
  IN  IF own # None \/ found = {} THEN own ELSE (CHOOSE p \in found : TRUE).usage

(* _history_amount                                                         *)
Amount(b, m) ==
  LET found == {p \in b.points : p.month = m}
  IN  IF found = {} THEN None ELSE (CHOOSE p \in found : TRUE).amount

(* _household_usage and _common_usage                                      *)
Derived(total, part) == IF total - part >= 0 THEN total - part ELSE Unknown

\* Mutant: what the two have in common is not taken off.
BugHouseholdIsTotal(s) == IF s.household # Unknown THEN s.household ELSE s.total

Household(s) ==
  IF s.household # Unknown THEN s.household
  ELSE IF Unknown \in {s.total, s.common} THEN s.total
  ELSE Derived(s.total, s.common)

Common(s) ==
  IF s.common # Unknown THEN s.common
  ELSE IF s.total = Unknown THEN Unknown
  ELSE IF s.household = Unknown THEN 0
  ELSE Derived(s.total, s.household)

(* _refresh_month_translation_placeholders                                 *)
Labels(b) == [k \in Slots |-> IF b = Empty THEN None ELSE SlotMonth(b.month, k)]

(* available, native_value, extra_state_attributes and the name, as a      *)
(* state write takes them.                                                 *)
Unavailable == [slots |-> <<>>, household |-> Unknown, common |-> Unknown]

States(names, b, err, ok) ==
  IF ~ok \/ b = Empty \/ err THEN Unavailable
  ELSE [slots     |-> [k \in Slots |-> [name   |-> names[k],
                                        value  |-> Usage(b, k),
                                        month  |-> SlotMonth(b.month, k),
                                        amount |-> Amount(b, SlotMonth(b.month, k))]],
        household |-> Household(b.split),
        common    |-> Common(b.split)]

------------------------------------------------------------------------------
(* The bills KEPCO ON may answer with for its last month, or, before that  *)
(* bill is out everywhere, for the one before: rows of a chart, some of    *)
(* them without a usage.                                                   *)

Back(m, ks) == {ShiftMonth(m, -k) : k \in ks}

Rows == {{0}, {0, 1}, {0, 2, 13, 14}, 0..14}

Points(m, rows, blank) ==
  {[month |-> x, usage |-> IF x \in Back(m, blank) THEN None ELSE x,
    amount |-> IF isHouse THEN x ELSE None] : x \in Back(m, rows)}

Row(points, m) ==
  LET found == {p \in points : p.month = m}
  IN  IF found = {} THEN None ELSE (CHOOSE p \in found : TRUE).usage

Splits == [total : Parts \union {Unknown}, household : Parts \union {Unknown},
           common : Parts \union {Unknown}]

(* A house's comparisons are rows of its chart; an apartment's come with   *)
(* the bill, and its chart may be missing.                                 *)
HouseBills(m) ==
  {[month |-> m, usage |-> Row(ps, m), previous |-> Row(ps, ShiftMonth(m, -1)),
    lastYear |-> Row(ps, ShiftMonth(m, -12)), points |-> ps, split |-> NoSplit] :
     ps \in {Points(m, r, b) : r \in Rows, b \in {{}, {0}, {1, 12}}}}

Charts(m) == {Points(m, r, b) : r \in Rows, b \in {{}, {2, 12}}} \union {{}}

ApartmentBills(m) ==
  [month    : {m},
   usage    : {m, None},
   previous : {ShiftMonth(m, -1), None},
   lastYear : {ShiftMonth(m, -12), None},
   points   : Charts(m),
   split    : {NoSplit}]
  \union {[Empty EXCEPT !.month = m, !.split = s] : s \in Splits}

Bills == UNION {IF isHouse THEN HouseBills(m) ELSE ApartmentBills(m) :
                  m \in {latest, ShiftMonth(latest, -1)}}

------------------------------------------------------------------------------
Init ==
  /\ latest = FirstMonth /\ isHouse \in BOOLEAN
  /\ data = Empty /\ failed = TRUE /\ success = TRUE
  /\ label = Labels(Empty)
  /\ shown = Unavailable

KepcoBills ==
  /\ latest < LastMonth
  /\ latest' = NextMonth(latest)
  /\ UNCHANGED <<isHouse, data, failed, success, label, shown>>

(* _handle_coordinator_update of every sensor, or __init__ and the first   *)
(* state when the entry was set up anew.                                   *)
\* Mutant: the state is written before the name is refreshed.
BugWriteFirst ==
  /\ label' = Labels(data')
  /\ shown' = States(label, data', failed', success')

Updated ==
  /\ label' = Labels(data')
  /\ shown' = States(label', data', failed', success')

(* A refresh that brings this customer's bill, or only those of others.    *)
Refresh ==
  /\ \/ data' \in Bills /\ failed' = FALSE
     \/ data' = Empty /\ failed' = TRUE
  /\ success' = TRUE
  /\ Updated
  /\ UNCHANGED <<latest, isHouse>>

(* The first of several failures in a row is told to the sensors.          *)
RefreshFails ==
  /\ success
  /\ success' = FALSE
  /\ UNCHANGED <<data, failed>>
  /\ Updated
  /\ UNCHANGED <<latest, isHouse>>

(* Home Assistant writes the states for a reason of its own.               *)
WriteStates ==
  /\ shown' = States(label, data, failed, success)
  /\ UNCHANGED <<latest, isHouse, data, failed, success, label>>

Next == KepcoBills \/ Refresh \/ RefreshFails \/ WriteStates

Spec == Init /\ [][Next]_vars

------------------------------------------------------------------------------
(* Properties                                                              *)

(* Every number a usage sensor shows is of the month its name and its      *)
(* billing_month say, that month is as many calendar months before the     *)
(* bill's as the sensor is for, and a usage the bill has for it is shown.  *)
ShownUnderItsMonth ==
  LET Index(m) == Year(m) * 12 + MonthNo(m)
      Known == {p.usage : p \in data.points} \union {data.usage, data.previous, data.lastYear}
  IN  shown # Unavailable =>
        \A k \in Slots :
          LET s == shown.slots[k] IN
            /\ IsMonth(s.name) /\ s.month = s.name
            /\ Index(s.name) = Index(data.month) + k
            /\ s.value = IF s.name \in Known THEN s.name ELSE None
            /\ s.amount \in {None, s.name}

(* Household and common usage shown together add up to the bill's usage,   *)
(* unless KEPCO ON's answer has both; a part worked out is never negative. *)
PartsAddUp ==
  LET s == data.split IN
    shown # Unavailable /\ Unknown \in {s.household, s.common} =>
      /\ Unknown \notin {shown.household, shown.common, s.total} =>
           shown.household + shown.common = s.total
      /\ {shown.household, shown.common} \subseteq Nat \union {Unknown}
===============================================================================
