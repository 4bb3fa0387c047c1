------------------------------ MODULE BillMonths ------------------------------
(***************************************************************************)
(* The month arithmetic of the integration: which months a service call    *)
(* may ask for (services.py), which the client accepts (api.py), and how   *)
(* parser.py reads the months of a bill and of its history.                *)
(*                                                                         *)
(* A month is the number its six digits YYYYMM spell: the code compares    *)
(* the strings, and six-digit strings are ordered as their numbers.        *)
(***************************************************************************)
EXTENDS Integers, Sequences, FiniteSets, Functions

Year(m)    == m \div 100
MonthNo(m) == m % 100
None == 0      \* where the code has None

(* parse_year_month                                                        *)
IsMonth(m) == MonthNo(m) \in 1..12

(* _next_month                                                             *)
\* Mutant: no carry into the year.
BugNoCarry(m) == m + 1

NextMonth(m) == IF MonthNo(m) = 12 THEN (Year(m) + 1) * 100 + 1 ELSE m + 1

(* _shift_month                                                            *)
\* Mutant: the divmod of the month as people count it.
BugShiftOneBased(m, k) ==
  LET i == Year(m) * 12 + MonthNo(m) + k IN (i \div 12) * 100 + (i % 12)

ShiftMonth(m, k) ==
  LET i == Year(m) * 12 + MonthNo(m) - 1 + k
  IN  (i \div 12) * 100 + (i % 12) + 1

(* _validate_month: the last 24 months.                                    *)
\* Mutant: one month too many.
BugTwoWholeYears(now, m) ==
  LET Index(x) == Year(x) * 12 + MonthNo(x)
  IN  IsMonth(m) /\ Index(m) \in (Index(now) - 24)..Index(now)

InWindow(now, m) ==
  LET Index(x) == Year(x) * 12 + MonthNo(x)
  IN  IsMonth(m) /\ Index(m) \in (Index(now) - 23)..Index(now)

(* _validated_month of the client.                                         *)
ClientAccepts(now, m) == IsMonth(m) /\ m <= now /\ m >= 200001

------------------------------------------------------------------------------
(* Bills.  KEPCO ON answers with a chart, a sequence of months, and an     *)
(* apartment's answer names a month of its own.  What the parser cannot    *)
(* accept is NoBill.                                                       *)

NoBill == [month |-> None, history |-> <<>>, previous |-> None,
           lastYear |-> None]

Ascending(s) == \A i \in 1..(Len(s) - 1) : s[i] < s[i + 1]

(* _parse_history: ascending, without duplicates, or an error.             *)
HistoryReadable(chart) == (\A m \in Range(chart) : IsMonth(m)) /\ Ascending(chart)

(* _validate_history_consistency                                           *)
HistoryFits(chart, month, response) ==
  chart = <<>> \/ /\ response \in {None, month, NextMonth(month)}
                  /\ chart[Len(chart)] = month

(* parse_bill                                                              *)
ApartmentBill(requested, response, chart) ==
  LET month == IF requested # None THEN requested ELSE response
  IN  IF /\ month # None /\ (response = None \/ IsMonth(response))
         /\ HistoryReadable(chart)
         /\ HistoryFits(chart, month, response)
      THEN [month |-> month, history |-> chart,
            previous |-> None, lastYear |-> None]
      ELSE NoBill

(* points.sort(): the k-th of n months is the one with k months up to it.  *)
Sorted(months) ==
  LET ranked == {<<m, Cardinality({n \in months : n <= m})>> : m \in months}
  IN  [k \in 1..Cardinality(months) |-> (CHOOSE r \in ranked : r[2] = k)[1]]

(* parse_house_bill: rows in any order, the newest is the bill, and the    *)
(* rows one and twelve months earlier are what it is compared with.        *)
HouseBill(chart) ==
  LET months == Range(chart)
      sorted == Sorted(months)
      newest == sorted[Len(sorted)]
      Compared(m) == IF m \in months THEN m ELSE None
  IN  IF /\ chart # <<>>
         /\ \A m \in months : IsMonth(m)
         /\ Cardinality(months) = Len(chart)
      THEN [month    |-> newest,
            history  |-> sorted,
            previous |-> Compared(ShiftMonth(newest, -1)),
            lastYear |-> Compared(ShiftMonth(newest, -12))]
      ELSE NoBill

------------------------------------------------------------------------------
(* _history_months: the option, or 12 when it is of no use.                *)
\* Mutant: the option is used as it is.
BugTrustOption(option) == option

HistoryMonths(option) == IF option \in 1..24 THEN option ELSE 12

(* _serialize_history: points[-limit:] of the sorted points.               *)
Newest(points, limit) ==
  IF limit = 0 \/ limit >= Len(points) THEN points
  ELSE SubSeq(points, Len(points) - limit + 1, Len(points))
==============================================================================
