-------------------------- MODULE Coordinator_proofs --------------------------
(* Theorems about Coordinator, for every number of customers and months.   *)
EXTENDS Coordinator, TLAPS

(* The refresh under way: customers before the one being asked have a bill *)
(* or an error, the one being asked has its bill once the planner is       *)
(* asked, the rest has nothing yet.                                        *)
Settled(c) == (bills[c] # 0) <=> (c \notin errors)
Untouched(c) == bills[c] = 0 /\ c \notin errors

RefreshInv ==
  asking # 0 => \A c \in Customers :
    /\ c < asking => Settled(c)
    /\ c = asking /\ request = "bill" => Untouched(c)
    /\ c = asking /\ request = "planner" => bills[c] # 0 /\ c \notin errors
    /\ c > asking => Untouched(c)

MonthsBilled == \A c \in Customers : kepco.month[c] # 0

(* The inductive invariant: DataComplete and the rest hold at the end of a *)
(* refresh because of what holds within it.                                *)
Inv == /\ TypeOK
       /\ RefreshInv
       /\ MonthsBilled
       /\ DataComplete
       /\ ShownIsCurrent
       /\ IssueReflectsData

------------------------------------------------------------------------------
(* What there is before the first refresh is well typed.                   *)
LEMMA NoDataType ==
  /\ NoBills \in [Customers -> Months]
  /\ NoData \in [bills : [Customers -> Months], errors : SUBSET Customers]
<1>1. 0 \in Months
  BY CoordinatorAssumption DEF Months
<1>2. QED
  BY <1>1 DEF NoBills, NoData

(* The invariant holds before the first refresh.                           *)
LEMMA InitInv == Init => Inv
<1> SUFFICES ASSUME Init PROVE Inv
  OBVIOUS
<1>1. TypeOK
  <2>1. 1 \in Months /\ asking \in 0..N
    BY CoordinatorAssumption DEF Init, Months
  <2>2. kepco \in [up : BOOLEAN, session : BOOLEAN, changed : SUBSET Customers,
                   month : [Customers -> Months]]
    BY <2>1 DEF Init
  <2>3. {success, scheduled, loaded, issue} \subseteq BOOLEAN
    BY DEF Init
  <2>4. QED
    BY <2>1, <2>2, <2>3, NoDataType DEF Init, TypeOK
<1>2. RefreshInv /\ MonthsBilled /\ DataComplete /\ ShownIsCurrent /\ IssueReflectsData
  BY DEF Init, RefreshInv, MonthsBilled, DataComplete, ShownIsCurrent, IssueReflectsData,
         Customers
<1>3. QED
  BY <1>1, <1>2 DEF Inv

(* The end of a refresh with data d, complete if it succeeded.             *)
LEMMA EndedInv ==
  ASSUME Inv, NEW d, NEW ok \in BOOLEAN, NEW again \in BOOLEAN,
         Ended(d, ok, again), issue' \in BOOLEAN,
         d \in [bills : [Customers -> Months], errors : SUBSET Customers],
         ok => /\ \A c \in Customers : (d.bills[c] # 0) <=> (c \notin d.errors)
               /\ d.bills # NoBills
               /\ issue' <=> d.errors # {},
         ~ok => d = data
  PROVE  Inv'
<1>1. View(d, ok) \in [Customers -> Months]
  <2>1. 0 \in Months /\ d.bills \in [Customers -> Months]
    BY CoordinatorAssumption DEF Months
  <2>2. QED
    BY <2>1 DEF View
<1>2. TypeOK'
  <2>1. shown' \in [Customers -> Months]
    BY <1>1 DEF Ended, Inv, TypeOK
  <2>2. asking' \in 0..N /\ request' \in {"bill", "planner"}
    BY CoordinatorAssumption DEF Ended
  <2>3. {success', scheduled', loaded', issue'} \subseteq BOOLEAN
    BY DEF Ended, Inv, TypeOK
  <2>4. QED
    BY <2>1, <2>2, <2>3 DEF Ended, Inv, TypeOK
<1>3. RefreshInv' /\ MonthsBilled'
  BY DEF Ended, Inv, RefreshInv, MonthsBilled
<1>4. DataComplete'
  BY DEF Ended, Inv, DataComplete, NoBills
<1>5. ShownIsCurrent'
  <2> SUFFICES ASSUME loaded', NEW c \in Customers
               PROVE  shown'[c] = IF success' THEN data'.bills[c] ELSE 0
    BY DEF ShownIsCurrent
  <2>1. CASE ok
    BY <2>1 DEF Ended, View
  <2>2. CASE ~ok /\ success
    BY <2>2 DEF Ended, View
  <2>3. CASE ~ok /\ ~success
    BY <2>3 DEF Ended, Inv, ShownIsCurrent
  <2>4. QED
    BY <2>1, <2>2, <2>3
<1>6. IssueReflectsData'
  BY DEF Ended, IssueReflectsData
<1>7. QED
  BY <1>2, <1>3, <1>4, <1>5, <1>6 DEF Inv

(* A failed refresh keeps the data.                                        *)
LEMMA FailedInv ==
  ASSUME Inv, NEW again \in BOOLEAN, Failed(again)
  PROVE  Inv'
BY EndedInv DEF Failed, Inv, TypeOK

(* The loop goes on or ends after a customer that is settled.              *)
LEMMA NextCustomerInv ==
  ASSUME Inv, asking # 0, NEW e \in SUBSET Customers, NEW i \in BOOLEAN,
         NextCustomer(bills, e, i),
         \A c \in Customers : c <= asking => ((bills[c] # 0) <=> (c \notin e)),
         \A c \in Customers : c > asking => bills[c] = 0 /\ c \notin e,
         e # {} => i, issue => i
  PROVE  Inv'
<1>1. asking \in 1..N /\ bills \in [Customers -> Months]
  BY DEF Inv, TypeOK
<1>2. CASE asking = N /\ Finish(bills, e)
  <2>1. \A c \in Customers : (bills[c] # 0) <=> (c \notin e)
    BY <1>1, <1>2 DEF Customers
  <2>2. CASE bills = NoBills
    <3>1. Ended(data, FALSE, TRUE) /\ issue' \in BOOLEAN
      BY <1>2, <2>2 DEF Finish, Inv, TypeOK
    <3>2. QED
      BY <3>1, EndedInv DEF Inv, TypeOK
  <2>3. CASE bills # NoBills
    <3> DEFINE d == [bills |-> bills, errors |-> e]
    <3>1. Ended(d, TRUE, TRUE) /\ issue' = (e # {})
      BY <1>2, <2>3 DEF Finish
    <3>2. d \in [bills : [Customers -> Months], errors : SUBSET Customers]
      BY <1>1
    <3>3. d.bills = bills /\ d.errors = e
      OBVIOUS
    <3> HIDE DEF d
    <3>4. QED
      BY <2>1, <2>3, <3>1, <3>2, <3>3, EndedInv
  <2>4. QED
    BY <2>2, <2>3
<1>3. CASE asking < N
  <2>1. /\ asking' = asking + 1 /\ request' = "bill" /\ bills' = bills
        /\ errors' = e /\ issue' = i
        /\ UNCHANGED <<kepco, data, success, scheduled, loaded, shown>>
    BY <1>1, <1>3 DEF NextCustomer
  <2>2. TypeOK'
    <3>1. asking' \in 0..N /\ request' \in {"bill", "planner"}
      BY <1>1, <1>3, <2>1, CoordinatorAssumption
    <3>2. {success', scheduled', loaded', issue'} \subseteq BOOLEAN
      BY <2>1 DEF Inv, TypeOK
    <3>3. QED
      BY <2>1, <3>1, <3>2 DEF Inv, TypeOK
  <2>3. RefreshInv'
    BY <1>1, <1>3, <2>1 DEF RefreshInv, Settled, Untouched, Customers
  <2>4. MonthsBilled' /\ DataComplete' /\ ShownIsCurrent'
    BY <2>1 DEF Inv, MonthsBilled, DataComplete, ShownIsCurrent
  <2>5. IssueReflectsData'
    BY <1>1, <2>1 DEF IssueReflectsData
  <2>6. QED
    BY <2>2, <2>3, <2>4, <2>5 DEF Inv
<1>4. QED
  BY <1>1, <1>2, <1>3 DEF NextCustomer

------------------------------------------------------------------------------
(* KEPCO ON changes nothing of what has been read.                         *)
LEMMA KepcoChangesInv == Inv /\ KepcoChanges => Inv'
<1> SUFFICES ASSUME Inv, KepcoChanges PROVE Inv'
  OBVIOUS
<1>1. kepco' \in [up : BOOLEAN, session : BOOLEAN, changed : SUBSET Customers,
                  month : [Customers -> Months]]
      /\ MonthsBilled'
  <2>1. CASE \E b \in BOOLEAN : kepco' = [kepco EXCEPT !.up = b]
    BY <2>1 DEF Inv, TypeOK, MonthsBilled
  <2>2. CASE \E b \in BOOLEAN : kepco' = [kepco EXCEPT !.session = b]
    BY <2>2 DEF Inv, TypeOK, MonthsBilled
  <2>3. CASE \E C \in SUBSET Customers : kepco' = [kepco EXCEPT !.changed = C]
    BY <2>3 DEF Inv, TypeOK, MonthsBilled
  <2>4. CASE \E c \in Customers : /\ kepco.month[c] < MaxMonth
                                  /\ kepco' = [kepco EXCEPT !.month[c] = @ + 1]
    <3>1. PICK k \in Customers : /\ kepco.month[k] < MaxMonth
                                 /\ kepco' = [kepco EXCEPT !.month[k] = @ + 1]
      BY <2>4
    <3>2. kepco.month \in [Customers -> 0..MaxMonth]
      BY DEF Inv, TypeOK, Months
    <3>3. kepco'.month = [kepco.month EXCEPT ![k] = @ + 1]
      BY <3>1 DEF Inv, TypeOK
    <3>4. kepco'.month \in [Customers -> 0..MaxMonth]
      BY <3>1, <3>2, <3>3, CoordinatorAssumption
    <3>5. \A c \in Customers : kepco'.month[c] # 0
      BY <3>1, <3>2, <3>3, CoordinatorAssumption DEF Inv, MonthsBilled
    <3>6. QED
      BY <3>1, <3>4, <3>5 DEF Inv, TypeOK, MonthsBilled, Months
  <2>5. QED
    BY <2>1, <2>2, <2>3, <2>4 DEF KepcoChanges
<1>2. TypeOK'
  BY <1>1 DEF KepcoChanges, Inv, TypeOK
<1>3. RefreshInv' /\ DataComplete' /\ ShownIsCurrent' /\ IssueReflectsData'
  BY DEF KepcoChanges, Inv, RefreshInv, Settled, Untouched, DataComplete, ShownIsCurrent,
         IssueReflectsData
<1>4. QED
  BY <1>1, <1>2, <1>3 DEF Inv

(* A refresh starts with nothing read.                                     *)
LEMMA StartInv == Inv /\ Start => Inv'
<1> SUFFICES ASSUME Inv, Start PROVE Inv'
  OBVIOUS
<1>1. TypeOK'
  BY CoordinatorAssumption DEF Start, Inv, TypeOK, NoBills, Months
<1>2. RefreshInv'
  BY CoordinatorAssumption DEF Start, RefreshInv, Settled, Untouched, NoBills, Customers
<1>3. MonthsBilled' /\ DataComplete' /\ ShownIsCurrent' /\ IssueReflectsData'
  BY DEF Start, Inv, MonthsBilled, DataComplete, ShownIsCurrent, IssueReflectsData
<1>4. QED
  BY <1>1, <1>2, <1>3 DEF Inv

(* A bill that is read settles its customer.                               *)
LEMMA BillReadInv == Inv /\ BillRead => Inv'
<1> SUFFICES ASSUME Inv, BillRead PROVE Inv'
  OBVIOUS
<1>1. asking \in Customers /\ asking # 0
  BY DEF BillRead, Answered, Inv, TypeOK, Customers
<1>2. bills \in [Customers -> Months] /\ kepco.month[asking] \in Months
  BY <1>1 DEF Inv, TypeOK
<1>3. TypeOK'
  BY <1>1, <1>2 DEF BillRead, Inv, TypeOK
<1>4. RefreshInv'
  BY <1>1, <1>2 DEF BillRead, Inv, RefreshInv, MonthsBilled, Settled, Untouched, Customers
<1>5. MonthsBilled' /\ DataComplete' /\ ShownIsCurrent' /\ IssueReflectsData'
  BY DEF BillRead, Inv, MonthsBilled, DataComplete, ShownIsCurrent, IssueReflectsData
<1>6. QED
  BY <1>3, <1>4, <1>5 DEF Inv

(* A bill that cannot be read is an error, and the loop goes on.           *)
LEMMA BillChangedInv == Inv /\ BillChanged => Inv'
<1> SUFFICES ASSUME Inv, BillChanged PROVE Inv'
  OBVIOUS
<1>1. asking # 0 /\ asking \in 1..N /\ request = "bill"
  BY DEF BillChanged, Answered, Inv, TypeOK
<1> DEFINE e == errors \union {asking}
<1>2. e \in SUBSET Customers
  BY <1>1 DEF Inv, TypeOK, Customers
<1>3. NextCustomer(bills, e, TRUE)
  BY DEF BillChanged
<1>4. \A c \in Customers : c <= asking => ((bills[c] # 0) <=> (c \notin e))
  BY <1>1 DEF Inv, RefreshInv, Settled, Untouched, Customers
<1>5. \A c \in Customers : c > asking => bills[c] = 0 /\ c \notin e
  BY <1>1 DEF Inv, RefreshInv, Untouched, Customers
<1> HIDE DEF e
<1>6. QED
  BY <1>1, <1>2, <1>3, <1>4, <1>5, NextCustomerInv

(* The planner leaves the bill as it is.                                   *)
LEMMA PlannerEndsInv == Inv /\ PlannerEnds => Inv'
<1> SUFFICES ASSUME Inv, PlannerEnds PROVE Inv'
  OBVIOUS
<1>1. asking # 0 /\ asking \in 1..N /\ request = "planner"
  BY DEF PlannerEnds, Inv, TypeOK
<1>2. errors \in SUBSET Customers /\ issue \in BOOLEAN
  BY DEF Inv, TypeOK
<1>3. NextCustomer(bills, errors, issue)
  BY DEF PlannerEnds
<1>4. \A c \in Customers : c <= asking => ((bills[c] # 0) <=> (c \notin errors))
  BY <1>1 DEF Inv, RefreshInv, Settled, Customers
<1>5. \A c \in Customers : c > asking => bills[c] = 0 /\ c \notin errors
  BY <1>1 DEF Inv, RefreshInv, Untouched, Customers
<1>6. errors # {} => issue
  BY <1>1 DEF Inv, IssueReflectsData
<1>7. QED
  BY <1>1, <1>2, <1>3, <1>4, <1>5, <1>6, NextCustomerInv

(* A reload starts from nothing.                                           *)
LEMMA ReloadInv == Inv /\ Reload => Inv'
<1> SUFFICES ASSUME Inv, Reload PROVE Inv'
  OBVIOUS
<1>1. TypeOK'
  <2>1. asking' \in 0..N /\ request' \in {"bill", "planner"}
    BY CoordinatorAssumption DEF Reload
  <2>2. {success', scheduled', loaded', issue'} \subseteq BOOLEAN
    BY DEF Reload, Inv, TypeOK
  <2>3. QED
    BY <2>1, <2>2, NoDataType DEF Reload, Inv, TypeOK
<1>2. RefreshInv' /\ MonthsBilled' /\ DataComplete' /\ ShownIsCurrent' /\ IssueReflectsData'
  BY DEF Reload, Inv, RefreshInv, MonthsBilled, DataComplete, ShownIsCurrent, IssueReflectsData
<1>3. QED
  BY <1>1, <1>2 DEF Inv

(* A step of something else changes nothing.                               *)
LEMMA StutterInv == Inv /\ UNCHANGED vars => Inv'
BY DEF vars, Inv, TypeOK, RefreshInv, Settled, Untouched, MonthsBilled, DataComplete,
       ShownIsCurrent, IssueReflectsData

(* Every step keeps the invariant.                                         *)
LEMMA NextInv == Inv /\ [Next]_vars => Inv'
<1> SUFFICES ASSUME Inv, [Next]_vars PROVE Inv'
  OBVIOUS
<1>1. CASE KepcoChanges
  BY <1>1, KepcoChangesInv
<1>2. CASE Poll \/ UserRefresh
  BY <1>2, StartInv DEF Poll, UserRefresh
<1>3. CASE Refresh
  <2>1. CASE BillRead
    BY <2>1, BillReadInv
  <2>2. CASE BillChanged
    BY <2>2, BillChangedInv
  <2>3. CASE PlannerEnds
    BY <2>3, PlannerEndsInv
  <2>4. CASE SessionRefused
    BY <2>4, FailedInv DEF SessionRefused
  <2>5. CASE Unreachable
    BY <2>5, FailedInv DEF Unreachable
  <2>6. QED
    BY <1>3, <2>1, <2>2, <2>3, <2>4, <2>5 DEF Refresh
<1>4. CASE Reload
  BY <1>4, ReloadInv
<1>5. CASE UNCHANGED vars
  BY <1>5, StutterInv
<1>6. QED
  BY <1>1, <1>2, <1>3, <1>4, <1>5 DEF Next

(* The invariant holds throughout.                                         *)
THEOREM InvariantHolds == Spec => []Inv
BY InitInv, NextInv, PTL DEF Spec

(* Type correctness of the coordinator.                                    *)
THEOREM TypeCorrect == Spec => []TypeOK
BY InvariantHolds, PTL DEF Inv

(* What is published comes from one whole refresh: a bill or an error for  *)
(* each customer, never both, and at least one bill.                       *)
THEOREM PublishedComplete == Spec => []DataComplete
BY InvariantHolds, PTL DEF Inv

(* Sensors show the bills of the last completed refresh, or none.          *)
THEOREM SensorsCurrent == Spec => []ShownIsCurrent
BY InvariantHolds, PTL DEF Inv

(* The issue follows the errors of the last completed refresh.             *)
THEOREM IssueFollowsErrors == Spec => []IssueReflectsData
BY InvariantHolds, PTL DEF Inv

------------------------------------------------------------------------------
(* Only the end of a refresh that read every customer's bill clears the    *)
(* issue.                                                                  *)
LEMMA IssueStep ==
  ASSUME Inv, [Next]_vars
  PROVE  [issue /\ ~issue' => /\ asking = N /\ success'
                              /\ \A c \in Customers : data'.bills[c] # 0]_vars
<1> SUFFICES ASSUME issue, ~issue'
             PROVE  /\ asking = N /\ success'
                    /\ \A c \in Customers : data'.bills[c] # 0
  OBVIOUS
<1>1. PlannerEnds
  <2>1. ~KepcoChanges /\ ~Poll /\ ~UserRefresh /\ ~Reload /\ ~UNCHANGED vars
    BY DEF KepcoChanges, Poll, UserRefresh, Start, Reload, vars
  <2>2. ~BillRead /\ ~SessionRefused /\ ~Unreachable
    BY DEF BillRead, SessionRefused, Unreachable, Failed
  <2>3. ~BillChanged
    BY DEF BillChanged, NextCustomer, Finish
  <2>4. QED
    BY <2>1, <2>2, <2>3 DEF Next, Refresh
<1>2. asking \in 1..N /\ request = "planner"
  BY <1>1 DEF PlannerEnds, Inv, TypeOK
<1>3. asking = N /\ bills # NoBills /\ Ended([bills |-> bills, errors |-> errors], TRUE, TRUE)
      /\ errors = {}
  BY <1>1 DEF PlannerEnds, NextCustomer, Finish
<1>4. \A c \in Customers : bills[c] # 0
  BY <1>2, <1>3 DEF Inv, RefreshInv, Settled, Customers
<1>5. QED
  BY <1>3, <1>4 DEF Ended

(* A refresh that did not read every customer's bill never clears the      *)
(* issue.                                                                  *)
THEOREM IssueCleared == Spec => IssueClearedByWholeRefresh
BY InvariantHolds, IssueStep, PTL DEF Spec, IssueClearedByWholeRefresh
------------------------------------------------------------------------------
(* Termination of a refresh: two requests at most for each customer that   *)
(* has not been asked.                                                     *)
Left(a, r) == IF a = 0 THEN 0 ELSE 2 * (N - a) + (IF r = "bill" THEN 2 ELSE 1)

(* A refresh never comes back to where it was: until it ends, a step       *)
(* leaves its place or brings it strictly closer to its end.               *)
NeverBack ==
  [][asking # 0 => \/ UNCHANGED <<asking, request>>
                   \/ Left(asking', request') < Left(asking, request)]_vars

(* A refresh ends after at most two requests for each customer, whatever   *)
(* KEPCO ON answers: nobody is asked twice.                                *)
THEOREM RefreshRunsOut == Spec => NeverBack
<1>1. ASSUME Inv, [Next]_vars, asking # 0
      PROVE  \/ UNCHANGED <<asking, request>>
             \/ Left(asking', request') < Left(asking, request)
  <2>1. N \in Nat /\ asking \in 1..N
    BY <1>1, CoordinatorAssumption DEF Inv, TypeOK
  <2>2. asking' = 0 => Left(asking', request') < Left(asking, request)
    BY <1>1, <2>1 DEF Left
  <2>3. CASE KepcoChanges \/ UNCHANGED vars
    BY <2>3 DEF KepcoChanges, vars
  <2>4. CASE Poll \/ UserRefresh
    BY <1>1, <2>4 DEF Poll, UserRefresh, Start
  <2>5. CASE BillRead
    <3>1. asking' = asking /\ request = "bill" /\ request' = "planner"
      BY <2>5 DEF BillRead
    <3>2. QED
      BY <2>1, <3>1 DEF Left
  <2>6. CASE BillChanged \/ PlannerEnds
    <3>1. asking' = 0 \/ asking' = asking + 1
      <4>1. ASSUME NEW b, NEW e, NEW i, NextCustomer(b, e, i)
            PROVE  asking' = 0 \/ asking' = asking + 1
        BY <4>1, Zenon DEF NextCustomer, Finish, Ended
      <4>2. QED
        BY <2>6, <4>1 DEF BillChanged, PlannerEnds
    <3>2. CASE asking' = asking + 1
      BY <2>1, <3>1, <3>2 DEF Left
    <3>3. QED
      BY <2>2, <3>1, <3>2
  <2>7. CASE SessionRefused \/ Unreachable \/ Reload
    BY <2>2, <2>7 DEF SessionRefused, Unreachable, Failed, Ended, Reload
  <2>8. QED
    BY <1>1, <2>3, <2>4, <2>5, <2>6, <2>7 DEF Next, Refresh
<1>2. QED
  BY <1>1, InvariantHolds, PTL DEF Spec, NeverBack

------------------------------------------------------------------------------
(* Recovery.  Fresh: KEPCO ON is well, what is shown is what it bills, and *)
(* what the refresh under way has read so far is too.                      *)
Fresh ==
  /\ Healthy /\ kepco.session
  /\ loaded /\ success /\ AllShown
  /\ asking # 0 =>
       /\ errors = {}
       /\ \A c \in Customers :
            c < asking \/ (c = asking /\ request = "planner") => bills[c] = kepco.month[c]

(* Once everything is shown it stays so as long as KEPCO ON stays as it is *)
(* and the entry is not reloaded, through all refreshes of the timer and   *)
(* of the user.                                                            *)
StaysFresh == [][Fresh /\ kepco' = kepco /\ ~Reload => Fresh']_vars

(* Between two changes at KEPCO ON a refresh reads what is shown.          *)
LEMMA FreshStep ==
  ASSUME Inv, [Next]_vars, Fresh, kepco' = kepco, ~Reload PROVE Fresh'
<1>1. /\ asking \in 0..N /\ N \in Nat \ {0}
      /\ bills \in [Customers -> Months] /\ kepco.month \in [Customers -> Months]
      /\ request \in {"bill", "planner"}
  BY CoordinatorAssumption DEF Inv, TypeOK
<1> DEFINE Same == UNCHANGED <<loaded, success, shown, issue>>
<1> USE DEF Fresh, Healthy, AllShown
<1>2. CASE KepcoChanges \/ UNCHANGED vars
  <2>1. Same /\ UNCHANGED <<asking, request, bills, errors>>
    BY <1>2 DEF KepcoChanges, vars
  <2>2. QED
    BY <2>1
<1>3. CASE Poll \/ UserRefresh
  <2>1. Same /\ asking' = 1 /\ request' = "bill" /\ errors' = {}
    BY <1>3 DEF Poll, UserRefresh, Start
  <2>2. QED
    BY <2>1 DEF Customers
<1>4. CASE BillRead
  <2>1. /\ Same /\ errors' = errors /\ asking # 0 /\ asking' = asking
        /\ bills' = [bills EXCEPT ![asking] = kepco.month[asking]]
    BY <1>4 DEF BillRead, Answered
  <2>2. QED
    BY <1>1, <2>1 DEF Customers
<1>5. CASE BillChanged \/ SessionRefused \/ Unreachable
  BY <1>5 DEF BillChanged, Answered, Readable, SessionRefused, Unreachable
<1>6. CASE PlannerEnds
  <2>1. asking \in 1..N /\ request = "planner" /\ errors = {}
    BY <1>1, <1>6 DEF PlannerEnds
  <2>2. CASE asking < N
    <3>1. /\ Same /\ asking' = asking + 1 /\ request' = "bill"
          /\ bills' = bills /\ errors' = errors
      <4>1. asking # N
        BY <1>1, <2>2
      <4>2. QED
        BY <1>6, <4>1, Zenon DEF PlannerEnds, NextCustomer
    <3>2. QED
      BY <1>1, <2>1, <3>1 DEF Customers
  <2>3. CASE asking = N
    <3>1. bills = kepco.month
      BY <1>1, <2>1, <2>3 DEF Customers
    <3>2. bills # NoBills
      <4>1. bills[1] # 0 /\ 1 \in Customers
        BY <1>1, <3>1 DEF Inv, MonthsBilled, Customers
      <4>2. QED
        BY <4>1 DEF NoBills
    <3>3. Ended([bills |-> bills, errors |-> errors], TRUE, TRUE) /\ issue' = FALSE
      <4>1. ~(asking < N)
        BY <1>1, <2>3
      <4>2. Finish(bills, errors)
        BY <1>6, <4>1, Zenon DEF PlannerEnds, NextCustomer
      <4>3. Ended([bills |-> bills, errors |-> errors], TRUE, TRUE) /\ issue' = (errors # {})
        BY <4>2, <3>2, Zenon DEF Finish
      <4>4. QED
        BY <2>1, <4>3
    <3>4. View([bills |-> bills, errors |-> errors], TRUE) = bills
      BY <1>1, <2>1 DEF View
    <3>5. QED
      BY <3>1, <3>3, <3>4 DEF Ended
  <2>4. QED
    BY <1>1, <2>1, <2>2, <2>3
<1>7. QED
  BY <1>2, <1>3, <1>4, <1>5, <1>6 DEF Next, Refresh

(* What a recovery has reached it keeps: the safety half of Recovers.      *)
THEOREM RecoveryIsKept == Spec => StaysFresh
<1>1. ASSUME Inv, [Next]_vars PROVE Fresh /\ kepco' = kepco /\ ~Reload => Fresh'
  BY <1>1, FreshStep
<1>2. QED
  BY <1>1, InvariantHolds, PTL DEF Spec, StaysFresh

===============================================================================
