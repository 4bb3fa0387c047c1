------------------------------ MODULE Coordinator ------------------------------
(***************************************************************************)
(* KepcoOnDataUpdateCoordinator (coordinator.py) with the bill requests of *)
(* KepcoOnClient (api.py), the availability of the sensors (sensor.py) and *)
(* the bill_schema_changed issue (repairs.py): refreshes ask for the bills *)
(* of the selected customers one after the other while KEPCO ON's state    *)
(* changes.                                                                *)
(*                                                                         *)
(* A bill is its month.  DataUpdateCoordinator is Home Assistant's: it     *)
(* refreshes once at a time, keeps the old data when a refresh fails,      *)
(* schedules the next one unless authentication failed, and has the        *)
(* entities write their states unless it fails twice in a row.             *)
(***************************************************************************)
EXTENDS Naturals

CONSTANTS
  N,          \* the number of selected customers, asked in the order 1..N
  MaxMonth    \* bound: months KEPCO ON bills

ASSUME CoordinatorAssumption == N \in Nat \ {0} /\ MaxMonth \in Nat \ {0}

Customers == 1..N

VARIABLES
  kepco,      \* network, session, and the months and shape of the bills
  asking,     \* the customer being asked, 0 between refreshes
  request,    \* the request under way for it
  bills,      \* bills of this refresh; 0 is none
  errors,     \* customers whose bill could not be read in this refresh
  data,       \* coordinator.data: the bills and errors published
  success,    \* last_update_success
  scheduled,  \* whether Home Assistant will refresh (or set up) again
  loaded,     \* whether the entry's first refresh succeeded
  shown,      \* the state each customer's sensors have written
  issue       \* the bill_schema_changed issue

vars == <<kepco, asking, request, bills, errors, data, success, scheduled,
          loaded, shown, issue>>

NoBills == [c \in Customers |-> 0]
NoData  == [bills |-> NoBills, errors |-> {}]
Months  == 0..MaxMonth

Init ==
  /\ kepco = [up |-> TRUE, session |-> TRUE, changed |-> {},
              month |-> [c \in Customers |-> 1]]
  /\ asking = 0
  /\ request = "bill"
  /\ bills = NoBills
  /\ errors = {}
  /\ data = NoData
  /\ success = TRUE
  /\ scheduled = TRUE
  /\ loaded = FALSE
  /\ shown = NoBills
  /\ issue = FALSE

------------------------------------------------------------------------------
(* KEPCO ON: it may be out of reach, refuse the session for good, change   *)
(* the shape of a customer's bill, and it bills another month.             *)
KepcoChanges ==
  /\ \/ \E b \in BOOLEAN : kepco' = [kepco EXCEPT !.up = b]
     \/ \E b \in BOOLEAN : kepco' = [kepco EXCEPT !.session = b]
     \/ \E C \in SUBSET Customers : kepco' = [kepco EXCEPT !.changed = C]
     \/ \E c \in Customers :
          /\ kepco.month[c] < MaxMonth
          /\ kepco' = [kepco EXCEPT !.month[c] = @ + 1]
  /\ UNCHANGED <<asking, request, bills, errors, data, success, scheduled,
                 loaded, shown, issue>>

------------------------------------------------------------------------------
(* A refresh: the timer's or the setup's, or one the user asks for.        *)
Start ==
  /\ asking = 0
  /\ asking' = 1
  /\ request' = "bill"
  /\ bills' = NoBills
  /\ errors' = {}
  /\ UNCHANGED <<kepco, data, success, scheduled, loaded, shown, issue>>

Poll == scheduled /\ Start
UserRefresh == loaded /\ Start

\* Mutant: available looks at the bills only, not at the last refresh.
BugIgnoreSuccess(d, ok) == d.bills

(* available and native_value of a customer's sensors.                     *)
View(d, ok) ==
  [c \in Customers |-> IF ok /\ c \notin d.errors THEN d.bills[c] ELSE 0]

(* DataUpdateCoordinator after _async_update_data returned or raised; data *)
(* of a successful refresh differ by their time.                           *)
Ended(d, ok, again) ==
  /\ asking' = 0
  /\ request' = "bill"
  /\ data' = d
  /\ success' = ok
  /\ scheduled' = again
  /\ loaded' = (loaded \/ ok)
  /\ shown' = IF (ok \/ success) /\ loaded' THEN View(d, ok) ELSE shown
  /\ UNCHANGED <<kepco, bills, errors>>

Failed(again) == Ended(data, FALSE, again) /\ UNCHANGED issue

(* _async_update_data after its last customer.                             *)
\* Mutant: the issue is left alone when the refresh saw no error.
BugNeverClear(b, e) ==
  \/ /\ b = NoBills
     /\ Ended(data, FALSE, TRUE)
     /\ issue' = (issue \/ e # {})
  \/ /\ b # NoBills
     /\ Ended([bills |-> b, errors |-> e], TRUE, TRUE)
     /\ issue' = (issue \/ e # {})

Finish(b, e) ==
  \/ /\ b = NoBills
     /\ Ended(data, FALSE, TRUE)
     /\ issue' = (issue \/ e # {})
  \/ /\ b # NoBills
     /\ Ended([bills |-> b, errors |-> e], TRUE, TRUE)
     /\ issue' = (e # {})

\* Mutant: the loop goes one customer too far.
BugOneTooMany(b, e, i) ==
  \/ /\ asking > N
     /\ Finish(b, e)
  \/ /\ asking <= N
     /\ asking' = asking + 1
     /\ request' = "bill"
     /\ bills' = b
     /\ errors' = e
     /\ issue' = i
     /\ UNCHANGED <<kepco, data, success, scheduled, loaded, shown>>

(* The loop goes on with the next customer or ends.                        *)
NextCustomer(b, e, i) ==
  \/ /\ asking = N
     /\ Finish(b, e)
  \/ /\ asking < N
     /\ asking' = asking + 1
     /\ request' = "bill"
     /\ bills' = b
     /\ errors' = e
     /\ issue' = i
     /\ UNCHANGED <<kepco, data, success, scheduled, loaded, shown>>

Answered == asking # 0 /\ kepco.up /\ kepco.session
Readable == asking \notin kepco.changed

BillRead ==
  /\ Answered /\ Readable
  /\ request = "bill"
  /\ bills' = [bills EXCEPT ![asking] = kepco.month[asking]]
  /\ request' = "planner"
  /\ UNCHANGED <<kepco, asking, errors, data, success, scheduled, loaded, shown, issue>>

(* A protocol error creates the issue at once and the loop goes on.        *)
BillChanged ==
  /\ Answered /\ ~Readable
  /\ request = "bill"
  /\ NextCustomer(bills, errors \union {asking}, TRUE)

(* Whatever the planner answers, short of an auth error, the bill is kept. *)
\* Mutant: a customer that is read clears the issue at once.
BugClearEarly ==
  /\ asking # 0
  /\ request = "planner"
  /\ kepco.session
  /\ NextCustomer(bills, errors, FALSE)

\* Mutant: a planner that fails loses the customer's bill.
BugPlannerRequired ==
  /\ asking # 0
  /\ request = "planner"
  /\ kepco.session
  /\ \/ NextCustomer(bills, errors, issue)
     \/ NextCustomer([bills EXCEPT ![asking] = 0], errors, issue)

PlannerEnds ==
  /\ asking # 0
  /\ request = "planner"
  /\ kepco.session \/ ~kepco.up
  /\ NextCustomer(bills, errors, issue)

(* ConfigEntryAuthFailed out of either request.                            *)
SessionRefused ==
  /\ asking # 0
  /\ kepco.up /\ ~kepco.session
  /\ Failed(FALSE)

\* Mutant: polling stops when KEPCO ON cannot be reached.
BugStopPolling ==
  /\ asking # 0
  /\ ~kepco.up
  /\ Failed(FALSE)

(* UpdateFailed, or an exception that is no KepcoOnError (a store that     *)
(* raises), which fails the refresh during the planner's request too.      *)
Unreachable ==
  /\ asking # 0
  /\ ~kepco.up
  /\ Failed(TRUE)

(* The entry is unloaded, its refresh cancelled, and set up again with a   *)
(* new coordinator (also after a reauthentication).                        *)
Reload ==
  /\ asking' = 0
  /\ request' = "bill"
  /\ data' = NoData
  /\ success' = TRUE
  /\ scheduled' = TRUE
  /\ loaded' = FALSE
  /\ shown' = NoBills
  /\ UNCHANGED <<kepco, bills, errors, issue>>

Refresh == BillRead \/ BillChanged \/ PlannerEnds \/ SessionRefused \/ Unreachable

Next == KepcoChanges \/ Poll \/ UserRefresh \/ Refresh \/ Reload

(* The timer of a scheduled refresh fires and every request ends.  Nothing *)
(* is assumed of KEPCO ON, the user's refreshes or reloads.                *)
Spec == Init /\ [][Next]_vars
FairSpec == Spec /\ WF_vars(Poll) /\ WF_vars(Refresh)

------------------------------------------------------------------------------
TypeOK ==
  /\ kepco \in [up : BOOLEAN, session : BOOLEAN, changed : SUBSET Customers,
                month : [Customers -> Months]]
  /\ asking \in 0..N
  /\ request \in {"bill", "planner"}
  /\ bills \in [Customers -> Months]
  /\ errors \in SUBSET Customers
  /\ data \in [bills : [Customers -> Months], errors : SUBSET Customers]
  /\ {success, scheduled, loaded, issue} \subseteq BOOLEAN
  /\ shown \in [Customers -> Months]

(* What is published comes from one whole refresh: each customer has a     *)
(* bill or an error, never both, and at least one has a bill.              *)
DataComplete ==
  loaded => /\ \A c \in Customers : (data.bills[c] # 0) <=> (c \notin data.errors)
            /\ data.bills # NoBills

(* A sensor never shows a bill that the last completed refresh did not     *)
(* bring, and shows every bill that it brought.                            *)
ShownIsCurrent ==
  loaded => \A c \in Customers :
              shown[c] = IF success THEN data.bills[c] ELSE 0

(* After a successful refresh the issue is there exactly when a customer's *)
(* bill could not be read in it; a protocol error raises it immediately.   *)
IssueReflectsData ==
  /\ loaded /\ success /\ asking = 0 => (issue <=> data.errors # {})
  /\ errors # {} /\ asking # 0 => issue

(* The issue goes away only when a refresh read every customer's bill.     *)
IssueClearedByWholeRefresh ==
  [][issue /\ ~issue' => /\ asking = N /\ success'
                         /\ \A c \in Customers : data'.bills[c] # 0]_vars

(* Once KEPCO ON is back for good and its session was never refused,      *)
(* every sensor comes to show the latest bill and the issue goes away,     *)
(* unless the entry is reloaded again and again.                           *)
Healthy == kepco.up /\ kepco.changed = {}
AllShown == shown = kepco.month /\ ~issue
Recovers == []kepco.session /\ <>[]Healthy
              => <>[]AllShown \/ []<><<Reload>>_vars
===============================================================================
