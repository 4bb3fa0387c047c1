------------------------------ MODULE BillService ------------------------------
(***************************************************************************)
(* The response services get_monthly_bill and get_usage_history            *)
(* (services.py) with the client they call (api.py): one call at a time    *)
(* of one customer, while months pass, the coordinator refreshes, the      *)
(* options change and the entry is unloaded and set up again.              *)
(***************************************************************************)
EXTENDS BillMonths

CONSTANTS
  FirstMonth, LastMonth,  \* bounds: the current month while the model runs
  Asked,                  \* bound: what callers put into "month"
  Lengths,                \* bound: the number of months of KEPCO ON's charts
  Options                 \* bound: history_months of the entry's options

ASSUME MonthsAssumption ==
  /\ FirstMonth \in Nat /\ LastMonth \in Nat /\ FirstMonth <= LastMonth
  /\ IsMonth(FirstMonth) /\ IsMonth(LastMonth)
  /\ Asked \subseteq Nat \ {None}
  /\ Lengths \subseteq Nat

VARIABLES
  now,       \* the current month of Home Assistant's local time
  isHouse,   \* the kind of the customer: a house or an apartment
  loaded,    \* the entry is loaded
  option,    \* its history_months
  data,      \* the customer's bill in coordinator.data, or NoBill
  stage,     \* where the call is
  service,   \* which service it is
  month,     \* the month asked for, or None
  askedIn,   \* the month the call was made in
  attached,  \* the HTTP session of the call's client is open
  bill,      \* the bill the call has read
  reply      \* what the caller got

entryVars == <<isHouse, loaded, option, data>>
callVars  == <<stage, service, month, askedIn, bill, reply>>
vars      == <<now, entryVars, callVars, attached>>

Services == {"monthly_bill", "usage_history"}
(* "raw" is an exception that is not one of Home Assistant's errors, and   *)
(* "client_month" a service_failed for a month _validate_month let pass.   *)
Errors   == {"invalid_entry", "invalid_month", "service_failed",
             "client_month", "raw"}
Replies  == Errors \union {"none", "bill", "history"}

Init ==
  /\ now = FirstMonth /\ isHouse \in BOOLEAN /\ loaded = TRUE
  /\ option \in Options /\ data = NoBill
  /\ stage = "idle" /\ service = "monthly_bill" /\ month = None
  /\ askedIn = now /\ attached = TRUE /\ bill = NoBill
  /\ reply = [kind |-> "none", months |-> <<>>]

------------------------------------------------------------------------------
(* KEPCO ON: charts that end at m or the month before, of consecutive      *)
(* months, or with one missing, two exchanged, one repeated, or no month.  *)

\* k months before m, one month at a time
Before(m, k) ==
  LET Previous(x) == IF MonthNo(x) = 1 THEN (Year(x) - 1) * 100 + 12 ELSE x - 1
      f[i \in 0..k] == IF i = 0 THEN m ELSE Previous(f[i - 1])
  IN  f[k]

Run(m, n) == [i \in 1..n |-> Before(m, n - i)]

Charts(m) ==
  LET runs == {Run(e, n) : e \in {m, Before(m, 1)}, n \in Lengths}
      long == {s \in runs : Len(s) > 2}
  IN  runs
      \union {SubSeq(s, 1, 1) \o SubSeq(s, 3, Len(s)) : s \in long}
      \union {SubSeq(s, 1, Len(s) - 2) \o <<s[Len(s)]>> : s \in long}
      \union {<<s[2], s[1]>> \o SubSeq(s, 3, Len(s)) : s \in long}
      \union {s \o <<s[Len(s)]>> : s \in long}
      \union {s \o <<m + 100 - MonthNo(m)>> : s \in long}

(* The bills a request for month m may bring, NoBill among them.  The      *)
(* latest bill is of this month or of the one before.                      *)
Responses(m) == {None, m, NextMonth(m), Before(m, 1), Before(m, 12)}

Bills(m) ==
  LET latest == IF m # None THEN {m} ELSE {now, Before(now, 1)}
  IN  IF isHouse THEN {HouseBill(c) : c \in UNION {Charts(l) : l \in {now, Before(now, 1)}}}
      ELSE {ApartmentBill(m, r, c) : r \in UNION {Responses(l) : l \in latest},
                                     c \in UNION {Charts(l) : l \in latest}}

------------------------------------------------------------------------------
(* Around the call                                                         *)

Tick ==
  /\ now < LastMonth
  /\ now' = NextMonth(now)
  /\ UNCHANGED <<entryVars, callVars, attached>>

(* A refresh brings the bill, or loses it; a failed one leaves it alone.   *)
Refresh ==
  /\ loaded
  /\ data' \in Bills(None)
  /\ UNCHANGED <<now, isHouse, loaded, option, callVars, attached>>

(* A reply leaves in the step that made it.                                *)
ChangeOption ==
  /\ stage # "done"
  /\ option' \in Options
  /\ UNCHANGED <<now, isHouse, loaded, data, callVars, attached>>

(* async_unload_entry closes the session the call's client holds.          *)
Unload ==
  /\ loaded
  /\ loaded' = FALSE /\ data' = NoBill /\ attached' = FALSE
  /\ UNCHANGED <<now, isHouse, option, callVars>>

Setup ==
  /\ ~loaded
  /\ loaded' = TRUE /\ data' \in Bills(None)
  /\ attached' = (attached \/ stage \in {"idle", "done"})
  /\ UNCHANGED <<now, isHouse, option, callVars>>

------------------------------------------------------------------------------
(* The call                                                                *)

Reply(kind, months) == /\ stage' = "done"
                       /\ reply' = [kind |-> kind, months |-> months]

(* The bill as the service answers it.                                     *)
Answer(b, srv) ==
  /\ bill' = b
  /\ \/ srv = "monthly_bill" /\ Reply("bill", <<b.month>>)
     \/ srv = "usage_history" /\ Reply("history", Newest(b.history, HistoryMonths(option)))

(* Everything up to the first request happens without an await.  A house   *)
(* is asked for its latest bill whatever the month.                        *)
Call(srv, m) ==
  /\ stage = "idle"
  /\ srv = "monthly_bill" => m # None
  /\ service' = srv /\ month' = m /\ askedIn' = now
  /\ \/ /\ ~loaded
        /\ Reply("invalid_entry", <<>>)
        /\ UNCHANGED bill
     \/ /\ loaded /\ m # None /\ ~InWindow(now, m)
        /\ Reply("invalid_month", <<>>)
        /\ UNCHANGED bill
     \/ /\ loaded /\ m = None /\ data # NoBill
        /\ Answer(data, srv)
     \/ /\ loaded
        /\ IF m = None THEN data = NoBill ELSE InWindow(now, m)
        /\ \/ /\ isHouse \/ m = None \/ ClientAccepts(now, m)
              /\ stage' = "bill"
              /\ UNCHANGED <<bill, reply>>
           \/ /\ ~isHouse /\ m # None /\ ~ClientAccepts(now, m)
              /\ Reply("client_month", <<>>)
              /\ UNCHANGED bill
  /\ UNCHANGED <<now, entryVars, attached>>

\* The bill is read; the planner is asked next.
Plan(b) == /\ stage' = "planner"
           /\ bill' = b
           /\ UNCHANGED reply

(* The answer.  Only an apartment's explicit month does without the        *)
(* planner.                                                                *)
BillArrives ==
  /\ stage = "bill"
  /\ \E b \in Bills(month) :
       \/ /\ b = NoBill
          /\ Reply("service_failed", <<>>)
          /\ UNCHANGED bill
       \/ /\ b # NoBill /\ ~isHouse /\ month # None
          /\ Answer(b, service)
       \/ /\ b # NoBill /\ (isHouse \/ month = None)
          /\ Plan(b)
  /\ UNCHANGED <<now, entryVars, service, month, askedIn, attached>>

(* The planner's answer or its failure; the bill is kept in both cases.    *)
PlannerEnds ==
  /\ stage = "planner"
  /\ Answer(bill, service)
  /\ UNCHANGED <<now, entryVars, service, month, askedIn, attached>>

(* The last attempt failed, or the session could not be renewed.           *)
RequestFails ==
  /\ stage \in {"bill", "planner"}
  /\ Reply("service_failed", <<>>)
  /\ UNCHANGED <<now, entryVars, service, month, askedIn, attached, bill>>

(* An attempt failed, or the session expired, and the next request finds   *)
(* the HTTP session closed: RuntimeError, which nobody translates.         *)
SessionClosed ==
  /\ stage \in {"bill", "planner"} /\ ~attached
  /\ Reply("raw", <<>>)
  /\ UNCHANGED <<now, entryVars, service, month, askedIn, attached, bill>>

Return ==
  /\ stage = "done"
  /\ stage' = "idle" /\ service' = "monthly_bill" /\ month' = None
  /\ bill' = NoBill /\ askedIn' = now
  /\ reply' = [kind |-> "none", months |-> <<>>]
  /\ attached' = loaded
  /\ UNCHANGED <<now, entryVars>>

------------------------------------------------------------------------------
Next == \/ Tick \/ Refresh \/ ChangeOption \/ Unload \/ Setup
        \/ \E srv \in Services, m \in Asked \union {None} : Call(srv, m)
        \/ BillArrives \/ PlannerEnds \/ RequestFails \/ SessionClosed
        \/ Return

Spec == Init /\ [][Next]_vars

------------------------------------------------------------------------------
(* Properties                                                              *)

IsBill(b) == DOMAIN b = DOMAIN NoBill /\ (b.month # None => IsMonth(b.month))

TypeOK ==
  /\ IsMonth(now) /\ now \in FirstMonth..LastMonth /\ askedIn \in FirstMonth..now
  /\ {isHouse, loaded, attached} \subseteq BOOLEAN
  /\ option \in Options
  /\ stage \in {"idle", "bill", "planner", "done"}
  /\ service \in Services /\ month \in Asked \union {None}
  /\ IsBill(data) /\ IsBill(bill)
  /\ reply.kind \in Replies

(* A month is refused exactly when it is none of the last 24 calendar      *)
(* months, counted back one by one over the turn of the year, and a month  *)
(* the service lets pass is never refused by the client after all.         *)
MonthsRefusedRightly ==
  stage # "idle" /\ month # None /\ reply.kind # "invalid_entry" =>
    /\ reply.kind = "invalid_month" <=> month \notin {Before(askedIn, k) : k \in 0..23}
    /\ reply.kind # "client_month"

(* A history answered holds the newest months of the bill, in order and    *)
(* once each, as many as the option says (12 when it is of no use); for a  *)
(* month asked of an apartment it ends with that month, whatever month     *)
(* KEPCO ON's answer claims, and so does the bill.                         *)
AnswerIsNewestAndAsked ==
  /\ reply.kind = "history" =>
       LET limit == IF option \in 1..24 THEN option ELSE 12
           got   == {reply.months[i] : i \in 1..Len(reply.months)}
           all   == {bill.history[i] : i \in 1..Len(bill.history)}
       IN  /\ Ascending(reply.months)
           /\ got = {m \in all : Cardinality({x \in all : x > m}) < limit}
  /\ ~isHouse /\ month # None /\ reply.months # <<>> =>
       reply.months[Len(reply.months)] = month

(* A bill is compared with the calendar month before it and with the same  *)
(* month of the year before, when a house's chart has them, and with no    *)
(* other.                                                                  *)
ComparesCalendarMonths ==
  \A b \in {data, bill} :
    LET all == {b.history[i] : i \in 1..Len(b.history)}
        Compared(k) == IF isHouse /\ b # NoBill /\ Before(b.month, k) \in all
                       THEN Before(b.month, k) ELSE None
    IN  b.previous = Compared(1) /\ b.lastYear = Compared(12)
==============================================================================
